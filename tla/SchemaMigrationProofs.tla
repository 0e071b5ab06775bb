------------------------ MODULE SchemaMigrationProofs ------------------------
(***************************************************************************)
(* What the two versions of the handler, the backfill and the operator can *)
(* do to a row, for any names, rows, requests and runs.                    *)
(***************************************************************************)
EXTENDS SchemaMigration, SequenceTheorems, FiniteSetTheorems, WellFoundedInduction, TLAPS

(* The rows of the table, as far as its columns go.                        *)
UserRow(row) == /\ "name" \in schema => row["name"] # Null
                /\ schema = OldColumns => row["first"] = Null
                /\ schema = NewColumns => row["first"] # Null
                /\ row["first"] = Null <=> row["last"] = Null

RowsInv == \A id \in Ids : IF id \in users THEN UserRow(rows[id]) ELSE rows[id] = NoValues

(* v2 works on no table that lacks the new columns, v1 on none without name.*)
WorksOn(v) == v = "v2" => schema # OldColumns
WorksToo(v) == v = "v1" => schema # NewColumns

VersionsInv == /\ \A v \in served : WorksOn(v) /\ WorksToo(v)
               /\ \A c \in Requests : WorksOn(version[c]) /\ WorksToo(version[c])

(* The backfill runs on an expanded table, and counts what it has filled.  *)
RunsInv == \A r \in Runners : /\ stage[r] # "idle" => schema # OldColumns
                             /\ total[r] <= filled

IInv == /\ TypeOK /\ RowsInv /\ VersionsInv /\ RunsInv
        /\ VersionsAgree /\ ProgressNotOverstated

-----------------------------------------------------------------------------
(* Positions in a text.                                                    *)

LEMMA MinIs ==
  ASSUME NEW S, S \subseteq Nat, S # {}
  PROVE  Min(S) \in S /\ \A q \in S : Min(S) <= q
<1> DEFINE R == OpToRel(<, Nat)
<1>1. IsWellFoundedOn(R, Nat)
  BY NatLessThanWellFounded, Zenon DEF R
<1>2. \A x, y \in Nat : x < y => <<x, y>> \in R
  BY DEF R, OpToRel
<1> HIDE DEF R
<1>3. PICK x \in S : \A y \in S : ~(<<y, x>> \in R)
  BY <1>1, WFMin
<1>4. ASSUME NEW y \in S PROVE x <= y
  <2>1. x \in Nat /\ y \in Nat
    OBVIOUS
  <2>2. ~(y < x)
    BY <1>2, <1>3, <2>1
  <2> QED BY <2>1, <2>2
<1> QED BY <1>4 DEF Min

LEMMA MaxIs ==
  ASSUME NEW k \in Nat, NEW S, S \subseteq 1..k, S # {}
  PROVE  Max(S) \in S /\ \A q \in S : q <= Max(S)
<1> DEFINE T == {k - q : q \in S}
<1>1. T \subseteq Nat /\ T # {}
  <2>1. \A q \in S : k - q \in Nat
    OBVIOUS
  <2> QED BY <2>1
<1>2. PICK t \in T : \A u \in T : t <= u
  <2> HIDE DEF T
  <2>1. Min(T) \in T /\ \A u \in T : Min(T) <= u
    BY <1>1, MinIs
  <2> QED BY <2>1
<1>3. PICK x \in S : t = k - x
  BY <1>2
<1>4. ASSUME NEW q \in S PROVE x >= q
  <2>1. k - q \in T
    OBVIOUS
  <2>2. k - x <= k - q
    BY <1>2, <1>3, <2>1
  <2> HIDE DEF T
  <2>3. q \in Int /\ x \in Int
    OBVIOUS
  <2> QED BY <2>2, <2>3
<1> QED BY <1>4 DEF Max

-----------------------------------------------------------------------------
(* Names.                                                                  *)

LEMMA NullIsNoText == Null \notin Text /\ Text \subseteq Value /\ Null \in Value /\ <<>> \in Text
  BY MigrationAssumption DEF Value, Text

LEMMA PieceType ==
  ASSUME NEW n \in Text, NEW i \in Nat \ {0}, NEW j \in Int, j <= Len(n)
  PROVE  SubSeq(n, i, j) \in Text
<1>1. \A q \in i..j : n[q] \in Letters \cup White
  BY DEF Text
<1> QED BY <1>1, SubSeqProperties DEF Text

LEMMA TrimType == ASSUME NEW n \in Text PROVE TrimSpace(n) \in Text
<1> DEFINE kept == {i \in 1..Len(n) : n[i] \notin White}
<1>1. Len(n) \in Nat /\ kept \subseteq 1..Len(n) /\ kept \subseteq Nat
  BY DEF Text
<1>2. CASE kept = {}
  BY <1>2, NullIsNoText DEF TrimSpace
<1>3. CASE kept # {}
  <2>1. Min(kept) \in 1..Len(n) /\ Max(kept) \in 1..Len(n)
    BY <1>1, <1>3, MinIs, MaxIs
  <2>2. SubSeq(n, Min(kept), Max(kept)) \in Text
    BY <1>1, <2>1, PieceType
  <2> QED BY <1>3, <2>2 DEF TrimSpace
<1> QED BY <1>2, <1>3

(* First and last space of a text that has one.                            *)
LEMMA SpacesAre ==
  ASSUME NEW n \in Text, Spaces(n) # {}
  PROVE  /\ Len(n) \in Nat
         /\ Min(Spaces(n)) \in Spaces(n) /\ Max(Spaces(n)) \in Spaces(n)
         /\ Spaces(n) \subseteq 1..Len(n)
<1>1. Len(n) \in Nat /\ Spaces(n) \subseteq 1..Len(n) /\ Spaces(n) \subseteq Nat
  BY DEF Text, Spaces
<1> QED BY <1>1, MinIs, MaxIs

LEMMA AroundPair ==
  ASSUME NEW n \in Text, NEW i \in 1..Len(n), NEW j \in 1..Len(n)
  PROVE  \E f, l \in Text : Around(n, i, j) = <<f, l>>
<1>1. Len(n) \in Nat
  BY DEF Text
<1>2. SubSeq(n, 1, i - 1) \in Text /\ SubSeq(n, j + 1, Len(n)) \in Text
  BY <1>1, PieceType
<1> QED BY <1>2 DEF Around

(* Both splits of a name are pairs of texts.                               *)
LEMMA SplitPair ==
  ASSUME NEW n \in Text
  PROVE  \E f, l \in Text : SplitName(n) = <<f, l>>
<1> DEFINE t == TrimSpace(n)
<1>1. t \in Text
  BY TrimType
<1>2. CASE Spaces(t) = {}
  BY <1>1, <1>2 DEF SplitName
<1>3. CASE Spaces(t) # {}
  <2>1. SplitName(n) = Around(t, Min(Spaces(t)), Min(Spaces(t)))
    BY <1>3 DEF SplitName
  <2>2. Min(Spaces(t)) \in 1..Len(t)
    BY <1>1, <1>3, SpacesAre
  <2> QED BY <1>1, <2>1, <2>2, AroundPair
<1> QED BY <1>2, <1>3

LEMMA SubstringPair ==
  ASSUME NEW n \in Text
  PROVE  \E f, l \in Text : SubstringIndex(n) = <<f, l>>
<1>1. CASE Spaces(n) = {}
  BY <1>1 DEF SubstringIndex
<1>2. CASE Spaces(n) # {}
  <2>1. SubstringIndex(n) = Around(n, Min(Spaces(n)), Max(Spaces(n)))
    BY <1>2 DEF SubstringIndex
  <2>2. Min(Spaces(n)) \in 1..Len(n) /\ Max(Spaces(n)) \in 1..Len(n)
    BY <1>2, SpacesAre
  <2> QED BY <2>1, <2>2, AroundPair
<1> QED BY <1>1, <1>2

LEMMA FullNameType == ASSUME NEW f \in Text, NEW l \in Text PROVE FullName(f, l) \in Text
<1>1. <<Space>> \in Text
  BY DEF Text, White
<1>2. f \o <<Space>> \in Text
  BY <1>1, ConcatProperties DEF Text
<1>3. f \o <<Space>> \o l \in Text
  BY <1>2, ConcatProperties DEF Text
<1> QED BY <1>3, TrimType DEF FullName

-----------------------------------------------------------------------------
(* Rows.                                                                   *)

LEMMA RowColumns ==
  ASSUME NEW n \in Value, NEW f \in Value, NEW l \in Value
  PROVE  /\ Row(n, f, l) \in [Columns -> Value]
         /\ Row(n, f, l)["name"] = n /\ Row(n, f, l)["first"] = f /\ Row(n, f, l)["last"] = l
  BY DEF Row, Columns

LEMMA NoValuesType ==
  /\ NoValues \in [Columns -> Value]
  /\ NoValues["name"] = Null /\ NoValues["first"] = Null /\ NoValues["last"] = Null
  BY RowColumns, NullIsNoText DEF NoValues

(* A row whose new columns are the parts of a pair that splits its name,   *)
(* or that makes it up.                                                    *)
LEMMA PartsAgree ==
  ASSUME NEW n \in Text, NEW f \in Text, NEW l \in Text,
         \/ <<f, l>> \in {SplitName(n), SubstringIndex(n)}
         \/ FullName(f, l) = n
  PROVE  Agree(Row(n, f, l))
<1> DEFINE row == Row(n, f, l)
<1>1. row["name"] = n /\ row["first"] = f /\ row["last"] = l
  BY RowColumns, NullIsNoText
<1>2. CASE f = <<>>
  <2>1. ShownByV2(row) = SplitName(n)
    BY <1>1, <1>2 DEF ShownByV2
  <2> QED BY <1>1, <2>1 DEF Agree
<1>3. CASE f # <<>>
  <2>1. ShownByV2(row) = <<f, l>>
    BY <1>1, <1>3, NullIsNoText DEF ShownByV2
  <2> QED BY <1>1, <2>1 DEF Agree
<1> QED BY <1>2, <1>3

LEMMA UnfilledAgrees == ASSUME NEW row, row["first"] = Null PROVE Agree(row)
  BY DEF Agree, ShownByV2

TextRow(row) == row \in [Columns -> Value] /\ \A col \in Columns : row[col] \in Text

LEMMA TextRowOf ==
  ASSUME NEW n \in Text, NEW f \in Text, NEW l \in Text
  PROVE  TextRow(Row(n, f, l))
<1>1. \A col \in Columns : Row(n, f, l)[col] \in Text
  BY DEF Row, Columns
<1> QED BY <1>1, RowColumns, NullIsNoText DEF TextRow

LEMMA FromNameAgrees ==
  ASSUME NEW n \in Text
  PROVE  TextRow(FromName(n)) /\ Agree(FromName(n))
<1>1. PICK f \in Text, l \in Text : SplitName(n) = <<f, l>>
  BY SplitPair
<1>2. FromName(n) = Row(n, f, l)
  BY <1>1 DEF FromName
<1> QED BY <1>1, <1>2, PartsAgree, TextRowOf

LEMMA FromPartsAgrees ==
  ASSUME NEW f \in Text, NEW l \in Text
  PROVE  TextRow(FromParts(f, l)) /\ Agree(FromParts(f, l))
<1>1. FullName(f, l) \in Text
  BY FullNameType
<1> QED BY <1>1, PartsAgree, TextRowOf DEF FromParts

LEMMA FilledAgrees ==
  ASSUME NEW n \in Text
  PROVE  TextRow(Filled(n)) /\ Agree(Filled(n)) /\ Filled(n)["name"] = n
<1>1. PICK f \in Text, l \in Text : SubstringIndex(n) = <<f, l>>
  BY SubstringPair
<1>2. Filled(n) = Row(n, f, l)
  BY <1>1 DEF Filled
<1>3. TextRow(Row(n, f, l)) /\ Agree(Row(n, f, l))
  BY <1>1, PartsAgree, TextRowOf
<1> QED BY <1>2, <1>3, RowColumns, NullIsNoText

LEMMA PartsPair == \A p \in Parts : p[1] \in Text /\ p[2] \in Text
<1>1. \A n \in Given : n \in Text
  BY MigrationAssumption, NullIsNoText DEF Given
<1> SUFFICES ASSUME NEW f \in Given, NEW l \in Given, NEW n \in Given
             PROVE  PartsOf(f, l, n)[1] \in Text /\ PartsOf(f, l, n)[2] \in Text
  BY DEF Parts
<1>2. PICK g \in Text, h \in Text : SplitName(n) = <<g, h>>
  BY <1>1, SplitPair
<1> QED BY <1>1, <1>2 DEF PartsOf

(* Every body a handler stores is such a row.                              *)
LEMMA BodiesAgree ==
  ASSUME NEW v \in Versions, NEW body \in CreateBodies[v] \cup UpdateBodies[v]
  PROVE  TextRow(body) /\ Agree(body)
<1>1. Names \subseteq Given /\ \A n \in Given : n \in Text
  BY MigrationAssumption, NullIsNoText DEF Given
<1>2. \/ \E n \in Given : body = FromName(n)
      \/ \E f, l \in Text : body = FromParts(f, l)
  BY <1>1, PartsPair DEF CreateBodies, UpdateBodies, Versions
<1> QED BY <1>1, <1>2, FromNameAgrees, FromPartsAgrees

-----------------------------------------------------------------------------
(* Statements.                                                             *)

LEMMA NamedCases ==
  ASSUME TypeOK, NEW c \in Requests, version[c] # "none"
  PROVE  /\ version[c] \in Versions
         /\ version[c] = "v1" => Named(c) = IF NewColumns \subseteq known[c] THEN Columns ELSE OldColumns
         /\ version[c] = "v2" => Named(c) = IF "name" \in known[c] THEN Columns ELSE NewColumns
         /\ Named(c) \in {OldColumns, NewColumns, Columns}
<1>1. version[c] \in Versions
  BY DEF TypeOK
<1>2. CASE version[c] = "v1"
  BY <1>1, <1>2 DEF Named
<1>3. CASE version[c] = "v2"
  BY <1>1, <1>3 DEF Named
<1> QED BY <1>1, <1>2, <1>3 DEF Versions

LEMMA MergeType ==
  ASSUME NEW old \in [Columns -> Value], NEW named, NEW body, TextRow(body)
  PROVE  /\ Merge(old, named, body) \in [Columns -> Value]
         /\ \A col \in Columns :
               Merge(old, named, body)[col] = IF col \in named THEN body[col] ELSE old[col]
  BY DEF Merge, TextRow

LEMMA MergeAll ==
  ASSUME NEW old \in [Columns -> Value], NEW body, TextRow(body)
  PROVE  Merge(old, Columns, body) = body
  BY DEF Merge, TextRow

(* What an executed statement makes of a row, whether it was there or not. *)
LEMMA MergedRow ==
  ASSUME NEW old \in [Columns -> Value], NEW body, TextRow(body),
         schema \in {OldColumns, Columns, NewColumns},
         NEW named \in {OldColumns, NewColumns, Columns}, named \subseteq schema,
         UserRow(old) \/ (old = NoValues /\ "name" \notin schema \ named)
  PROVE  UserRow(Merge(old, named, body))
<1> DEFINE m == Merge(old, named, body)
<1>1. \A col \in Columns : m[col] = IF col \in named THEN body[col] ELSE old[col]
  BY MergeType
<1>2. \A col \in Columns : body[col] # Null
  BY NullIsNoText DEF TextRow
<1>3. old = NoValues => old["name"] = Null /\ old["first"] = Null /\ old["last"] = Null
  BY NoValuesType
<1>4. CASE named = OldColumns
  <2>1. m["name"] # Null /\ m["first"] = old["first"] /\ m["last"] = old["last"]
    BY <1>1, <1>2, <1>4 DEF OldColumns, Columns
  <2>2. schema # NewColumns
    BY <1>4 DEF OldColumns, NewColumns
  <2> QED BY <1>3, <2>1, <2>2 DEF UserRow
<1>5. CASE named = NewColumns
  <2>1. m["name"] = old["name"] /\ m["first"] # Null /\ m["last"] # Null
    BY <1>1, <1>2, <1>5 DEF NewColumns, Columns
  <2>2. schema # OldColumns
    BY <1>5 DEF OldColumns, NewColumns
  <2>3. "name" \in schema => old # NoValues \/ "name" \in schema \ named
    BY <1>5 DEF NewColumns
  <2> QED BY <2>1, <2>2, <2>3 DEF UserRow
<1>6. CASE named = Columns
  <2>1. m["name"] # Null /\ m["first"] # Null /\ m["last"] # Null
    BY <1>1, <1>2, <1>6 DEF Columns
  <2>2. schema # OldColumns
    BY <1>6 DEF OldColumns, Columns
  <2> QED BY <2>1, <2>2 DEF UserRow
<1> QED BY <1>4, <1>5, <1>6

LEMMA StoreType ==
  ASSUME TypeOK, NEW c \in Requests, NEW id \in Ids, NEW body, TextRow(body),
         Store(c, id, body)
  PROVE  /\ rows' \in [Ids -> [Columns -> Value]] /\ writes' \in Nat
         /\ rows'[id] = Merge(rows[id], Named(c), body)
         /\ \A i \in Ids \ {id} : rows'[i] = rows[i]
<1>1. rows[id] \in [Columns -> Value]
  BY DEF TypeOK
<1>2. Merge(rows[id], Named(c), body) \in [Columns -> Value]
  BY <1>1, MergeType
<1> QED BY <1>2 DEF TypeOK, Store

LEMMA RespondType ==
  ASSUME TypeOK, NEW c \in Requests, Respond(c)
  PROVE  /\ version' \in [Requests -> Versions \cup {"none"}]
         /\ known' \in [Requests -> {{}, OldColumns, Columns, NewColumns}]
<1>1. version' \in [Requests -> Versions \cup {"none"}]
  BY DEF TypeOK, Respond
<1>2. known' \in [Requests -> {{}, OldColumns, Columns, NewColumns}]
  BY DEF TypeOK, Respond
<1> QED BY <1>1, <1>2

-----------------------------------------------------------------------------
(* Types.                                                                  *)

LEMMA InitTypeOK == Init => TypeOK
<1> SUFFICES ASSUME Init PROVE TypeOK
  OBVIOUS
<1>1. rows \in [Ids -> [Columns -> Value]]
  <2>1. PICK n \in [OldUsers -> OldNames] :
           rows = [id \in Ids |-> IF id \in OldUsers THEN Row(n[id], Null, Null) ELSE NoValues]
    BY DEF Init
  <2>2. \A id \in OldUsers : n[id] \in Value
    BY MigrationAssumption, NullIsNoText
  <2>3. \A id \in OldUsers : Row(n[id], Null, Null) \in [Columns -> Value]
    BY <2>2, RowColumns, NullIsNoText
  <2> QED BY <2>1, <2>3, NoValuesType
<1>2. users \subseteq Ids
  BY MigrationAssumption DEF Init
<1> QED BY <1>1, <1>2 DEF Init, TypeOK, Versions, Stages

LEMMA FillType ==
  ASSUME TypeOK, RowsInv, NEW B, IsBatch(B), Fill(B)
  PROVE  /\ rows' \in [Ids -> [Columns -> Value]]
         /\ Cardinality(B) \in Nat /\ filled' = filled + Cardinality(B) /\ filled' \in Nat
         /\ \A id \in B : /\ id \in users /\ rows[id]["name"] \in Text
                          /\ rows'[id] = Filled(rows[id]["name"])
         /\ \A id \in Ids \ B : rows'[id] = rows[id]
<1>1. B \subseteq users /\ users \subseteq Ids
  BY DEF IsBatch, Unfilled, TypeOK
<1>2. \A id \in B : rows[id]["name"] \in Text
  <2> SUFFICES ASSUME NEW id \in B PROVE rows[id]["name"] \in Text
    OBVIOUS
  <2>1. rows[id]["name"] # Null
    BY <1>1 DEF RowsInv, UserRow, Fill
  <2>2. rows[id]["name"] \in Value
    BY <1>1 DEF TypeOK, Columns
  <2> QED BY <2>1, <2>2 DEF Value
<1>3. \A id \in B : Filled(rows[id]["name"]) \in [Columns -> Value]
  BY <1>2, FilledAgrees DEF TextRow
<1>4. IsFiniteSet(B) /\ Cardinality(B) \in Nat
  BY <1>1, MigrationAssumption, FS_Subset, FS_CardinalityType
<1>5. rows' \in [Ids -> [Columns -> Value]]
  BY <1>3 DEF Fill, TypeOK
<1> QED BY <1>1, <1>2, <1>4, <1>5 DEF Fill, TypeOK

LEMMA GotoType ==
  ASSUME TypeOK, NEW r \in Runners, NEW s \in Stages, Goto(r, s)
  PROVE  stage' \in [Runners -> Stages]
  BY DEF TypeOK, Goto

LEMMA GoneType ==
  ASSUME TypeOK, NEW r \in Runners, Gone(r)
  PROVE  stage' \in [Runners -> Stages] /\ total' \in [Runners -> Nat]
<1>1. "idle" \in Stages
  BY DEF Stages
<1>2. stage' \in [Runners -> Stages]
  BY <1>1, GotoType DEF Gone
<1>3. total' \in [Runners -> Nat]
  BY DEF TypeOK, Gone
<1> QED BY <1>2, <1>3

LEMMA NextTypeOK == TypeOK /\ RowsInv /\ [Next]_vars => TypeOK'
<1> SUFFICES ASSUME TypeOK, RowsInv, [Next]_vars PROVE TypeOK'
  OBVIOUS
<1> USE DEF tableVars, requestVars, runVars
<1>1. ASSUME NEW c \in Requests, Lookup(c) PROVE TypeOK'
  <2>1. version' \in [Requests -> Versions \cup {"none"}]
    BY <1>1 DEF TypeOK, Lookup
  <2>2. known' \in [Requests -> {{}, OldColumns, Columns, NewColumns}]
    BY <1>1 DEF TypeOK, Lookup
  <2>3. faults' \in Nat
    BY <1>1 DEF TypeOK, Lookup, Fault, NoFault
  <2> QED BY <1>1, <2>1, <2>2, <2>3 DEF TypeOK, Lookup
<1>2. ASSUME NEW c \in Requests, Insert(c) PROVE TypeOK'
  <2>1. version[c] \in Versions
    BY <1>2 DEF TypeOK, Insert
  <2>2. PICK id \in Ids \ users, body \in CreateBodies[version[c]] :
           Store(c, id, body) /\ users' = users \cup {id}
    BY <1>2 DEF Insert
  <2>3. TextRow(body)
    BY <2>1, <2>2, BodiesAgree
  <2>4. rows' \in [Ids -> [Columns -> Value]] /\ writes' \in Nat
    BY <2>2, <2>3, StoreType
  <2>5. Respond(c)
    BY <1>2 DEF Insert
  <2> QED BY <1>2, <2>2, <2>4, <2>5, RespondType DEF TypeOK, Insert
<1>3. ASSUME NEW c \in Requests, Update(c) PROVE TypeOK'
  <2>1. version[c] \in Versions
    BY <1>3 DEF TypeOK, Update
  <2>2. PICK id \in users, body \in UpdateBodies[version[c]] :
           /\ Store(c, id, body)
           /\ excused' = IF LeavesBehind(c, id) THEN excused \cup {id} ELSE excused \ {id}
    BY <1>3 DEF Update
  <2>3. TextRow(body)
    BY <2>1, <2>2, BodiesAgree
  <2>4. rows' \in [Ids -> [Columns -> Value]] /\ writes' \in Nat
    BY <2>2, <2>3, StoreType DEF TypeOK
  <2>5. Respond(c)
    BY <1>3 DEF Update
  <2> QED BY <1>3, <2>2, <2>4, <2>5, RespondType DEF TypeOK, Update
<1>4. ASSUME NEW c \in Requests, Answer(c) PROVE TypeOK'
  BY <1>4, RespondType DEF TypeOK, Answer
<1>5. ASSUME NEW r \in Runners, Begin(r) PROVE TypeOK'
  BY <1>5 DEF TypeOK, Begin, Stages
<1>6. ASSUME NEW r \in Runners, SelectBatch(r) PROVE TypeOK'
  <2>1. PICK s \in Stages : Goto(r, s)
    BY <1>6 DEF SelectBatch, Stages
  <2>2. faults' \in Nat
    BY <1>6 DEF TypeOK, SelectBatch, Fault, NoFault
  <2> QED BY <1>6, <2>1, <2>2, GotoType DEF TypeOK, SelectBatch
<1>7. ASSUME NEW r \in Runners, UpdateBatch(r) PROVE TypeOK'
  <2>1. PICK B \in SUBSET Unfilled :
           /\ IsBatch(B) /\ Fill(B)
           /\ IF B = {} THEN Goto(r, "end") /\ UNCHANGED total
              ELSE Goto(r, "save") /\ total' = [total EXCEPT ![r] = @ + Cardinality(B)]
    BY <1>7 DEF UpdateBatch
  <2>2. /\ rows' \in [Ids -> [Columns -> Value]] /\ filled' \in Nat /\ Cardinality(B) \in Nat
    BY <2>1, FillType
  <2>3. stage' \in [Runners -> Stages]
    BY <2>1, GotoType DEF Stages
  <2>4. total' \in [Runners -> Nat]
    BY <2>1, <2>2 DEF TypeOK
  <2> QED BY <1>7, <2>2, <2>3, <2>4 DEF TypeOK, UpdateBatch
<1>8. ASSUME NEW r \in Runners, UpdateBatchFails(r) PROVE TypeOK'
  <2>1. rows' \in [Ids -> [Columns -> Value]] /\ filled' \in Nat
    <3>1. CASE UNCHANGED <<rows, filled>>
      BY <3>1 DEF TypeOK
    <3>2. ASSUME NEW B, IsBatch(B), Fill(B)
          PROVE  rows' \in [Ids -> [Columns -> Value]] /\ filled' \in Nat
      BY <3>2, FillType
    <3> QED BY <1>8, <3>1, <3>2 DEF UpdateBatchFails
  <2>2. faults' \in Nat
    BY <1>8 DEF TypeOK, UpdateBatchFails, Fault, NoFault
  <2>3. Gone(r)
    BY <1>8 DEF UpdateBatchFails
  <2> QED BY <1>8, <2>1, <2>2, <2>3, GoneType DEF TypeOK, UpdateBatchFails
<1>9. ASSUME NEW r \in Runners, Save(r) PROVE TypeOK'
  <2>1. saved' \in Nat /\ faults' \in Nat
    BY <1>9 DEF TypeOK, Save, SaveProgress, Fault, NoFault
  <2>2. stage' \in [Runners -> Stages] /\ total' \in [Runners -> Nat]
    BY <1>9, GoneType, GotoType DEF TypeOK, Save, Stages
  <2> QED BY <1>9, <2>1, <2>2 DEF TypeOK, Save
<1>10. ASSUME NEW r \in Runners, Crash(r) PROVE TypeOK'
  BY <1>10, GoneType DEF TypeOK, Crash, Fault
<1>11. ASSUME NEW v \in Versions, Deploy(v) \/ Retire(v) PROVE TypeOK'
  BY <1>11 DEF TypeOK, Deploy, Retire
<1>12. CASE Expand
  BY <1>12 DEF TypeOK, Expand
<1>13. CASE Contract
  <2>1. \A id \in Ids : [rows[id] EXCEPT !["name"] = Null] \in [Columns -> Value]
    BY NullIsNoText DEF TypeOK
  <2>2. rows' \in [Ids -> [Columns -> Value]]
    BY <1>13, <2>1 DEF Contract
  <2> QED BY <1>13, <2>2 DEF TypeOK, Contract
<1>14. CASE UNCHANGED vars
  BY <1>14 DEF TypeOK, vars
<1> QED BY <1>1, <1>2, <1>3, <1>4, <1>5, <1>6, <1>7, <1>8, <1>9, <1>10, <1>11, <1>12, <1>13, <1>14
        DEF Next, Handle, RunStep

-----------------------------------------------------------------------------
(* Rows, and the agreement of the versions.                                *)

LEMMA InitRows == Init => RowsInv /\ VersionsAgree
<1> SUFFICES ASSUME Init PROVE RowsInv /\ VersionsAgree
  OBVIOUS
<1>1. PICK n \in [OldUsers -> OldNames] :
         rows = [id \in Ids |-> IF id \in OldUsers THEN Row(n[id], Null, Null) ELSE NoValues]
  BY DEF Init
<1>2. \A id \in OldUsers : n[id] \in Value /\ n[id] # Null
  BY MigrationAssumption, NullIsNoText
<1>3. \A id \in OldUsers : /\ Row(n[id], Null, Null)["name"] # Null
                           /\ Row(n[id], Null, Null)["first"] = Null
                           /\ Row(n[id], Null, Null)["last"] = Null
  BY <1>2, RowColumns, NullIsNoText
<1>4. schema = OldColumns /\ users = OldUsers /\ OldColumns # NewColumns /\ OldColumns # Columns
  BY DEF Init, OldColumns, NewColumns, Columns
<1>5. RowsInv
  BY <1>1, <1>3, <1>4 DEF RowsInv, UserRow
<1> QED BY <1>4, <1>5 DEF VersionsAgree

LEMMA TableKept ==
  ASSUME RowsInv, VersionsAgree, UNCHANGED tableVars
  PROVE  RowsInv' /\ VersionsAgree'
  BY DEF RowsInv, UserRow, VersionsAgree, tableVars

LEMMA InsertRows ==
  ASSUME TypeOK, RowsInv, VersionsAgree, NEW c \in Requests, Insert(c)
  PROVE  RowsInv' /\ VersionsAgree'
<1>1. version[c] # "none" /\ version[c] \in Versions
  BY DEF Insert, TypeOK
<1>2. PICK id \in Ids \ users, body \in CreateBodies[version[c]] :
         Store(c, id, body) /\ users' = users \cup {id}
  BY DEF Insert
<1>3. TextRow(body) /\ Agree(body)
  BY <1>1, <1>2, BodiesAgree
<1>4. /\ rows'[id] = Merge(rows[id], Named(c), body)
      /\ \A i \in Ids \ {id} : rows'[i] = rows[i]
  BY <1>2, <1>3, StoreType
<1>5. UNCHANGED <<schema, excused>>
  BY DEF Insert
<1>6. Named(c) \in {OldColumns, NewColumns, Columns}
  BY <1>1, NamedCases
<1>7. Named(c) \subseteq schema /\ "name" \notin schema \ Named(c)
  BY DEF Insert, InsertRefused, UpdateRefused
<1>8. rows[id] = NoValues /\ rows[id] \in [Columns -> Value]
  BY <1>2 DEF RowsInv, TypeOK
<1>9. schema \in {OldColumns, Columns, NewColumns}
  BY DEF TypeOK
<1>10. UserRow(Merge(rows[id], Named(c), body))
  BY <1>3, <1>6, <1>7, <1>8, <1>9, MergedRow
<1>11. RowsInv'
  <2> SUFFICES ASSUME NEW i \in Ids
               PROVE  IF i \in users' THEN UserRow(rows[i])' ELSE rows'[i] = NoValues
    BY DEF RowsInv, NoValues, Row
  <2>1. CASE i = id
    BY <1>2, <1>4, <1>5, <1>10, <2>1 DEF UserRow
  <2>2. CASE i # id
    BY <1>2, <1>4, <1>5, <2>2 DEF RowsInv, UserRow
  <2> QED BY <2>1, <2>2
<1>12. VersionsAgree'
  <2> SUFFICES ASSUME schema = Columns, NEW i \in users' \ excused'
               PROVE  Agree(rows'[i])
    BY <1>5 DEF VersionsAgree, Agree, ShownByV2
  <2>1. CASE i = id
    <3>1. Named(c) = Columns \/ Named(c) = OldColumns
      BY <1>6, <1>7 DEF Columns, NewColumns, OldColumns
    <3>2. CASE Named(c) = Columns
      <4>1. Merge(rows[id], Columns, body) = body
        BY <1>3, <1>8, MergeAll
      <4> QED BY <1>3, <1>4, <2>1, <3>2, <4>1
    <3>3. CASE Named(c) = OldColumns
      <4>1. Merge(rows[id], OldColumns, body)["first"] = rows[id]["first"]
        BY <1>3, <1>8, MergeType DEF Columns, OldColumns
      <4>2. rows'[id]["first"] = Null
        BY <1>4, <1>8, <3>3, <4>1, NoValuesType
      <4> QED BY <2>1, <4>2, UnfilledAgrees
    <3> QED BY <3>1, <3>2, <3>3
  <2>2. CASE i # id
    <3>1. i \in users \ excused /\ rows'[i] = rows[i]
      BY <1>2, <1>4, <1>5, <2>2 DEF TypeOK
    <3> QED BY <3>1 DEF VersionsAgree
  <2> QED BY <2>1, <2>2
<1> QED BY <1>11, <1>12

LEMMA UpdateRows ==
  ASSUME TypeOK, RowsInv, VersionsAgree, NEW c \in Requests, Update(c)
  PROVE  RowsInv' /\ VersionsAgree'
<1>1. version[c] # "none" /\ version[c] \in Versions
  BY DEF Update, TypeOK
<1>2. PICK id \in users, body \in UpdateBodies[version[c]] :
         /\ Store(c, id, body)
         /\ excused' = IF LeavesBehind(c, id) THEN excused \cup {id} ELSE excused \ {id}
  BY DEF Update
<1>3. TextRow(body) /\ Agree(body) /\ id \in Ids
  BY <1>1, <1>2, BodiesAgree DEF TypeOK
<1>4. /\ rows'[id] = Merge(rows[id], Named(c), body)
      /\ \A i \in Ids \ {id} : rows'[i] = rows[i]
  BY <1>2, <1>3, StoreType
<1>5. UNCHANGED <<schema, users>>
  BY DEF Update
<1>6. Named(c) \in {OldColumns, NewColumns, Columns}
  BY <1>1, NamedCases
<1>7. Named(c) \subseteq schema
  BY DEF Update, UpdateRefused
<1>8. UserRow(rows[id]) /\ rows[id] \in [Columns -> Value]
  BY <1>2, <1>3 DEF RowsInv, TypeOK
<1>9. schema \in {OldColumns, Columns, NewColumns}
  BY DEF TypeOK
<1>10. UserRow(Merge(rows[id], Named(c), body))
  BY <1>3, <1>6, <1>7, <1>8, <1>9, MergedRow
<1>11. RowsInv'
  <2> SUFFICES ASSUME NEW i \in Ids
               PROVE  IF i \in users' THEN UserRow(rows[i])' ELSE rows'[i] = NoValues
    BY DEF RowsInv, NoValues, Row
  <2>1. CASE i = id
    BY <1>2, <1>4, <1>5, <1>10, <2>1 DEF UserRow
  <2>2. CASE i # id
    BY <1>2, <1>4, <1>5, <2>2 DEF RowsInv, UserRow
  <2> QED BY <2>1, <2>2
<1>12. VersionsAgree'
  <2> SUFFICES ASSUME schema = Columns, NEW i \in users' \ excused'
               PROVE  Agree(rows'[i])
    BY <1>5 DEF VersionsAgree, Agree, ShownByV2
  <2>1. CASE i = id
    <3>1. known[c] # schema => \A col \in Columns \ Named(c) : rows[id][col] = Null
      BY <1>2, <2>1 DEF LeavesBehind
    <3>2. known[c] = schema => Named(c) = Columns
      BY <1>1, NamedCases DEF Versions, Columns, NewColumns
    <3>3. CASE Named(c) = Columns
      <4>1. Merge(rows[id], Columns, body) = body
        BY <1>3, <1>8, MergeAll
      <4> QED BY <1>3, <1>4, <2>1, <3>3, <4>1
    <3>4. CASE Named(c) = OldColumns
      <4>1. rows[id]["first"] = Null
        BY <3>1, <3>2, <3>4 DEF Columns, OldColumns
      <4>2. Merge(rows[id], OldColumns, body)["first"] = rows[id]["first"]
        BY <1>3, <1>8, MergeType DEF Columns, OldColumns
      <4>3. rows'[id]["first"] = Null
        BY <1>4, <3>4, <4>1, <4>2
      <4> QED BY <2>1, <4>3, UnfilledAgrees
    <3>5. CASE Named(c) = NewColumns
      <4>1. rows[id]["name"] = Null
        BY <3>1, <3>2, <3>5 DEF Columns, NewColumns
      <4>2. rows[id]["name"] # Null
        BY <1>8 DEF UserRow, Columns
      <4> QED BY <4>1, <4>2
    <3> QED BY <1>6, <3>3, <3>4, <3>5
  <2>2. CASE i # id
    <3>1. i \in users \ excused /\ rows'[i] = rows[i]
      BY <1>2, <1>4, <1>5, <2>2 DEF TypeOK
    <3> QED BY <3>1 DEF VersionsAgree
  <2> QED BY <2>1, <2>2
<1> QED BY <1>11, <1>12

LEMMA FillRows ==
  ASSUME TypeOK, RowsInv, VersionsAgree, NEW B, IsBatch(B), Fill(B),
         schema # OldColumns, UNCHANGED <<schema, users, excused>>
  PROVE  RowsInv' /\ VersionsAgree'
<1>1. /\ \A id \in B : /\ id \in users /\ rows[id]["name"] \in Text
                       /\ rows'[id] = Filled(rows[id]["name"])
      /\ \A id \in Ids \ B : rows'[id] = rows[id]
  BY FillType
<1>2. \A id \in B : TextRow(rows'[id]) /\ Agree(rows'[id])
  BY <1>1, FilledAgrees
<1>3. \A id \in B : rows'[id]["name"] # Null /\ rows'[id]["first"] # Null /\ rows'[id]["last"] # Null
  BY <1>2, NullIsNoText DEF TextRow, Columns
<1>4. RowsInv'
  <2> SUFFICES ASSUME NEW i \in Ids
               PROVE  IF i \in users THEN UserRow(rows[i])' ELSE rows'[i] = NoValues
    BY DEF RowsInv, NoValues, Row
  <2>1. CASE i \in B
    BY <1>1, <1>3, <2>1 DEF UserRow
  <2>2. CASE i \notin B
    BY <1>1, <2>2 DEF RowsInv, UserRow
  <2> QED BY <2>1, <2>2
<1>5. VersionsAgree'
  <2> SUFFICES ASSUME schema = Columns, NEW i \in users \ excused
               PROVE  Agree(rows'[i])
    BY DEF VersionsAgree, Agree, ShownByV2
  <2>1. CASE i \in B
    BY <1>2, <2>1
  <2>2. CASE i \notin B
    BY <1>1, <2>2 DEF VersionsAgree, TypeOK
  <2> QED BY <2>1, <2>2
<1> QED BY <1>4, <1>5

LEMMA ExpandRows ==
  ASSUME TypeOK, RowsInv, Expand
  PROVE  RowsInv' /\ VersionsAgree'
<1>1. schema = OldColumns /\ schema' = Columns /\ UNCHANGED <<users, rows, excused>>
  BY DEF Expand
<1>2. "name" \in OldColumns /\ Columns # OldColumns /\ Columns # NewColumns
  BY DEF OldColumns, NewColumns, Columns
<1>3. RowsInv'
  BY <1>1, <1>2 DEF RowsInv, UserRow
<1>4. VersionsAgree'
  <2> SUFFICES ASSUME NEW i \in users PROVE Agree(rows[i])
    BY <1>1 DEF VersionsAgree, Agree, ShownByV2
  <2>1. rows[i]["first"] = Null
    BY <1>1 DEF RowsInv, UserRow, TypeOK
  <2> QED BY <2>1, UnfilledAgrees
<1> QED BY <1>3, <1>4

LEMMA ContractRows ==
  ASSUME TypeOK, RowsInv, Contract
  PROVE  RowsInv' /\ VersionsAgree'
<1>1. schema' = NewColumns /\ UNCHANGED users
  BY DEF Contract
<1>2. "name" \notin NewColumns /\ Columns # NewColumns /\ OldColumns # NewColumns
  BY DEF OldColumns, NewColumns, Columns
<1>3. \A id \in Ids : /\ rows[id] \in [Columns -> Value]
                      /\ rows'[id] = [rows[id] EXCEPT !["name"] = Null]
                      /\ rows'[id]["first"] = rows[id]["first"]
                      /\ rows'[id]["last"] = rows[id]["last"]
  BY DEF Contract, TypeOK, Columns
<1>4. \A id \in users : rows[id]["first"] # Null /\ rows[id]["last"] # Null
  BY DEF Contract, Checklist, NewColumns
<1>5. \A id \in Ids \ users : rows'[id] = NoValues
  <2> SUFFICES ASSUME NEW id \in Ids \ users PROVE rows'[id] = NoValues
    OBVIOUS
  <2>1. rows[id] = NoValues
    BY DEF RowsInv
  <2> QED BY <1>3, <2>1, NoValuesType
<1>6. RowsInv'
  BY <1>1, <1>2, <1>3, <1>4, <1>5 DEF RowsInv, UserRow, NoValues, Row
<1>7. VersionsAgree'
  BY <1>1, <1>2 DEF VersionsAgree
<1> QED BY <1>6, <1>7

LEMMA NextRows ==
  ASSUME TypeOK, RowsInv, RunsInv, VersionsAgree, [Next]_vars
  PROVE  RowsInv' /\ VersionsAgree'
<1>1. ASSUME NEW c \in Requests, Handle(c) PROVE RowsInv' /\ VersionsAgree'
  <2>1. CASE Insert(c)
    BY <2>1, InsertRows
  <2>2. CASE Update(c)
    BY <2>2, UpdateRows
  <2>3. CASE Answer(c)
    BY <2>3, TableKept DEF Answer
  <2> QED BY <1>1, <2>1, <2>2, <2>3 DEF Handle
<1>2. ASSUME NEW r \in Runners, UpdateBatch(r) \/ UpdateBatchFails(r)
      PROVE  RowsInv' /\ VersionsAgree'
  <2>1. schema # OldColumns /\ UNCHANGED <<schema, users, excused>>
    BY <1>2 DEF RunsInv, UpdateBatch, UpdateBatchFails
  <2>2. ASSUME NEW B, IsBatch(B), Fill(B) PROVE RowsInv' /\ VersionsAgree'
    BY <2>1, <2>2, FillRows
  <2>3. CASE UNCHANGED rows
    BY <2>1, <2>3, TableKept DEF tableVars
  <2> QED BY <1>2, <2>2, <2>3 DEF UpdateBatch, UpdateBatchFails
<1>3. ASSUME NEW r \in Runners, Begin(r) \/ SelectBatch(r) \/ Save(r) \/ Crash(r)
      PROVE  RowsInv' /\ VersionsAgree'
  BY <1>3, TableKept DEF Begin, SelectBatch, Save, Crash
<1>4. ASSUME NEW c \in Requests, Lookup(c) PROVE RowsInv' /\ VersionsAgree'
  BY <1>4, TableKept DEF Lookup
<1>5. ASSUME NEW v \in Versions, Deploy(v) \/ Retire(v) PROVE RowsInv' /\ VersionsAgree'
  BY <1>5, TableKept DEF Deploy, Retire
<1>6. CASE Expand
  BY <1>6, ExpandRows
<1>7. CASE Contract
  BY <1>7, ContractRows
<1>8. CASE UNCHANGED vars
  BY <1>8, TableKept DEF vars, tableVars
<1> QED BY <1>1, <1>2, <1>3, <1>4, <1>5, <1>6, <1>7, <1>8 DEF Next, RunStep

-----------------------------------------------------------------------------
(* Versions and tables; counts.                                            *)

LEMMA NextVersions ==
  ASSUME TypeOK, VersionsInv, [Next]_vars
  PROVE  VersionsInv'
<1> USE DEF VersionsInv, WorksOn, WorksToo
<1>1. ASSUME NEW c \in Requests, Lookup(c) PROVE VersionsInv'
  BY <1>1 DEF Lookup, TypeOK, tableVars
<1>2. ASSUME NEW c \in Requests, Handle(c) PROVE VersionsInv'
  <2>1. UNCHANGED <<schema, served>> /\ version' = [version EXCEPT ![c] = "none"]
    BY <1>2 DEF Handle, Insert, Update, Answer, Respond, tableVars
  <2> QED BY <2>1 DEF TypeOK
<1>3. ASSUME NEW r \in Runners, Begin(r) \/ RunStep(r) \/ Crash(r) PROVE VersionsInv'
  <2>1. UNCHANGED <<schema, served, version>>
    BY <1>3 DEF Begin, RunStep, SelectBatch, UpdateBatch, UpdateBatchFails, Save, Crash,
                tableVars, requestVars
  <2> QED BY <2>1
<1>4. ASSUME NEW v \in Versions, Deploy(v) \/ Retire(v) PROVE VersionsInv'
  <2>1. Columns # OldColumns /\ Columns # NewColumns
    BY DEF Columns, OldColumns, NewColumns
  <2> QED BY <1>4, <2>1 DEF Deploy, Retire, tableVars, requestVars
<1>5. CASE Expand
  <2>1. Columns # OldColumns /\ Columns # NewColumns
    BY DEF Columns, OldColumns, NewColumns
  <2> QED BY <1>5, <2>1 DEF Expand, requestVars
<1>6. CASE Contract
  <2>1. OldColumns # NewColumns
    BY DEF OldColumns, NewColumns
  <2> QED BY <1>6, <2>1 DEF Contract, Checklist, requestVars
<1>7. CASE UNCHANGED vars
  BY <1>7 DEF vars, tableVars, requestVars
<1> QED BY <1>1, <1>2, <1>3, <1>4, <1>5, <1>6, <1>7 DEF Next

LEMMA NextRuns ==
  ASSUME TypeOK, RowsInv, RunsInv, ProgressNotOverstated, [Next]_vars
  PROVE  RunsInv' /\ ProgressNotOverstated'
<1> USE DEF RunsInv, ProgressNotOverstated
<1>1. OldColumns # Columns /\ OldColumns # NewColumns
  BY DEF Columns, OldColumns, NewColumns
<1>2. ASSUME NEW r \in Runners, Begin(r) PROVE RunsInv' /\ ProgressNotOverstated'
  <2>1. schema # OldColumns
    BY <1>2 DEF Begin, OldColumns, NewColumns
  <2> QED BY <1>2, <2>1 DEF Begin, TypeOK, tableVars
<1>3. ASSUME NEW r \in Runners, SelectBatch(r) PROVE RunsInv' /\ ProgressNotOverstated'
  BY <1>3 DEF SelectBatch, Goto, TypeOK, tableVars
<1>4. ASSUME NEW r \in Runners, Gone(r), stage[r] # "idle", UNCHANGED schema,
             filled' \in Nat, filled <= filled', saved' <= filled'
      PROVE  RunsInv' /\ ProgressNotOverstated'
  BY <1>4 DEF Gone, Goto, TypeOK
<1>5. ASSUME NEW r \in Runners, UpdateBatch(r) PROVE RunsInv' /\ ProgressNotOverstated'
  <2>1. PICK B \in SUBSET Unfilled :
           /\ IsBatch(B) /\ Fill(B)
           /\ IF B = {} THEN Goto(r, "end") /\ UNCHANGED total
              ELSE Goto(r, "save") /\ total' = [total EXCEPT ![r] = @ + Cardinality(B)]
    BY <1>5 DEF UpdateBatch
  <2>2. Cardinality(B) \in Nat /\ filled' = filled + Cardinality(B)
    BY <2>1, FillType
  <2>3. stage[r] # "idle" /\ UNCHANGED <<schema, saved>>
    BY <1>5 DEF UpdateBatch
  <2>4. ProgressNotOverstated'
    BY <2>2, <2>3 DEF TypeOK
  <2>5. \A q \in Runners : total'[q] <= filled'
    BY <2>1, <2>2 DEF TypeOK
  <2>6. \A q \in Runners : stage'[q] # "idle" => schema' # OldColumns
    BY <2>1, <2>3 DEF Goto, TypeOK
  <2> QED BY <2>4, <2>5, <2>6
<1>6. ASSUME NEW r \in Runners, UpdateBatchFails(r) PROVE RunsInv' /\ ProgressNotOverstated'
  <2>1. filled' \in Nat /\ filled <= filled'
    <3>1. CASE UNCHANGED <<rows, filled>>
      BY <3>1 DEF TypeOK
    <3>2. ASSUME NEW B, IsBatch(B), Fill(B) PROVE filled' \in Nat /\ filled <= filled'
      <4>1. Cardinality(B) \in Nat /\ filled' = filled + Cardinality(B)
        BY <3>2, FillType
      <4> QED BY <4>1 DEF TypeOK
    <3> QED BY <1>6, <3>1, <3>2 DEF UpdateBatchFails
  <2>2. Gone(r) /\ stage[r] # "idle" /\ UNCHANGED <<schema, saved>>
    BY <1>6 DEF UpdateBatchFails
  <2>3. saved' <= filled'
    BY <2>1, <2>2 DEF TypeOK
  <2> QED BY <1>4, <2>1, <2>2, <2>3
<1>7. ASSUME NEW r \in Runners, Save(r) PROVE RunsInv' /\ ProgressNotOverstated'
  <2>1. saved' <= filled' /\ filled' = filled /\ UNCHANGED schema
    BY <1>7 DEF Save, SaveProgress, TypeOK, tableVars
  <2>2. stage[r] # "idle" /\ (Gone(r) \/ (Goto(r, "select") /\ UNCHANGED total))
    BY <1>7 DEF Save
  <2>3. CASE Gone(r)
    BY <1>4, <2>1, <2>2, <2>3 DEF TypeOK
  <2>4. CASE Goto(r, "select") /\ UNCHANGED total
    BY <2>1, <2>2, <2>4 DEF Goto, TypeOK
  <2> QED BY <2>2, <2>3, <2>4
<1>8. ASSUME NEW r \in Runners, Crash(r) PROVE RunsInv' /\ ProgressNotOverstated'
  BY <1>4, <1>8 DEF Crash, TypeOK, tableVars
<1>9. CASE UNCHANGED runVars /\ (schema' = schema \/ schema' # OldColumns)
  BY <1>9 DEF runVars
<1>10. ASSUME NEW c \in Requests, Lookup(c) \/ Handle(c) PROVE RunsInv' /\ ProgressNotOverstated'
  BY <1>9, <1>10 DEF Lookup, Handle, Insert, Update, Answer, tableVars
<1>11. ASSUME NEW v \in Versions, Deploy(v) \/ Retire(v) PROVE RunsInv' /\ ProgressNotOverstated'
  BY <1>9, <1>11 DEF Deploy, Retire, tableVars
<1>12. CASE Expand \/ Contract
  BY <1>1, <1>9, <1>12 DEF Expand, Contract
<1>13. CASE UNCHANGED vars
  BY <1>9, <1>13 DEF vars, tableVars
<1> QED BY <1>2, <1>3, <1>5, <1>6, <1>7, <1>8, <1>10, <1>11, <1>12, <1>13 DEF Next, RunStep

-----------------------------------------------------------------------------
LEMMA InitIInv == Init => IInv
<1> SUFFICES ASSUME Init PROVE IInv
  OBVIOUS
<1>1. VersionsInv
  BY DEF Init, VersionsInv, WorksOn, WorksToo, OldColumns, NewColumns
<1>2. RunsInv /\ ProgressNotOverstated
  BY DEF Init, RunsInv, ProgressNotOverstated
<1> QED BY <1>1, <1>2, InitTypeOK, InitRows DEF IInv

LEMMA Inductive == IInv /\ [Next]_vars => IInv'
<1> SUFFICES ASSUME IInv, [Next]_vars PROVE IInv'
  OBVIOUS
<1>1. TypeOK'
  BY NextTypeOK DEF IInv
<1>2. RowsInv' /\ VersionsAgree'
  BY NextRows DEF IInv
<1>3. VersionsInv'
  BY NextVersions DEF IInv
<1>4. RunsInv' /\ ProgressNotOverstated'
  BY NextRuns DEF IInv
<1> QED BY <1>1, <1>2, <1>3, <1>4 DEF IInv

THEOREM Invariant == Spec => []IInv
<1>1. Init => IInv
  BY InitIInv
<1>2. IInv /\ [Next]_vars => IInv'
  BY Inductive
<1> QED BY <1>1, <1>2, PTL DEF Spec

(* The types of the migration's state, for any names, rows, requests, runs *)
(* and faults.                                                             *)
THEOREM TypeCorrect == Spec => []TypeOK
<1>1. IInv => TypeOK
  BY DEF IInv
<1> QED BY <1>1, Invariant, PTL

(* v1 and v2 show the same names of every row, but for one whose last      *)
(* update acted on a look-up that was out of date or had failed.           *)
THEOREM BothVersionsAgree == Spec => []VersionsAgree
<1>1. IInv => VersionsAgree
  BY DEF IInv
<1> QED BY <1>1, Invariant, PTL

(* Whatever the operator rolls out and back, no handler that has seen the  *)
(* table as it is fails because of it: the checklist is enough.            *)
THEOREM InformedRequestsSucceed == Spec => []InformedNeverFails
<1>1. IInv => InformedNeverFails
  <2> SUFFICES ASSUME IInv, NEW c \in Requests, version[c] # "none", known[c] = schema
               PROVE  /\ ~InsertRefused(c)
                      /\ \A id \in users : ~SelectFails(c, id)
    BY DEF InformedNeverFails
  <2>1. TypeOK /\ RowsInv /\ schema \in {OldColumns, Columns, NewColumns}
    BY DEF IInv, TypeOK
  <2>2. /\ version[c] \in Versions
        /\ version[c] = "v1" => Named(c) = IF NewColumns \subseteq schema THEN Columns ELSE OldColumns
        /\ version[c] = "v2" => Named(c) = IF "name" \in schema THEN Columns ELSE NewColumns
    BY <2>1, NamedCases
  <2>3. WorksOn(version[c]) /\ WorksToo(version[c])
    BY DEF IInv, VersionsInv
  <2>4. Named(c) = schema
    BY <2>1, <2>2, <2>3
       DEF WorksOn, WorksToo, Versions, OldColumns, NewColumns, Columns
  <2>5. ~InsertRefused(c)
    BY <2>4 DEF InsertRefused, UpdateRefused
  <2>6. ASSUME NEW id \in users PROVE ~SelectFails(c, id)
    <3>1. UserRow(rows[id])
      BY <2>1 DEF RowsInv, TypeOK
    <3>2. "name" \notin schema => rows[id]["first"] # Null /\ rows[id]["last"] # Null
      BY <2>1, <3>1 DEF UserRow, OldColumns, Columns
    <3> QED BY <2>4, <3>2 DEF SelectFails, UpdateRefused, NewColumns
  <2> QED BY <2>5, <2>6
<1> QED BY <1>1, Invariant, PTL

(* However runs of the backfill overlap and fail, the progress they save   *)
(* never claims more rows than were filled.                                *)
THEOREM ProgressIsTrue == Spec => []ProgressNotOverstated
<1>1. IInv => ProgressNotOverstated
  BY DEF IInv
<1> QED BY <1>1, Invariant, PTL

-----------------------------------------------------------------------------
(* A run gets through.                                                     *)

LEMMA StoredBody ==
  ASSUME TypeOK, NEW c \in Requests, Insert(c) \/ Update(c)
  PROVE  \E id \in Ids : \E body : TextRow(body) /\ Store(c, id, body)
<1>1. users \subseteq Ids
  BY DEF TypeOK
<1>2. version[c] \in Versions
  BY DEF TypeOK, Insert, Update
<1>3. PICK id \in Ids, body \in CreateBodies[version[c]] \cup UpdateBodies[version[c]] :
         Store(c, id, body)
  BY <1>1 DEF Insert, Update
<1> QED BY <1>2, <1>3, BodiesAgree

(* No statement, no batch and no ALTER takes the first_name of a row.      *)
LEMMA StaysFilled ==
  ASSUME TypeOK, RowsInv, [Next]_vars, NEW id \in users, rows[id]["first"] # Null
  PROVE  rows'[id]["first"] # Null
<1> DEFINE Kept == rows'[id]["first"] # Null
<1>1. id \in Ids /\ rows[id] \in [Columns -> Value] /\ "first" \in Columns
  BY DEF TypeOK, Columns
<1>2. ASSUME NEW c \in Requests, Insert(c) \/ Update(c) PROVE Kept
  <2>1. PICK i, body : i \in Ids /\ TextRow(body) /\ Store(c, i, body)
    BY <1>2, StoredBody
  <2>2. body["first"] # Null
    BY <1>1, <2>1, NullIsNoText DEF TextRow
  <2>3. Merge(rows[id], Named(c), body)["first"] # Null
    BY <1>1, <2>1, <2>2, MergeType
  <2> QED BY <1>1, <2>1, <2>3, StoreType
<1>3. ASSUME NEW B, IsBatch(B), Fill(B) PROVE Kept
  <2>1. id \notin B
    BY <1>3 DEF IsBatch, Unfilled
  <2> QED BY <1>1, <1>3, <2>1, FillType
<1>4. CASE Contract
  BY <1>1, <1>4 DEF Contract
<1>5. CASE UNCHANGED rows
  BY <1>5
<1>6. ASSUME NEW c \in Requests, Lookup(c) \/ Handle(c) PROVE Kept
  BY <1>2, <1>5, <1>6 DEF Lookup, Handle, Answer, tableVars
<1>7. ASSUME NEW r \in Runners, Begin(r) \/ RunStep(r) \/ Crash(r) PROVE Kept
  BY <1>3, <1>5, <1>7 DEF Begin, RunStep, SelectBatch, UpdateBatch, UpdateBatchFails, Save, Crash,
                          tableVars
<1>8. ASSUME NEW v \in Versions, Deploy(v) \/ Retire(v) PROVE Kept
  BY <1>5, <1>8 DEF Deploy, Retire, tableVars
<1>9. CASE Expand \/ UNCHANGED vars
  BY <1>5, <1>9 DEF Expand, vars, tableVars
<1> QED BY <1>4, <1>6, <1>7, <1>8, <1>9 DEF Next

LEMMA UnfilledFinite == TypeOK => IsFiniteSet(Unfilled) /\ Cardinality(Unfilled) \in Nat
<1> SUFFICES ASSUME TypeOK PROVE IsFiniteSet(Unfilled) /\ Cardinality(Unfilled) \in Nat
  OBVIOUS
<1>1. Unfilled \subseteq Ids
  BY DEF Unfilled, TypeOK
<1> QED BY <1>1, MigrationAssumption, FS_Subset, FS_CardinalityType

(* Rows to fill come only with rows.                                       *)
LEMMA UnfilledShrinks ==
  ASSUME TypeOK, RowsInv, [Next]_vars, users' = users
  PROVE  Unfilled' \subseteq Unfilled /\ Cardinality(Unfilled') <= Cardinality(Unfilled)
<1>1. Unfilled' \subseteq Unfilled
  BY StaysFilled DEF Unfilled
<1> QED BY <1>1, UnfilledFinite, FS_Subset

(* A batch that is not empty leaves fewer.                                 *)
LEMMA FillLeavesFewer ==
  ASSUME TypeOK, RowsInv, NEW B, IsBatch(B), Fill(B), B # {}, users' = users
  PROVE  Cardinality(Unfilled') < Cardinality(Unfilled)
<1>1. PICK b \in B : TRUE
  OBVIOUS
<1>2. \A id \in B : rows'[id]["first"] # Null
  <2> SUFFICES ASSUME NEW id \in B PROVE rows'[id]["first"] # Null
    OBVIOUS
  <2>1. rows[id]["name"] \in Text /\ rows'[id] = Filled(rows[id]["name"])
    BY FillType
  <2> QED BY <2>1, FilledAgrees, NullIsNoText DEF TextRow, Columns
<1>3. B \subseteq Unfilled /\ users \subseteq Ids
  BY DEF IsBatch, TypeOK
<1>4. Unfilled' \subseteq Unfilled
  <2>1. \A id \in Ids \ B : rows'[id] = rows[id]
    BY FillType
  <2> QED BY <1>2, <1>3, <2>1 DEF Unfilled
<1>5. b \in Unfilled /\ b \notin Unfilled'
  BY <1>1, <1>2, <1>3 DEF Unfilled
<1>6. /\ IsFiniteSet(Unfilled) /\ Cardinality(Unfilled) \in Nat
      /\ Cardinality(Unfilled') \in Nat
      /\ Cardinality(Unfilled') <= Cardinality(Unfilled)
      /\ Cardinality(Unfilled') # Cardinality(Unfilled)
  BY <1>4, <1>5, UnfilledFinite, FS_Subset, FS_CardinalityType
<1> QED BY <1>6

LEMMA RunStepsIs ==
  ASSUME TypeOK, NEW r \in Runners
  PROVE  /\ RunSteps(r) \in Nat
         /\ stage[r] = "idle" => RunSteps(r) = 0
         /\ stage[r] = "end" => RunSteps(r) = 1
         /\ stage[r] = "update" => RunSteps(r) = 3 * Cardinality(Unfilled) + 2
         /\ stage[r] = "select" => RunSteps(r) = 3 * Cardinality(Unfilled) + 3
         /\ stage[r] = "save" => RunSteps(r) = 3 * Cardinality(Unfilled) + 4
<1>1. Cardinality(Unfilled) \in Nat
  BY UnfilledFinite
<1>2. stage[r] \in Stages
  BY DEF TypeOK
<1> QED BY <1>1, <1>2 DEF RunSteps, Stages

(* The same after a step, whatever the step was.                           *)
LEMMA RunStepsNext ==
  ASSUME NEW r \in Runners, Cardinality(Unfilled') \in Nat
  PROVE  /\ stage'[r] = "idle" => RunSteps(r)' = 0
         /\ stage'[r] = "end" => RunSteps(r)' = 1
         /\ stage'[r] = "update" => RunSteps(r)' = 3 * Cardinality(Unfilled') + 2
         /\ stage'[r] = "select" => RunSteps(r)' = 3 * Cardinality(Unfilled') + 3
         /\ stage'[r] = "save" => RunSteps(r)' = 3 * Cardinality(Unfilled') + 4
  BY DEF RunSteps

(* A run that is not at work itself can only be left with less to do.      *)
LEMMA StageKept ==
  ASSUME TypeOK, RowsInv, [Next]_vars, users' = users,
         NEW r \in Runners, stage'[r] = stage[r]
  PROVE  \/ RunSteps(r)' < RunSteps(r)
         \/ RunSteps(r)' = RunSteps(r) /\ stage'[r] = stage[r]
<1>1. /\ Cardinality(Unfilled) \in Nat /\ Cardinality(Unfilled') \in Nat
      /\ Cardinality(Unfilled') <= Cardinality(Unfilled)
  <2>1. Unfilled' \subseteq Unfilled /\ Cardinality(Unfilled') <= Cardinality(Unfilled)
    BY UnfilledShrinks
  <2> QED BY <2>1, UnfilledFinite, FS_Subset, FS_CardinalityType
<1>2. stage[r] \in {"idle", "end", "update", "select", "save"}
  BY DEF TypeOK, Stages
<1> QED BY <1>1, <1>2, RunStepsIs, RunStepsNext

LEMMA RunStepShortens ==
  ASSUME TypeOK, RowsInv, [Next]_vars, users' = users, NEW r \in Runners,
         stage[r] # "idle", RunStep(r) \/ Crash(r)
  PROVE  RunSteps(r)' < RunSteps(r)
<1> DEFINE U == Cardinality(Unfilled)
           V == Cardinality(Unfilled')
<1>1. U \in Nat /\ V \in Nat /\ V <= U
  <2>1. Unfilled' \subseteq Unfilled /\ Cardinality(Unfilled') <= Cardinality(Unfilled)
    BY UnfilledShrinks
  <2> QED BY <2>1, UnfilledFinite, FS_Subset, FS_CardinalityType
<1>2. \A s \in Stages : Goto(r, s) => stage'[r] = s
  BY DEF Goto, TypeOK
<1> HIDE DEF U, V
<1>3. stage[r] \in {"end", "update", "select", "save"} /\ RunSteps(r) > 0
  <2>1. stage[r] \in {"end", "update", "select", "save"}
    BY DEF TypeOK, Stages
  <2> QED BY <1>1, <2>1, RunStepsIs DEF U
<1>4. CASE Gone(r)
  <2>1. stage'[r] = "idle"
    BY <1>2, <1>4 DEF Gone, Stages
  <2> QED BY <1>1, <1>3, <2>1, RunStepsNext DEF V
<1>5. CASE SelectBatch(r)
  <2>1. stage[r] = "select" /\ stage'[r] \in {"end", "update"}
    BY <1>2, <1>5 DEF SelectBatch, Stages
  <2> QED BY <1>1, <2>1, RunStepsIs, RunStepsNext DEF U, V
<1>6. CASE UpdateBatch(r)
  <2>1. PICK B \in SUBSET Unfilled :
           /\ IsBatch(B) /\ Fill(B)
           /\ IF B = {} THEN Goto(r, "end") ELSE Goto(r, "save")
    BY <1>6 DEF UpdateBatch
  <2>2. stage[r] = "update"
    BY <1>6 DEF UpdateBatch
  <2>3. CASE B = {}
    <3>1. stage'[r] = "end"
      BY <1>2, <2>1, <2>3 DEF Stages
    <3> QED BY <1>1, <2>2, <3>1, RunStepsIs, RunStepsNext DEF U, V
  <2>4. CASE B # {}
    <3>1. stage'[r] = "save"
      BY <1>2, <2>1, <2>4 DEF Stages
    <3>2. V < U
      BY <2>1, <2>4, FillLeavesFewer DEF U, V
    <3> QED BY <1>1, <2>2, <3>1, <3>2, RunStepsIs, RunStepsNext DEF U, V
  <2> QED BY <2>3, <2>4
<1>7. CASE UpdateBatchFails(r)
  BY <1>4, <1>7 DEF UpdateBatchFails
<1>8. CASE Save(r)
  <2>1. CASE stage[r] = "end"
    BY <1>4, <1>8, <2>1 DEF Save
  <2>2. CASE stage[r] # "end"
    <3>1. stage[r] = "save" /\ stage'[r] = "select"
      BY <1>2, <1>8, <2>2 DEF Save, Stages
    <3> QED BY <1>1, <3>1, RunStepsIs, RunStepsNext DEF U, V
  <2> QED BY <2>1, <2>2
<1>9. CASE Crash(r)
  BY <1>4, <1>9 DEF Crash
<1> QED BY <1>5, <1>6, <1>7, <1>8, <1>9 DEF RunStep

LEMMA StepShortens ==
  ASSUME TypeOK, RowsInv, [Next]_vars, users' = users, NEW r \in Runners, stage[r] # "idle"
  PROVE  \/ RunSteps(r)' < RunSteps(r)
         \/ RunSteps(r)' = RunSteps(r) /\ stage'[r] = stage[r]
<1>1. CASE RunStep(r) \/ Crash(r)
  BY <1>1, RunStepShortens
<1>2. ASSUME NEW q \in Runners, q # r, RunStep(q) \/ Crash(q) \/ Begin(q)
      PROVE  stage'[r] = stage[r]
  BY <1>2 DEF RunStep, SelectBatch, UpdateBatch, UpdateBatchFails, Save, Crash, Begin, Gone, Goto, TypeOK
<1>3. ~Begin(r)
  BY DEF Begin
<1>4. ASSUME NEW c \in Requests, Lookup(c) \/ Handle(c) PROVE stage'[r] = stage[r]
  BY <1>4 DEF Lookup, Handle, Insert, Update, Answer, runVars
<1>5. ASSUME NEW v \in Versions, Deploy(v) \/ Retire(v) PROVE stage'[r] = stage[r]
  BY <1>5 DEF Deploy, Retire, runVars
<1>6. ASSUME Expand \/ Contract PROVE stage'[r] = stage[r]
  BY <1>6 DEF Expand, Contract, runVars
<1>7. ASSUME UNCHANGED vars PROVE stage'[r] = stage[r]
  BY <1>7 DEF vars, runVars, tableVars, requestVars
<1>8. CASE ~(RunStep(r) \/ Crash(r))
  <2>1. stage'[r] = stage[r]
    <3>1. ASSUME NEW q \in Runners, Begin(q) \/ RunStep(q) \/ Crash(q) PROVE stage'[r] = stage[r]
      BY <1>2, <1>3, <1>8, <3>1
    <3> QED BY <1>4, <1>5, <1>6, <1>7, <3>1 DEF Next
  <2> QED BY <2>1, StageKept
<1> QED BY <1>1, <1>8

(* The number of rows to fill, and the place in the loop, bound what is    *)
(* left of a run of the backfill: while no row is inserted each of its     *)
(* steps, a failed one as well, brings it nearer to its end, and nothing   *)
(* that requests, other runs and the operator do takes it back.            *)
THEOREM RunsShorten == Spec => RunShortens /\ [](\A r \in Runners : RunSteps(r) \in Nat)
<1>1. IInv /\ [Next]_vars
        => (\A r \in Runners :
               stage[r] # "idle" /\ users' = users =>
                  \/ RunSteps(r)' < RunSteps(r)
                  \/ RunSteps(r)' = RunSteps(r) /\ stage'[r] = stage[r])
  BY StepShortens DEF IInv
<1>2. IInv => (\A r \in Runners : RunSteps(r) \in Nat)
  BY RunStepsIs DEF IInv
<1> QED BY <1>1, <1>2, Invariant, PTL DEF Spec, RunShortens

-----------------------------------------------------------------------------
(* What clients see of the migration.                                      *)

(* The two ways to split a name differ on untidy names only.               *)
LEMMA TidyNamesSplit ==
  ASSUME NEW n \in Text, Tidy(n)
  PROVE  SubstringIndex(n) = SplitName(n)
<1>1. TrimSpace(n) = n
  BY DEF Tidy
<1>2. CASE Spaces(n) = {}
  BY <1>1, <1>2 DEF SubstringIndex, SplitName
<1>3. CASE Spaces(n) # {}
  <2>1. Min(Spaces(n)) = Max(Spaces(n))
    BY <1>3, SpacesAre DEF Tidy
  <2> QED BY <1>1, <1>3, <2>1 DEF SubstringIndex, SplitName
<1> QED BY <1>2, <1>3

(* v2 shows a filled row as MySQL has cut its name.                        *)
LEMMA FilledShown ==
  ASSUME NEW n \in Text
  PROVE  \/ ShownByV2(Filled(n)) = SplitName(n)
         \/ ~Tidy(n) /\ ShownByV2(Filled(n)) = SubstringIndex(n)
<1>1. PICK f \in Text, l \in Text : SubstringIndex(n) = <<f, l>>
  BY SubstringPair
<1>2. /\ Filled(n)["name"] = n /\ Filled(n)["first"] = f /\ Filled(n)["last"] = l
  BY <1>1, RowColumns, NullIsNoText DEF Filled
<1>3. ShownByV2(Filled(n)) \in {SplitName(n), SubstringIndex(n)}
  BY <1>1, <1>2 DEF ShownByV2
<1> QED BY <1>3, TidyNamesSplit

(* Rows that stay in a table that keeps its columns, or gains some.        *)
LEMMA SameRowSeen ==
  ASSUME NEW id \in users, rows' = rows, "name" \in schema' <=> "name" \in schema
  PROVE  /\ "name" \in schema' => rows'[id]["name"] = rows[id]["name"]
         /\ SeenByV2(id)' = SeenByV2(id)
  BY DEF SeenByV2, ShownByV2

LEMMA FillSeen ==
  ASSUME TypeOK, RowsInv, NEW B, IsBatch(B), Fill(B), schema' = schema, NEW id \in users
  PROVE  /\ "name" \in schema' => rows'[id]["name"] = rows[id]["name"]
         /\ \/ SeenByV2(id)' = SeenByV2(id)
            \/ /\ id \in Unfilled /\ ~Tidy(rows[id]["name"])
               /\ SeenByV2(id)' = SubstringIndex(rows[id]["name"])
<1> DEFINE n == rows[id]["name"]
<1>1. "name" \in schema /\ "name" \in schema' /\ id \in Ids
  BY DEF Fill, TypeOK
<1>2. SeenByV2(id) = ShownByV2(rows[id]) /\ SeenByV2(id)' = ShownByV2(rows'[id])
  BY <1>1 DEF SeenByV2, ShownByV2
<1>3. CASE id \in B
  <2>1. n \in Text /\ rows'[id] = Filled(n)
    BY <1>3, FillType
  <2>2. id \in Unfilled /\ rows[id]["first"] = Null
    BY <1>3 DEF IsBatch, Unfilled
  <2>3. ShownByV2(rows[id]) = SplitName(n)
    BY <2>2 DEF ShownByV2
  <2>4. rows'[id]["name"] = n
    BY <2>1, FilledAgrees
  <2> QED BY <1>2, <2>1, <2>2, <2>3, <2>4, FilledShown
<1>4. CASE id \notin B
  BY <1>1, <1>2, <1>4, FillType
<1> QED BY <1>3, <1>4

LEMMA ContractSeen ==
  ASSUME TypeOK, Contract, NEW id \in users
  PROVE  /\ "name" \notin schema'
         /\ SeenByV2(id)' = SeenByV2(id) \/ rows[id]["first"] = <<>>
<1>1. "name" \notin schema' /\ "name" \in schema
  BY DEF Contract, NewColumns, Columns
<1>2. rows[id]["first"] # Null
  BY DEF Contract, Checklist, NewColumns
<1>3. id \in Ids /\ rows[id] \in [Columns -> Value]
  BY DEF TypeOK
<1>4. rows'[id]["first"] = rows[id]["first"] /\ rows'[id]["last"] = rows[id]["last"]
  BY <1>3 DEF Contract, Columns
<1>5. SeenByV2(id)' = <<rows[id]["first"], rows[id]["last"]>>
  BY <1>1, <1>4 DEF SeenByV2
<1>6. rows[id]["first"] # <<>> => SeenByV2(id) = <<rows[id]["first"], rows[id]["last"]>>
  BY <1>1, <1>2 DEF SeenByV2, ShownByV2
<1> QED BY <1>1, <1>5, <1>6

LEMMA StepSeen ==
  ASSUME TypeOK, RowsInv, [Next]_vars, writes' = writes, NEW id \in users
  PROVE  /\ "name" \in schema' => rows'[id]["name"] = rows[id]["name"]
         /\ \/ SeenByV2(id)' = SeenByV2(id)
            \/ /\ id \in Unfilled /\ ~Tidy(rows[id]["name"])
               /\ SeenByV2(id)' = SubstringIndex(rows[id]["name"])
            \/ rows[id]["first"] = <<>> /\ "name" \notin schema'
<1>1. ASSUME NEW c \in Requests, Insert(c) \/ Update(c) PROVE FALSE
  BY <1>1 DEF Insert, Update, Store, TypeOK
<1>2. CASE rows' = rows /\ schema' = schema
  BY <1>2, SameRowSeen
<1>3. ASSUME NEW c \in Requests, Lookup(c) \/ Answer(c) PROVE rows' = rows /\ schema' = schema
  BY <1>3 DEF Lookup, Answer, tableVars
<1>4. ASSUME NEW r \in Runners, Begin(r) \/ SelectBatch(r) \/ Save(r) \/ Crash(r)
      PROVE  rows' = rows /\ schema' = schema
  BY <1>4 DEF Begin, SelectBatch, Save, Crash, tableVars
<1>5. ASSUME NEW r \in Runners, UpdateBatch(r) \/ UpdateBatchFails(r)
      PROVE  schema' = schema /\ (rows' = rows \/ \E B \in SUBSET Unfilled : IsBatch(B) /\ Fill(B))
  BY <1>5 DEF UpdateBatch, UpdateBatchFails
<1>6. ASSUME NEW v \in Versions, Deploy(v) \/ Retire(v) PROVE rows' = rows /\ schema' = schema
  BY <1>6 DEF Deploy, Retire, tableVars
<1>7. ASSUME UNCHANGED vars PROVE rows' = rows /\ schema' = schema
  BY <1>7 DEF vars, tableVars
<1>8. ASSUME NEW B, IsBatch(B), Fill(B), schema' = schema
      PROVE  /\ "name" \in schema' => rows'[id]["name"] = rows[id]["name"]
             /\ \/ SeenByV2(id)' = SeenByV2(id)
                \/ /\ id \in Unfilled /\ ~Tidy(rows[id]["name"])
                   /\ SeenByV2(id)' = SubstringIndex(rows[id]["name"])
  BY <1>8, FillSeen
<1>9. CASE Expand
  <2>1. rows' = rows /\ "name" \in schema /\ "name" \in schema'
    BY <1>9 DEF Expand, OldColumns, Columns
  <2> QED BY <2>1, SameRowSeen
<1>10. CASE Contract
  BY <1>10, ContractSeen
<1> QED BY <1>1, <1>2, <1>3, <1>4, <1>5, <1>6, <1>7, <1>8, <1>9, <1>10 DEF Next, Handle, RunStep

(* Whatever runs at the same time, the ALTERs, the rollouts and the        *)
(* backfill change no name that a client sees, except that the backfill    *)
(* cuts a name of three words, or one with white space to spare, as        *)
(* SUBSTRING_INDEX does, and that an empty first_name shows once name is   *)
(* gone.                                                                   *)
THEOREM NamesAreKept == Spec => MigrationUnseen
<1>1. IInv /\ [Next]_vars
        => (writes' = writes =>
              \A id \in users :
                 /\ "name" \in schema' => rows'[id]["name"] = rows[id]["name"]
                 /\ \/ SeenByV2(id)' = SeenByV2(id)
                    \/ /\ id \in Unfilled /\ ~Tidy(rows[id]["name"])
                       /\ SeenByV2(id)' = SubstringIndex(rows[id]["name"])
                    \/ rows[id]["first"] = <<>> /\ "name" \notin schema')
  BY StepSeen DEF IInv
<1> QED BY <1>1, Invariant, PTL DEF Spec, MigrationUnseen
=============================================================================
