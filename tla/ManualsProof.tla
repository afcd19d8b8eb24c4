----------------------------- MODULE ManualsProof -----------------------------
(***************************************************************************)
(* Proofs about Manuals for any number of manuals, items, uploads, request *)
(* ids and bodies, and any limits.                                         *)
(***************************************************************************)
EXTENDS Manuals, SumLemmas, TLAPS

LEMMA Bounds ==
  /\ MaxManualsPerUser \in Nat /\ MaxManualsPerUser > 0
  /\ MaxItemsPerManual \in Nat /\ MaxItemsPerManual > 0
  /\ MaxManualBytes \in Nat /\ MaxUserBytes \in Nat /\ MaxFileBytes \in Nat /\ MaxFileBytes > 0
  /\ PDFPreviewOutputLimitBytes \in Nat /\ MinFreeDiskBytes \in Nat /\ DiskBytes \in Nat
  /\ DiskBytes >= MinFreeDiskBytes /\ MaxRevision \in Nat /\ MaxRevision > 0 /\ MaxCrashes \in Nat
  /\ None \notin Items /\ None \notin Keys /\ None \notin Bodies /\ None \notin Manuals
  /\ IsFiniteSet(Manuals) /\ IsFiniteSet(Items) /\ IsFiniteSet(Requests)
  BY ManualsAssumption

LEMMA BodyTypes ==
  ASSUME NEW b \in Bodies
  PROVE  b.kind \in {"text", "image", "pdf"} /\ b.size \in Nat /\ b.size > 0 /\ b.size <= MaxFileBytes
  BY ManualsAssumption, Bounds

LEMMA ItemSets ==
  ASSUME NEW S \in SUBSET Items
  PROVE  IsFiniteSet(S) /\ Cardinality(S) \in Nat
  BY Bounds, FS_Subset, FS_CardinalityType

-----------------------------------------------------------------------------
(* Rows *)

ManualRows == [status : {"none", "draft", "active", "deleted"}, rev : 0..MaxRevision,
               cover : Items \cup {None}, key : Keys \cup {None}, body : Bodies \cup {None}]

Previews == {"none", "ready", "unavailable"}

\* An item without a manual is none.
IsItem(x) ==
  /\ x = [f \in DOMAIN x |-> x[f]]
  /\ DOMAIN x = {"manual", "key", "body", "pos", "deleted", "preview"}
  /\ x.manual \in Manuals \cup {None} /\ x.key \in Keys \cup {None} /\ x.body \in Bodies \cup {None}
  /\ x.pos \in Nat /\ x.deleted \in BOOLEAN /\ x.preview \in Previews
  /\ x.manual = None => x = NoItem
  /\ x.manual # None => x.key \in Keys /\ x.body \in Bodies

RowTypes ==
  /\ manual \in [Manuals -> ManualRows]
  /\ item = [i \in Items |-> item[i]]
  /\ \A i \in Items : IsItem(item[i])

\* The active items of a manual are at its positions 1..n, one at each.
OrderInv(m) ==
  /\ {item[i].pos : i \in Active(m)} = 1..Cardinality(Active(m))
  /\ \A i, j \in Active(m) : item[i].pos = item[j].pos => i = j

\* The cover is an active item, and an active manual has one.
CoverInv(m) ==
  /\ manual[m].cover \in Active(m) \cup {None}
  /\ manual[m].status = "active" => Active(m) # {}

RowInv ==
  /\ RowTypes /\ OneRowPerRequest
  /\ \A m \in Manuals : OrderInv(m) /\ CoverInv(m)

\* A row keeps its manual, its request id, its body and its preview.
SameRow(x, y) == y.manual = x.manual /\ y.key = x.key /\ y.body = x.body /\ y.preview = x.preview

LEMMA NoItemType ==
  /\ IsItem(NoItem) /\ NoItem.manual = None /\ NoItem.deleted = FALSE /\ NoItem.preview = "none"
  BY DEF IsItem, NoItem, Previews

LEMMA RowSets ==
  ASSUME NEW m
  PROVE  Active(m) \in SUBSET Rows(m) /\ Rows(m) \in SUBSET Items /\ Active(m) \in SUBSET Items
  BY DEF Active, Rows

LEMMA MovedItem ==
  ASSUME NEW x, IsItem(x), x.manual # None, NEW p \in Nat
  PROVE  LET y == [x EXCEPT !.pos = p]
         IN  IsItem(y) /\ SameRow(x, y) /\ y.pos = p /\ y.deleted = x.deleted
<1> DEFINE y == [x EXCEPT !.pos = p]
<1>1. DOMAIN x = {"manual", "key", "body", "pos", "deleted", "preview"} /\ x.deleted \in BOOLEAN
  BY DEF IsItem
<1>2. /\ y = [f \in DOMAIN y |-> y[f]] /\ DOMAIN y = DOMAIN x /\ y.manual = x.manual /\ y.key = x.key
      /\ y.body = x.body /\ y.preview = x.preview /\ y.pos = p
  BY <1>1
<1>3. y.deleted = x.deleted
  BY <1>1
<1> HIDE DEF y
<1>4. y.deleted \in BOOLEAN
  BY <1>1, <1>3
<1>5. IsItem(y)
  BY <1>1, <1>2, <1>4 DEF IsItem
<1> QED
  BY <1>2, <1>3, <1>5 DEF SameRow, y

LEMMA DeletedItem ==
  ASSUME NEW x, IsItem(x), x.manual # None
  PROVE  LET y == [x EXCEPT !.deleted = TRUE]
         IN  IsItem(y) /\ SameRow(x, y) /\ y.deleted = TRUE
<1> DEFINE y == [x EXCEPT !.deleted = TRUE]
<1>1. DOMAIN x = {"manual", "key", "body", "pos", "deleted", "preview"}
  BY DEF IsItem
<1>2. /\ y = [f \in DOMAIN y |-> y[f]] /\ DOMAIN y = DOMAIN x /\ y.manual = x.manual /\ y.key = x.key
      /\ y.body = x.body /\ y.preview = x.preview /\ y.pos = x.pos
  BY <1>1
<1>3. y.deleted = TRUE
  BY <1>1
<1> HIDE DEF y
<1>4. y.deleted \in BOOLEAN
  BY <1>3
<1>5. IsItem(y)
  BY <1>1, <1>2, <1>4 DEF IsItem
<1> QED
  BY <1>2, <1>3, <1>5 DEF SameRow, y

\* Steps that leave every row where it is.
LEMMA RowsSame ==
  ASSUME \A x \in Items : SameRow(item[x], item'[x])
  PROVE  \A n : Rows(n)' = Rows(n)
  BY DEF SameRow, Rows

\* An item put in at the end of its manual.
Appended(m, i, x) ==
  /\ i \in Items /\ item[i] = NoItem /\ IsItem(x) /\ x.manual = m /\ x.deleted = FALSE
  /\ x.pos = Cardinality(Active(m)) + 1 /\ Find(m, x.key) = {}
  /\ item' = [item EXCEPT ![i] = x]

LEMMA AppendRows ==
  ASSUME RowTypes, NEW m \in Manuals, NEW i, NEW x, Appended(m, i, x)
  PROVE  /\ i \in Items /\ i \notin Rows(m) /\ i \notin Active(m)
         /\ item'[i] = x /\ \A j \in Items \ {i} : item'[j] = item[j]
         /\ item' = [j \in Items |-> item'[j]] /\ \A j \in Items : IsItem(item'[j])
         /\ Rows(m)' = Rows(m) \cup {i} /\ Active(m)' = Active(m) \cup {i}
         /\ \A n \in Manuals \ {m} : Rows(n)' = Rows(n) /\ Active(n)' = Active(n)
<1>1. /\ i \in Items /\ item[i].manual = None /\ item' = [item EXCEPT ![i] = x] /\ IsItem(x)
      /\ x.manual = m /\ ~x.deleted /\ m # None
  BY NoItemType, Bounds DEF Appended
<1>2. /\ item'[i] = x /\ \A j \in Items \ {i} : item'[j] = item[j]
      /\ item' = [j \in Items |-> item'[j]]
  BY <1>1 DEF RowTypes
<1>3. \A j \in Items : IsItem(item'[j])
  BY <1>1, <1>2 DEF RowTypes
<1>4. i \notin Rows(m) /\ i \notin Active(m)
  BY <1>1 DEF Rows, Active
<1>5. Rows(m)' = Rows(m) \cup {i}
  BY <1>1, <1>2 DEF Rows
<1>6. Active(m)' = Active(m) \cup {i}
  <2>1. \A j \in Items : j \in Active(m)' <=> j \in Active(m) \cup {i}
    BY <1>1, <1>2 DEF Rows, Active
  <2> QED
    BY <1>1, <2>1 DEF Rows, Active
<1>7. ASSUME NEW n \in Manuals \ {m} PROVE Rows(n)' = Rows(n) /\ Active(n)' = Active(n)
  <2>1. n # None
    BY Bounds
  <2>2. \A j \in Items : (j \in Rows(n)' <=> j \in Rows(n)) /\ (j \in Active(n)' <=> j \in Active(n))
    BY <1>1, <1>2, <2>1 DEF Rows, Active
  <2> QED
    BY <2>2 DEF Rows, Active
<1> QED
  BY <1>1, <1>2, <1>3, <1>4, <1>5, <1>6, <1>7

LEMMA UpdateRows ==
  ASSUME RowTypes, NEW m \in Manuals, NEW order \in Orders(m), item' = PatchItems(m, order)
  PROVE  /\ item' = [j \in Items |-> item'[j]] /\ \A j \in Items : IsItem(item'[j])
         /\ \A j \in Items : SameRow(item[j], item'[j])
         /\ \A j \in Active(m) : item'[j].pos = order[j]
         /\ \A j \in Items \ Active(m) : item'[j] = item[j]
         /\ \A n \in Manuals : Rows(n)' = Rows(n) /\ Active(n)' = Active(n)
<1>0. order \in [Active(m) -> 1..Cardinality(Active(m))] /\ Cardinality(Active(m)) \in Nat
  BY RowSets, ItemSets DEF Orders
<1>1. item' = [i \in Items |-> IF i \in Active(m) THEN [item[i] EXCEPT !.pos = order[i]] ELSE item[i]]
  BY DEF PatchItems
<1>2. ASSUME NEW j \in Active(m)
      PROVE  /\ IsItem(item'[j]) /\ SameRow(item[j], item'[j]) /\ item'[j].pos = order[j]
             /\ item'[j].deleted = item[j].deleted
  <2>1. j \in Items /\ IsItem(item[j]) /\ item[j].manual = m /\ m # None
    BY Bounds DEF RowTypes, Active, Rows
  <2>2. item'[j] = [item[j] EXCEPT !.pos = order[j]] /\ order[j] \in Nat
    BY <1>0, <1>1, <2>1
  <2> QED
    BY <2>1, <2>2, MovedItem
<1>3. ASSUME NEW j \in Items \ Active(m) PROVE item'[j] = item[j]
  BY <1>1
<1>4. \A j \in Items : IsItem(item'[j]) /\ SameRow(item[j], item'[j])
  BY <1>2, <1>3 DEF RowTypes, SameRow
<1>5. \A j \in Items : item'[j].deleted = item[j].deleted
  BY <1>2, <1>3
<1>6. ASSUME NEW n \in Manuals PROVE Rows(n)' = Rows(n) /\ Active(n)' = Active(n)
  <2>1. Rows(n)' = Rows(n)
    BY <1>4, RowsSame
  <2>2. Active(n)' = {j \in Rows(n) : ~item'[j].deleted}
    BY <2>1 DEF Active
  <2> QED
    BY <1>5, <2>1, <2>2, RowSets DEF Active
<1>7. item' = [j \in Items |-> item'[j]]
  BY <1>1
<1> QED
  BY <1>2, <1>3, <1>4, <1>6, <1>7

LEMMA DeleteRows ==
  ASSUME RowTypes, NEW m \in Manuals, NEW i \in Active(m), item' = CompactManualItemPositions(m, i),
         \A j \in Active(m) : item[j].pos > 0
  PROVE  /\ item' = [j \in Items |-> item'[j]] /\ \A j \in Items : IsItem(item'[j])
         /\ \A j \in Items : SameRow(item[j], item'[j])
         /\ \A j \in Active(m) \ {i} :
              item'[j].pos = IF item[j].pos > item[i].pos THEN item[j].pos - 1 ELSE item[j].pos
         /\ \A j \in Items \ Active(m) : item'[j] = item[j]
         /\ \A n \in Manuals : Rows(n)' = Rows(n)
         /\ \A n \in Manuals \ {m} : Active(n)' = Active(n)
         /\ Active(m)' = Active(m) \ {i}
<1>1. item' = [x \in Items |->
                 IF x = i THEN [item[x] EXCEPT !.deleted = TRUE]
                 ELSE IF x \in Active(m) /\ item[x].pos > item[i].pos
                 THEN [item[x] EXCEPT !.pos = @ - 1] ELSE item[x]]
  BY DEF CompactManualItemPositions
<1>2. /\ i \in Items /\ \A j \in Active(m) : j \in Items /\ IsItem(item[j]) /\ item[j].manual = m
      /\ item[i].manual = m /\ IsItem(item[i]) /\ m # None
  BY Bounds DEF RowTypes, Active, Rows
<1>3. IsItem(item'[i]) /\ SameRow(item[i], item'[i]) /\ item'[i].deleted = TRUE
  <2>1. item'[i] = [item[i] EXCEPT !.deleted = TRUE]
    BY <1>1, <1>2
  <2> QED
    BY <1>2, <2>1, DeletedItem
<1>4. ASSUME NEW j \in Active(m) \ {i}
      PROVE  /\ IsItem(item'[j]) /\ SameRow(item[j], item'[j]) /\ item'[j].deleted = item[j].deleted
             /\ item'[j].pos = IF item[j].pos > item[i].pos THEN item[j].pos - 1 ELSE item[j].pos
  <2>1. CASE item[j].pos > item[i].pos
    <3>1. item'[j] = [item[j] EXCEPT !.pos = @ - 1]
      BY <1>1, <1>2, <2>1
    <3>2. item[j].pos - 1 \in Nat
      <4>1. item[j].pos \in Nat /\ item[j].pos > 0
        BY <1>2 DEF IsItem
      <4> QED
        BY <4>1
    <3>3. item'[j] = [item[j] EXCEPT !.pos = item[j].pos - 1]
      BY <3>1
    <3> QED
      BY <1>2, <2>1, <3>2, <3>3, MovedItem
  <2>2. CASE ~(item[j].pos > item[i].pos)
    <3>1. item'[j] = item[j]
      BY <1>1, <1>2, <2>2
    <3> QED
      BY <1>2, <2>2, <3>1 DEF SameRow
  <2> QED
    BY <2>1, <2>2
<1>5. ASSUME NEW j \in Items \ Active(m) PROVE item'[j] = item[j]
  BY <1>1
<1>6. \A j \in Items : IsItem(item'[j]) /\ SameRow(item[j], item'[j])
  BY <1>3, <1>4, <1>5 DEF RowTypes, SameRow
<1>7. \A j \in Items \ {i} : item'[j].deleted = item[j].deleted
  BY <1>4, <1>5
<1>8. \A n \in Manuals : Rows(n)' = Rows(n)
  BY <1>6, RowsSame
<1>9. \A n \in Manuals : Active(n)' = {j \in Rows(n) : ~item'[j].deleted}
  BY <1>8 DEF Active
<1>10. ASSUME NEW n \in Manuals \ {m} PROVE Active(n)' = Active(n)
  <2>1. i \notin Rows(n)
    BY <1>2 DEF Rows
  <2> QED
    BY <1>7, <1>9, <2>1, RowSets DEF Active
<1>11. Active(m)' = Active(m) \ {i}
  BY <1>3, <1>7, <1>9, RowSets DEF Active
<1>12. item' = [j \in Items |-> item'[j]]
  BY <1>1
<1> QED
  BY <1>4, <1>5, <1>6, <1>8, <1>10, <1>11, <1>12

\* The steps, by what they do to the rows.
RowChange ==
  \E m \in Manuals :
    \/ \E key \in Keys, body \in Bodies : Create(m, key, body)
    \/ \E i \in Items, key \in Keys, body \in Bodies, preview \in Previews :
         item[i] = NoItem /\ Insert(m, i, key, body, preview)
    \/ \E status \in {"keep", "draft", "active"}, cover \in Items \cup {None, "keep"},
          order \in Orders(m) : Update(m, status, cover, order)
    \/ Delete(m)
    \/ \E i \in Items : DeleteItem(m, i)

\* The manual m is replaced by the record x, the others stay.
Became(m, x) == manual' = [manual EXCEPT ![m] = x]

LEMMA BecameType ==
  ASSUME RowTypes, NEW m \in Manuals, NEW x \in ManualRows, Became(m, x)
  PROVE  /\ manual' \in [Manuals -> ManualRows] /\ manual'[m] = x
         /\ \A n \in Manuals \ {m} : manual'[n] = manual[n]
  BY DEF RowTypes, Became

\* A step that changes the manual m, and the rows of no other.
Touches(m) ==
  /\ manual[m].status # "deleted" /\ manual'[m].rev = manual[m].rev + 1
  /\ \A q \in Manuals \ {m} : /\ manual'[q] = manual[q] /\ Rows(q)' = Rows(q)
                              /\ \A j \in Rows(q) : item'[j] = item[j]

LEMMA CreateStep ==
  ASSUME RowInv, NEW m \in Manuals, NEW key \in Keys, NEW body \in Bodies, Create(m, key, body)
  PROVE  RowInv' /\ Touches(m)
<1> DEFINE x == [status |-> "draft", rev |-> 1, cover |-> None, key |-> key, body |-> body]
<1>1. x \in ManualRows /\ x.cover = None /\ x.status = "draft" /\ x.rev = 1
  BY Bounds DEF ManualRows
<1>2. Became(m, x) /\ UNCHANGED item
  BY DEF Create, Became
<1> HIDE DEF x
<1>3. RowTypes
  BY DEF RowInv
<1>4. /\ manual' \in [Manuals -> ManualRows] /\ manual'[m] = x
      /\ \A n \in Manuals \ {m} : manual'[n] = manual[n]
  BY <1>1, <1>2, <1>3, BecameType
<1>5. \A n : Rows(n)' = Rows(n) /\ Active(n)' = Active(n)
  BY <1>2 DEF Rows, Active
<1>6. ASSUME NEW n \in Manuals PROVE OrderInv(n)' /\ CoverInv(n)'
  <2>1. OrderInv(n)'
    BY <1>2, <1>5 DEF OrderInv, RowInv
  <2>2. CoverInv(n)'
    BY <1>1, <1>4, <1>5 DEF CoverInv, RowInv
  <2> QED
    BY <2>1, <2>2
<1>7. OneRowPerRequest'
  BY <1>2, <1>5 DEF OneRowPerRequest, RowInv
<1>8. RowTypes'
  BY <1>2, <1>3, <1>4 DEF RowTypes
<1>9. Touches(m)
  BY <1>1, <1>2, <1>4, <1>5 DEF Create, NoManual, Touches
<1> QED
  BY <1>6, <1>7, <1>8, <1>9 DEF RowInv

LEMMA RaisedManual ==
  ASSUME NEW x \in ManualRows, x.rev < MaxRevision
  PROVE  LET y == [x EXCEPT !.rev = @ + 1]
         IN  y \in ManualRows /\ y.rev = x.rev + 1 /\ y.status = x.status /\ y.cover = x.cover
             /\ y.key = x.key /\ y.body = x.body
  BY Bounds DEF ManualRows

Changed(x, st, co) == [x EXCEPT !.rev = @ + 1, !.status = st, !.cover = co]

LEMMA ChangedManual ==
  ASSUME NEW x \in ManualRows, x.rev < MaxRevision, NEW st \in {"none", "draft", "active", "deleted"},
         NEW co \in Items \cup {None}
  PROVE  LET y == Changed(x, st, co)
         IN  y \in ManualRows /\ y.rev = x.rev + 1 /\ y.status = st /\ y.cover = co
             /\ y.key = x.key /\ y.body = x.body
<1> DEFINE a == [x EXCEPT !.rev = @ + 1]
           b == [a EXCEPT !.status = st]
           c == [b EXCEPT !.cover = co]
<1>1. a \in ManualRows /\ a.rev = x.rev + 1 /\ a.key = x.key /\ a.body = x.body
  BY RaisedManual
<1>0. Changed(x, st, co) = c
  BY DEF ManualRows, Changed
<1> HIDE DEF a
<1>2. b \in ManualRows /\ b.rev = a.rev /\ b.status = st /\ b.key = a.key /\ b.body = a.body
  BY <1>1 DEF ManualRows
<1> HIDE DEF b
<1>3. c \in ManualRows /\ c.rev = b.rev /\ c.status = b.status /\ c.cover = co /\ c.key = b.key
      /\ c.body = b.body
  BY <1>2 DEF ManualRows
<1> HIDE DEF c
<1>4. c \in ManualRows /\ c.rev = x.rev + 1 /\ c.status = st /\ c.cover = co /\ c.key = x.key
      /\ c.body = x.body
  BY <1>1, <1>2, <1>3
<1> QED
  BY <1>0, <1>4

LEMMA InsertStep ==
  ASSUME RowInv, NEW m \in Manuals, NEW i \in Items, NEW key \in Keys, NEW body \in Bodies,
         NEW preview \in Previews, item[i] = NoItem, Insert(m, i, key, body, preview)
  PROVE  /\ RowInv' /\ Touches(m)
         /\ \E x : Appended(m, i, x) /\ x.key = key /\ x.body = body /\ x.preview = preview
<1> DEFINE n == Cardinality(Active(m))
           x == [manual |-> m, key |-> key, body |-> body, pos |-> n + 1, deleted |-> FALSE,
                 preview |-> preview]
           y == [manual[m] EXCEPT !.rev = @ + 1]
<1>0. RowTypes /\ n \in Nat /\ m # None
  BY RowSets, ItemSets, Bounds DEF RowInv
<1>1. IsItem(x)
  <2> HIDE DEF n
  <2> QED
    BY <1>0 DEF IsItem, Previews
<1>2. Appended(m, i, x)
  BY <1>1 DEF Insert, Appended
<1>3. Became(m, y) /\ manual[m].rev < MaxRevision
  BY DEF Insert, Became
<1>4. y \in ManualRows /\ y.rev = manual[m].rev + 1 /\ y.cover = manual[m].cover /\ y.status = manual[m].status
  BY <1>0, <1>3, RaisedManual DEF RowTypes
<1>5. x.key = key /\ x.pos = n + 1 /\ x.body = body /\ x.preview = preview
  OBVIOUS
<1> HIDE DEF x, y, n
<1>6. /\ manual' \in [Manuals -> ManualRows] /\ manual'[m] = y
      /\ \A q \in Manuals \ {m} : manual'[q] = manual[q]
  BY <1>0, <1>3, <1>4, BecameType
<1>7. /\ i \in Items /\ i \notin Rows(m) /\ i \notin Active(m)
      /\ item'[i] = x /\ \A j \in Items \ {i} : item'[j] = item[j]
      /\ item' = [j \in Items |-> item'[j]] /\ \A j \in Items : IsItem(item'[j])
      /\ Rows(m)' = Rows(m) \cup {i} /\ Active(m)' = Active(m) \cup {i}
      /\ \A q \in Manuals \ {m} : Rows(q)' = Rows(q) /\ Active(q)' = Active(q)
  BY <1>0, <1>2, AppendRows
<1>8. RowTypes'
  BY <1>6, <1>7 DEF RowTypes
<1>9. \A q \in Manuals \ {m} : i \notin Rows(q)
  BY NoItemType, Bounds DEF Rows
<1>10. OneRowPerRequest'
  <2>1. \A q \in Manuals \ {m} : \A j \in Rows(q) : item'[j] = item[j]
    BY <1>7, <1>9, RowSets
  <2>2. ASSUME NEW q \in Manuals \ {m}, NEW j \in Rows(q), NEW k \in Rows(q), item'[j].key = item'[k].key
        PROVE  j = k
    BY <2>1, <2>2 DEF RowInv, OneRowPerRequest
  <2>3. \A j \in Rows(m) : item'[j] = item[j] /\ item[j].key # key
    BY <1>5, <1>7, RowSets DEF Insert, Find
  <2>4. ASSUME NEW j \in Rows(m) \cup {i}, NEW k \in Rows(m) \cup {i}, item'[j].key = item'[k].key
        PROVE  j = k
    BY <1>5, <1>7, <2>3, <2>4 DEF RowInv, OneRowPerRequest
  <2> QED
    BY <1>7, <2>2, <2>4 DEF OneRowPerRequest
<1>11. \A q \in Manuals \ {m} : OrderInv(q)' /\ CoverInv(q)'
  <2> SUFFICES ASSUME NEW q \in Manuals \ {m} PROVE OrderInv(q)' /\ CoverInv(q)'
    OBVIOUS
  <2>1. \A j \in Active(q) : item'[j] = item[j]
    BY <1>7, <1>9, RowSets
  <2>2. OrderInv(q) /\ CoverInv(q)
    BY DEF RowInv
  <2>3. {item'[j].pos : j \in Active(q)} = {item[j].pos : j \in Active(q)}
    BY <2>1
  <2>4. OrderInv(q)'
    BY <1>7, <2>1, <2>2, <2>3 DEF OrderInv
  <2>5. CoverInv(q)'
    BY <1>6, <1>7, <2>2 DEF CoverInv
  <2> QED
    BY <2>4, <2>5
<1>12. OrderInv(m)'
  <2> DEFINE A == Active(m)
             B == Active(m)'
  <2>1. /\ B = A \cup {i} /\ i \notin A /\ item'[i].pos = n + 1
        /\ \A j \in A : item'[j].pos = item[j].pos
    BY <1>5, <1>7, RowSets
  <2>2. /\ {item[j].pos : j \in A} = 1..n
        /\ \A j, k \in A : item[j].pos = item[k].pos => j = k
    BY DEF RowInv, OrderInv, n
  <2>3. Cardinality(B) = n + 1
    BY <2>1, RowSets, ItemSets, FS_AddElement DEF n
  <2> HIDE DEF A, B
  <2>4. \A j \in A : item'[j].pos \in 1..n
    BY <2>1, <2>2
  <2>5. {item'[j].pos : j \in B} = 1..(n + 1)
    <3>1. \A p \in 1..(n + 1) : \E j \in B : p = item'[j].pos
      <4> SUFFICES ASSUME NEW p \in 1..(n + 1) PROVE \E j \in B : p = item'[j].pos
        OBVIOUS
      <4>1. CASE p = n + 1
        BY <2>1, <4>1
      <4>2. CASE p # n + 1
        <5>1. p \in 1..n
          BY <1>0, <4>2
        <5>2. PICK j \in A : p = item[j].pos
          BY <2>2, <5>1
        <5> QED
          BY <2>1, <5>2
      <4> QED
        BY <4>1, <4>2
    <3>2. \A j \in B : item'[j].pos \in 1..(n + 1)
      BY <1>0, <2>1, <2>4
    <3> QED
      BY <3>1, <3>2
  <2>6. ASSUME NEW j \in B, NEW k \in B, item'[j].pos = item'[k].pos PROVE j = k
    <3>1. ASSUME NEW q \in A PROVE item'[q].pos # n + 1
      BY <1>0, <2>4
    <3> QED
      BY <2>1, <2>2, <2>6, <3>1
  <2> QED
    BY <2>3, <2>5, <2>6 DEF OrderInv, B
<1>13. CoverInv(m)'
  BY <1>4, <1>6, <1>7 DEF RowInv, CoverInv
<1>14. RowInv'
  BY <1>8, <1>10, <1>11, <1>12, <1>13 DEF RowInv
<1>15. Touches(m)
  <2>1. manual[m].status # "deleted"
    BY DEF Insert, Exists
  <2>2. \A q \in Manuals \ {m} : \A j \in Rows(q) : item'[j] = item[j]
    BY <1>7, <1>9, RowSets
  <2> QED
    BY <1>4, <1>6, <1>7, <2>1, <2>2 DEF Touches
<1> QED
  BY <1>2, <1>5, <1>14, <1>15

\* Positions given by a complete order are again 1..n.
LEMMA OrderedPositions ==
  ASSUME NEW m, NEW order \in Orders(m)
  PROVE  /\ {order[j] : j \in Active(m)} = 1..Cardinality(Active(m))
         /\ \A j, k \in Active(m) : order[j] = order[k] => j = k
<1> DEFINE A == Active(m)
           n == Cardinality(A)
<1>1. order \in [A -> 1..n] /\ \A j, k \in A : order[j] = order[k] => j = k
  BY DEF Orders
<1>2. IsFiniteSet(A) /\ n \in Nat
  BY RowSets, ItemSets
<1> HIDE DEF A, n
<1>3. IsFiniteSet(1..n) /\ Cardinality(1..n) = n
  BY <1>2, FS_Interval
<1>4. order \in Injection(A, 1..n)
  BY <1>1 DEF Injection, IsInjective
<1>5. order \in Surjection(A, 1..n)
  BY <1>3, <1>4, FS_Injection DEF n
<1>6. {order[j] : j \in A} = 1..n
  BY <1>1, <1>5 DEF Surjection
<1> QED
  BY <1>1, <1>6 DEF A, n

LEMMA UpdateStep ==
  ASSUME RowInv, NEW m \in Manuals, NEW status \in {"keep", "draft", "active"},
         NEW cover \in Items \cup {None, "keep"}, NEW order \in Orders(m),
         Update(m, status, cover, order)
  PROVE  /\ RowInv' /\ Touches(m)
         /\ \A j \in Items : SameRow(item[j], item'[j])
         /\ \A q \in Manuals : Active(q)' \in SUBSET Active(q)
<1> DEFINE A == Active(m)
           st == IF status = "keep" THEN manual[m].status ELSE status
           co == IF cover = "keep" THEN manual[m].cover ELSE cover
           y == Changed(manual[m], st, co)
<1>0. RowTypes /\ manual[m] \in ManualRows
  BY DEF RowInv, RowTypes
<1>1. /\ manual[m].rev < MaxRevision /\ cover \in A \cup {None, "keep"}
      /\ status \in {"keep", manual[m].status, "active"} /\ (status = "active" => A # {})
      /\ item' = PatchItems(m, order)
  BY DEF Update
<1>2. CoverInv(m) /\ OrderInv(m)
  BY DEF RowInv
<1>3. co \in A \cup {None} /\ co \in Items \cup {None} /\ st \in {"none", "draft", "active", "deleted"}
      /\ (st = "active" => A # {})
  <2>1. manual[m].status \in {"none", "draft", "active", "deleted"}
    BY <1>0 DEF ManualRows
  <2> QED
    BY <1>1, <1>2, <2>1, RowSets DEF CoverInv
<1>4. Became(m, y)
  BY <1>0 DEF Update, Became, Changed, RowTypes, ManualRows
<1> HIDE DEF st, co, A
<1>5. y \in ManualRows /\ y.rev = manual[m].rev + 1 /\ y.cover = co /\ y.status = st
  BY <1>0, <1>1, <1>3, ChangedManual
<1> HIDE DEF y
<1>6. /\ manual' \in [Manuals -> ManualRows] /\ manual'[m] = y
      /\ \A q \in Manuals \ {m} : manual'[q] = manual[q]
  BY <1>0, <1>4, <1>5, BecameType
<1>7. /\ item' = [j \in Items |-> item'[j]] /\ \A j \in Items : IsItem(item'[j])
      /\ \A j \in Items : SameRow(item[j], item'[j])
      /\ \A j \in A : item'[j].pos = order[j]
      /\ \A j \in Items \ A : item'[j] = item[j]
      /\ \A n \in Manuals : Rows(n)' = Rows(n) /\ Active(n)' = Active(n)
  BY <1>0, <1>1, UpdateRows DEF A
<1>8. RowTypes'
  BY <1>6, <1>7 DEF RowTypes
<1>9. OneRowPerRequest'
  BY <1>7, RowSets DEF RowInv, OneRowPerRequest, SameRow
<1>10. ASSUME NEW q \in Manuals \ {m} PROVE OrderInv(q)' /\ CoverInv(q)'
  <2>1. \A j \in Active(q) : item'[j] = item[j]
    BY <1>7 DEF Active, Rows, A
  <2>2. OrderInv(q) /\ CoverInv(q)
    BY DEF RowInv
  <2>3. {item'[j].pos : j \in Active(q)} = {item[j].pos : j \in Active(q)}
    BY <2>1
  <2>4. OrderInv(q)'
    BY <1>7, <2>1, <2>2, <2>3 DEF OrderInv
  <2>5. CoverInv(q)'
    BY <1>6, <1>7, <2>2 DEF CoverInv
  <2> QED
    BY <2>4, <2>5
<1>11. OrderInv(m)'
  <2>1. /\ {order[j] : j \in A} = 1..Cardinality(A)
        /\ \A j, k \in A : order[j] = order[k] => j = k
    BY OrderedPositions DEF A
  <2>2. Active(m)' = A
    BY <1>7 DEF A
  <2>3. {item'[j].pos : j \in A} = {order[j] : j \in A}
    BY <1>7
  <2> QED
    BY <1>7, <2>1, <2>2, <2>3 DEF OrderInv
<1>12. CoverInv(m)'
  <2>1. Active(m)' = A
    BY <1>7 DEF A
  <2> QED
    BY <1>3, <1>5, <1>6, <2>1 DEF CoverInv
<1>13. Touches(m)
  <2>1. manual[m].status # "deleted"
    BY DEF Update, Exists
  <2>2. \A q \in Manuals \ {m} : \A j \in Rows(q) : j \in Items \ A
    BY RowSets DEF A, Active, Rows
  <2> QED
    BY <1>5, <1>6, <1>7, <2>1, <2>2 DEF Touches
<1> QED
  BY <1>7, <1>8, <1>9, <1>10, <1>11, <1>12, <1>13 DEF RowInv

LEMMA DeleteStep ==
  ASSUME RowInv, NEW m \in Manuals, Delete(m)
  PROVE  RowInv' /\ Touches(m)
<1> DEFINE y == Changed(manual[m], "deleted", manual[m].cover)
<1>0. RowTypes /\ manual[m] \in ManualRows
  BY DEF RowInv, RowTypes
<1>1. UNCHANGED item /\ manual[m].rev < MaxRevision
  BY DEF Delete
<1>2. Became(m, y)
  BY <1>0 DEF Delete, Became, Changed, RowTypes, ManualRows
<1>3. y \in ManualRows /\ y.rev = manual[m].rev + 1 /\ y.cover = manual[m].cover /\ y.status = "deleted"
  <2>1. manual[m].cover \in Items \cup {None}
    BY <1>0 DEF ManualRows
  <2> QED
    BY <1>0, <1>1, <2>1, ChangedManual
<1> HIDE DEF y
<1>4. /\ manual' \in [Manuals -> ManualRows] /\ manual'[m] = y
      /\ \A q \in Manuals \ {m} : manual'[q] = manual[q]
  BY <1>0, <1>2, <1>3, BecameType
<1>5. \A n : Rows(n)' = Rows(n) /\ Active(n)' = Active(n)
  BY <1>1 DEF Rows, Active
<1>6. ASSUME NEW n \in Manuals PROVE OrderInv(n)' /\ CoverInv(n)'
  <2>1. OrderInv(n)'
    BY <1>1, <1>5 DEF OrderInv, RowInv
  <2>2. CoverInv(n)'
    BY <1>3, <1>4, <1>5 DEF CoverInv, RowInv
  <2> QED
    BY <2>1, <2>2
<1>7. OneRowPerRequest'
  BY <1>1, <1>5 DEF OneRowPerRequest, RowInv
<1>8. RowTypes'
  BY <1>0, <1>1, <1>4 DEF RowTypes
<1>9. Touches(m)
  BY <1>1, <1>3, <1>4, <1>5 DEF Delete, Exists, Touches
<1> QED
  BY <1>6, <1>7, <1>8, <1>9 DEF RowInv

\* The elements of A are at the positions 1..n, one at each.
Dense(A, n, pos) ==
  /\ \A j \in A : pos[j] \in 1..n
  /\ \A p \in 1..n : \E j \in A : pos[j] = p
  /\ \A j, k \in A : pos[j] = pos[k] => j = k

\* Closing the gap that i leaves keeps the positions dense.
LEMMA Compacted ==
  ASSUME NEW A, NEW i \in A, NEW n \in Nat, NEW pos, NEW new, Dense(A, n, pos),
         \A j \in A \ {i} : new[j] = IF pos[j] > pos[i] THEN pos[j] - 1 ELSE pos[j]
  PROVE  Dense(A \ {i}, n - 1, new)
<1>1. /\ \A j \in A : pos[j] \in 1..n
      /\ \A p \in 1..n : \E j \in A : pos[j] = p
      /\ \A j, k \in A : pos[j] = pos[k] => j = k
  BY DEF Dense
<1>2. pos[i] \in 1..n /\ n - 1 \in Nat
  BY <1>1
<1>3. \A j \in A \ {i} : pos[j] # pos[i] /\ pos[j] \in 1..n
  BY <1>1
<1>4. \A j \in A \ {i} : new[j] \in 1..(n - 1)
  BY <1>2, <1>3
<1>5. ASSUME NEW p \in 1..(n - 1) PROVE \E j \in A \ {i} : new[j] = p
  <2>1. CASE p < pos[i]
    <3>0. p \in 1..n
      BY <1>2
    <3>1. PICK j \in A : pos[j] = p
      BY <1>1, <3>0
    <3> QED
      BY <1>2, <2>1, <3>1
  <2>2. CASE ~(p < pos[i])
    <3>1. p + 1 \in 1..n
      BY <1>2
    <3>2. PICK j \in A : pos[j] = p + 1
      BY <1>1, <3>1
    <3>3. j # i /\ pos[j] > pos[i]
      BY <1>2, <2>2, <3>2
    <3> QED
      BY <1>2, <3>2, <3>3
  <2> QED
    BY <2>1, <2>2
<1>6. ASSUME NEW j \in A \ {i}, NEW k \in A \ {i}, new[j] = new[k] PROVE j = k
  <2>1. pos[j] = pos[k]
    BY <1>2, <1>3, <1>6
  <2> QED
    BY <1>1, <2>1
<1> QED
  BY <1>4, <1>5, <1>6 DEF Dense

LEMMA DeleteItemStep ==
  ASSUME RowInv, NEW m \in Manuals, NEW i \in Items, DeleteItem(m, i)
  PROVE  /\ RowInv' /\ Touches(m)
         /\ \A j \in Items : SameRow(item[j], item'[j])
         /\ \A q \in Manuals : Active(q)' \in SUBSET Active(q)
<1> DEFINE A == Active(m)
           n == Cardinality(A)
           co == CoverWithout(m, i)
           y == Changed(manual[m], manual[m].status, co)
           pos == [j \in A |-> item[j].pos]
           new == [j \in A |-> item'[j].pos]
<1>0. RowTypes /\ manual[m] \in ManualRows
  BY DEF RowInv, RowTypes
<1>1. /\ manual[m].rev < MaxRevision /\ i \in A /\ (manual[m].status = "active" => A # {i})
      /\ item' = CompactManualItemPositions(m, i)
  BY DEF DeleteItem, Deletable
<1>2. CoverInv(m) /\ OrderInv(m)
  BY DEF RowInv
<1>3. co \in (A \ {i}) \cup {None} /\ co \in Items \cup {None}
  BY <1>2, RowSets DEF CoverInv, CoverWithout
<1>4. Became(m, y)
  BY <1>0 DEF DeleteItem, Became, Changed, RowTypes, ManualRows
<1>5. IsFiniteSet(A) /\ n \in Nat /\ A \in SUBSET Items
  BY RowSets, ItemSets
<1>6. {item[j].pos : j \in A} = 1..n /\ \A j, k \in A : item[j].pos = item[k].pos => j = k
  BY <1>2 DEF OrderInv
<1>7. \A j \in A : item[j].pos > 0
  <2>1. \A j \in A : item[j].pos \in 1..n
    BY <1>6
  <2> HIDE DEF A, n
  <2> QED
    BY <1>5, <2>1
<1> HIDE DEF co, A
<1>8. y \in ManualRows /\ y.rev = manual[m].rev + 1 /\ y.cover = co /\ y.status = manual[m].status
  <2>1. manual[m].status \in {"none", "draft", "active", "deleted"}
    BY <1>0 DEF ManualRows
  <2> QED
    BY <1>0, <1>1, <1>3, <2>1, ChangedManual
<1> HIDE DEF y
<1>9. /\ manual' \in [Manuals -> ManualRows] /\ manual'[m] = y
      /\ \A q \in Manuals \ {m} : manual'[q] = manual[q]
  BY <1>0, <1>4, <1>8, BecameType
<1>10. /\ item' = [j \in Items |-> item'[j]] /\ \A j \in Items : IsItem(item'[j])
       /\ \A j \in Items : SameRow(item[j], item'[j])
       /\ \A j \in A \ {i} :
            item'[j].pos = IF item[j].pos > item[i].pos THEN item[j].pos - 1 ELSE item[j].pos
       /\ \A j \in Items \ A : item'[j] = item[j]
       /\ \A q \in Manuals : Rows(q)' = Rows(q)
       /\ \A q \in Manuals \ {m} : Active(q)' = Active(q)
       /\ Active(m)' = A \ {i}
  BY <1>0, <1>1, <1>7, DeleteRows DEF A
<1>11. RowTypes'
  BY <1>9, <1>10 DEF RowTypes
<1>12. OneRowPerRequest'
  BY <1>10, RowSets DEF RowInv, OneRowPerRequest, SameRow
<1>13. ASSUME NEW q \in Manuals \ {m} PROVE OrderInv(q)' /\ CoverInv(q)'
  <2>1. \A j \in Active(q) : item'[j] = item[j]
    BY <1>10 DEF Active, Rows, A
  <2>2. OrderInv(q) /\ CoverInv(q)
    BY DEF RowInv
  <2>3. {item'[j].pos : j \in Active(q)} = {item[j].pos : j \in Active(q)}
    BY <2>1
  <2>4. OrderInv(q)'
    BY <1>10, <2>1, <2>2, <2>3 DEF OrderInv
  <2>5. CoverInv(q)'
    BY <1>9, <1>10, <2>2 DEF CoverInv
  <2> QED
    BY <2>4, <2>5
<1>14. OrderInv(m)'
  <2>1. /\ \A j \in A : pos[j] \in 1..n
        /\ \A j, k \in A : pos[j] = pos[k] => j = k
    BY <1>6
  <2>2. ASSUME NEW p \in 1..n PROVE \E j \in A : pos[j] = p
    <3>1. PICK j \in A : item[j].pos = p
      BY <1>6
    <3> QED
      BY <3>1
  <2>3. \A j \in A \ {i} : new[j] = IF pos[j] > pos[i] THEN pos[j] - 1 ELSE pos[j]
    BY <1>1, <1>10
  <2>4. \A j \in A \ {i} : new[j] = item'[j].pos
    OBVIOUS
  <2> HIDE DEF pos, new, n
  <2>5. Dense(A \ {i}, n - 1, new)
    <3>1. i \in A /\ n \in Nat
      BY <1>1, <1>5
    <3>2. Dense(A, n, pos)
      BY <2>1, <2>2 DEF Dense
    <3> QED
      BY <2>3, <3>1, <3>2, Compacted
  <2>6. Cardinality(A \ {i}) = n - 1
    BY <1>1, <1>5, FS_RemoveElement DEF n
  <2>7. {item'[j].pos : j \in A \ {i}} = 1..(n - 1)
    BY <2>4, <2>5 DEF Dense
  <2> QED
    BY <1>10, <2>4, <2>5, <2>6, <2>7 DEF OrderInv, Dense
<1>15. CoverInv(m)'
  BY <1>1, <1>3, <1>8, <1>9, <1>10 DEF CoverInv
<1>16. Touches(m)
  <2>1. manual[m].status # "deleted"
    BY DEF DeleteItem, Exists
  <2>2. \A q \in Manuals \ {m} : \A j \in Rows(q) : j \in Items \ A
    BY RowSets DEF A, Active, Rows
  <2> QED
    BY <1>8, <1>9, <1>10, <2>1, <2>2 DEF Touches
<1>17. \A q \in Manuals : Active(q)' \in SUBSET Active(q)
  BY <1>10 DEF A
<1> QED
  BY <1>10, <1>11, <1>12, <1>13, <1>14, <1>15, <1>16, <1>17 DEF RowInv

-----------------------------------------------------------------------------
(* Uploads and directories *)

Steps == {"idle", "checked", "reserved", "staged", "gate", "inspected", "stored", "unsure"}
Staging == {"staged", "gate", "inspected"}

Uploads == [pc : Steps, manual : Manuals \cup {None}, key : Keys \cup {None},
            body : Bodies \cup {None}, item : Items \cup {None}, preview : Previews]

IsDir(d) == /\ d = [f \in DOMAIN d |-> d[f]] /\ DOMAIN d = {"bytes", "thumb"}
            /\ d.bytes \in Nat /\ d.thumb \in BOOLEAN

UploadTypes ==
  /\ req \in [Requests -> Uploads]
  /\ dirs = [i \in Items |-> dirs[i]] /\ \A i \in Items : IsDir(dirs[i])
  /\ strays \in SUBSET Items /\ debris \in Nat /\ crashes \in 0..MaxCrashes

\* The files of an item with this preview are there.
HasFiles(i, preview) == dirs[i] # NoDir /\ (preview = "ready" => dirs[i].thumb = TRUE)

\* The row the upload wanted to make.
RowOf(u) == LET x == item[u.item] IN
  x.manual = u.manual /\ x.key = u.key /\ x.body = u.body /\ x.preview = u.preview

\* What the steps of an upload leave behind, and what nobody else does to it.
Sound(u) ==
  /\ u.pc # "idle" => u.manual \in Manuals
  /\ u.pc \in {"idle", "checked", "reserved"} => u.item = None
  /\ u.pc \in Staging \cup {"stored", "unsure"} => u.key \in Keys /\ u.body \in Bodies /\ u.item \in Items
  /\ u.pc \in Staging => dirs[u.item] = NoDir
  /\ u.pc \in Staging \cup {"stored"} => item[u.item] = NoItem
  /\ u.pc = "stored" /\ u.body.kind # "text" => HasFiles(u.item, u.preview)
  /\ u.pc = "unsure" => item[u.item] = NoItem \/ RowOf(u)

UploadInv == \A r \in Requests : Sound(req[r])

\* No two uploads drew the same id.
OwnIds == \A r, q \in Requests : req[r].item = req[q].item /\ req[r].item # None => r = q

\* The directory of a row is there.
FileAt(i) == item[i].manual # None /\ item[i].body.kind # "text" => HasFiles(i, item[i].preview)

\* A directory without a row is explained.
OrphanAt(i) ==
  dirs[i] # NoDir /\ item[i] = NoItem =>
    i \in strays \/ \E r \in Requests : req[r].item = i /\ req[r].pc \in {"stored", "unsure"}

Reserving == {r \in Requests : req[r].pc \notin {"idle", "checked"}}

Unit == MaxFileBytes + PDFPreviewOutputLimitBytes

FilesInv ==
  /\ UploadTypes /\ UploadInv /\ OwnIds
  /\ \A i \in Items : FileAt(i) /\ OrphanAt(i)

ReserveInv == reserved = Unit * Cardinality(Reserving)

\* Uploads whose bytes are not yet in a final directory.
Holding == {r \in Requests : req[r].pc \in Staging \cup {"reserved"}}

DirBytes == [i \in Items |-> dirs[i].bytes]

\* What an upload may still write is set aside from the moment it is admitted.
DiskInv == debris + Unit * Cardinality(Holding) + SumOf(DirBytes, Items) + MinFreeDiskBytes <= DiskBytes

LEMMA NoDirType ==
  IsDir(NoDir) /\ NoDir.bytes = 0
  BY DEF IsDir, NoDir

LEMMA IdleType ==
  Idle \in Uploads /\ Idle.pc = "idle" /\ Idle.item = None
  BY DEF Idle, Uploads, Steps, Previews

\* The request r becomes x, the others stay.
Moved(r, x) == req' = [req EXCEPT ![r] = x]

LEMMA MovedType ==
  ASSUME UploadTypes, NEW r \in Requests, NEW x \in Uploads, Moved(r, x)
  PROVE  /\ req' \in [Requests -> Uploads] /\ req'[r] = x
         /\ \A q \in Requests \ {r} : req'[q] = req[q]
  BY DEF UploadTypes, Moved

AtStep(u, pc) == [u EXCEPT !.pc = pc]
Inspected(u, preview) == [u EXCEPT !.pc = "inspected", !.preview = preview]

LEMMA AtStepType ==
  ASSUME NEW u \in Uploads, NEW pc \in Steps
  PROVE  LET x == AtStep(u, pc)
         IN  x \in Uploads /\ x.pc = pc /\ x.manual = u.manual /\ x.key = u.key /\ x.body = u.body
             /\ x.item = u.item /\ x.preview = u.preview
  BY DEF AtStep, Uploads

LEMMA InspectedType ==
  ASSUME NEW u \in Uploads, NEW preview \in Previews
  PROVE  LET x == Inspected(u, preview)
         IN  x \in Uploads /\ x.pc = "inspected" /\ x.manual = u.manual /\ x.key = u.key /\ x.body = u.body
             /\ x.item = u.item /\ x.preview = preview
  BY DEF Inspected, Uploads, Steps

\* A row that is not there is NoItem.
LEMMA NoRow ==
  ASSUME NEW x, IsItem(x)
  PROVE  x = NoItem <=> x.manual = None
  BY NoItemType DEF IsItem

\* A step that leaves the row and the directory of an upload alone keeps what it relies on.
LEMMA SoundKept ==
  ASSUME RowInv, RowInv', NEW u \in Uploads, Sound(u), NEW i,
         u.item = i => i = None,
         \A j \in Items \ {i} : SameRow(item[j], item'[j]) /\ dirs'[j] = dirs[j]
  PROVE  Sound(u)'
<1>1. CASE u.item \in Items
  <2>1. u.item # i
    BY <1>1, Bounds
  <2>2. SameRow(item[u.item], item'[u.item]) /\ dirs'[u.item] = dirs[u.item]
    BY <1>1, <2>1
  <2>3. IsItem(item[u.item]) /\ IsItem(item'[u.item])
    BY <1>1 DEF RowInv, RowTypes
  <2>4. item'[u.item] = NoItem <=> item[u.item] = NoItem
    BY <2>2, <2>3, NoRow DEF SameRow
  <2> QED
    BY <2>2, <2>4 DEF Sound, HasFiles, RowOf, SameRow
<1>2. CASE u.item \notin Items
  BY <1>2 DEF Sound, Staging, Uploads, Steps
<1> QED
  BY <1>1, <1>2

\* The same for the files of an item.
LEMMA FilesAtKept ==
  ASSUME RowInv, RowInv', NEW j \in Items, SameRow(item[j], item'[j]), dirs'[j] = dirs[j]
  PROVE  /\ FileAt(j) => FileAt(j)'
         /\ dirs'[j] # NoDir /\ item'[j] = NoItem => dirs[j] # NoDir /\ item[j] = NoItem
<1>1. IsItem(item[j]) /\ IsItem(item'[j])
  BY DEF RowInv, RowTypes
<1>2. item'[j] = NoItem <=> item[j] = NoItem
  BY <1>1, NoRow DEF SameRow
<1> QED
  BY <1>2 DEF FileAt, HasFiles, SameRow

\* A step of the upload r that may touch the row and the directory of the item i.
LEMMA UploadMoves ==
  ASSUME RowInv, FilesInv, RowInv', NEW r \in Requests, NEW x \in Uploads, Moved(r, x), NEW i,
         \A q \in Requests \ {r} : req[q].item = i => i = None,
         req[r].pc \in {"stored", "unsure"} => req[r].item = i,
         x.item \in {None, i},
         \A j \in Items \ {i} : SameRow(item[j], item'[j]) /\ dirs'[j] = dirs[j],
         dirs' = [j \in Items |-> dirs'[j]], \A j \in Items : IsDir(dirs'[j]),
         strays \in SUBSET strays', strays' \in SUBSET Items, UNCHANGED <<debris, crashes>>,
         Sound(x)', i \in Items => FileAt(i)' /\ OrphanAt(i)'
  PROVE  FilesInv'
<1>1. /\ req' \in [Requests -> Uploads] /\ req'[r] = x
      /\ \A q \in Requests \ {r} : req'[q] = req[q]
  BY MovedType DEF FilesInv
<1>2. UploadTypes'
  BY <1>1 DEF FilesInv, UploadTypes
<1>3. UploadInv'
  <2> SUFFICES ASSUME NEW q \in Requests PROVE Sound(req[q])'
    BY DEF UploadInv
  <2>1. CASE q = r
    BY <1>1, <2>1
  <2>2. CASE q # r
    <3>1. req'[q] = req[q] /\ req[q] \in Uploads /\ Sound(req[q])
      BY <1>1, <2>2 DEF FilesInv, UploadTypes, UploadInv
    <3>2. PICK u \in Uploads : u = req[q]
      BY <3>1
    <3>3. Sound(u) /\ (u.item = i => i = None)
      BY <2>2, <3>1, <3>2
    <3>4. Sound(u)'
      BY <3>3, SoundKept
    <3> QED
      BY <3>1, <3>2, <3>4 DEF Sound, RowOf, HasFiles
  <2> QED
    BY <2>1, <2>2
<1>4. OwnIds'
  <2> SUFFICES ASSUME NEW p \in Requests, NEW q \in Requests, req'[p].item = req'[q].item,
                      req'[p].item # None
               PROVE  p = q
    BY DEF OwnIds
  <2> QED
    BY <1>1 DEF FilesInv, OwnIds
<1>5. ASSUME NEW j \in Items PROVE FileAt(j)' /\ OrphanAt(j)'
  <2>1. CASE j = i
    BY <2>1
  <2>2. CASE j # i
    <3>1. SameRow(item[j], item'[j]) /\ dirs'[j] = dirs[j] /\ FileAt(j) /\ OrphanAt(j)
      BY <2>2 DEF FilesInv
    <3>2. FileAt(j)'
      BY <3>1, FilesAtKept
    <3>3. OrphanAt(j)'
      <4> SUFFICES ASSUME dirs'[j] # NoDir /\ item'[j] = NoItem, j \notin strays'
                   PROVE  \E q \in Requests : req'[q].item = j /\ req'[q].pc \in {"stored", "unsure"}
        BY DEF OrphanAt
      <4>1. PICK q \in Requests : req[q].item = j /\ req[q].pc \in {"stored", "unsure"}
        BY <3>1, FilesAtKept DEF OrphanAt
      <4>2. q # r
        BY <2>2, <4>1
      <4> QED
        BY <1>1, <4>1, <4>2
    <3> QED
      BY <3>2, <3>3
  <2> QED
    BY <2>1, <2>2
<1> QED
  BY <1>2, <1>3, <1>4, <1>5 DEF FilesInv

\* A step of the owner that makes at most the row of a fresh item i.
LEMMA OwnerMoves ==
  ASSUME RowInv, FilesInv, RowInv', NEW i, \A q \in Requests : req[q].item = i => i = None,
         \A j \in Items \ {i} : SameRow(item[j], item'[j]),
         i \in Items => FileAt(i)' /\ item'[i] # NoItem,
         UNCHANGED <<req, dirs, strays, debris, crashes>>
  PROVE  FilesInv'
<1>1. UploadTypes' /\ OwnIds'
  BY DEF FilesInv, UploadTypes, OwnIds
<1>2. UploadInv'
  <2> SUFFICES ASSUME NEW q \in Requests PROVE Sound(req[q])'
    BY DEF UploadInv
  <2>1. PICK u \in Uploads : u = req[q]
    BY DEF FilesInv, UploadTypes
  <2>2. Sound(u) /\ (u.item = i => i = None)
    BY <2>1 DEF FilesInv, UploadInv
  <2>3. Sound(u)'
    BY <2>2, SoundKept
  <2> QED
    BY <2>1, <2>3 DEF Sound, RowOf, HasFiles
<1>3. ASSUME NEW j \in Items PROVE FileAt(j)' /\ OrphanAt(j)'
  <2>1. CASE j = i
    BY <2>1 DEF OrphanAt
  <2>2. CASE j # i
    <3>1. SameRow(item[j], item'[j]) /\ dirs'[j] = dirs[j] /\ FileAt(j) /\ OrphanAt(j)
      BY <2>2 DEF FilesInv
    <3> QED
      BY <3>1, FilesAtKept DEF OrphanAt
  <2> QED
    BY <2>1, <2>2
<1> QED
  BY <1>1, <1>2, <1>3 DEF FilesInv

LEMMA CrashFiles ==
  ASSUME RowInv, FilesInv, RowInv', Crash, Staged \in Nat
  PROVE  FilesInv'
<1>1. /\ req' = [r \in Requests |-> Idle] /\ UNCHANGED <<manual, item, dirs>>
      /\ crashes < MaxCrashes /\ crashes' = crashes + 1 /\ debris' = debris + Staged
      /\ strays' = strays \cup {i \in Items : dirs[i] # NoDir /\ item[i] = NoItem}
  BY DEF Crash
<1>2. UploadTypes'
  <2>1. debris' \in Nat /\ crashes' \in 0..MaxCrashes
    BY <1>1, Bounds DEF FilesInv, UploadTypes
  <2>2. req' \in [Requests -> Uploads]
    BY <1>1, IdleType
  <2> QED
    BY <1>1, <2>1, <2>2 DEF FilesInv, UploadTypes
<1>3. UploadInv' /\ OwnIds'
  BY <1>1, IdleType DEF UploadInv, OwnIds, Sound, Staging
<1>4. ASSUME NEW j \in Items PROVE FileAt(j)' /\ OrphanAt(j)'
  BY <1>1 DEF FilesInv, FileAt, HasFiles, OrphanAt
<1> QED
  BY <1>2, <1>3, <1>4 DEF FilesInv

\* The request r goes from one of some steps to one of others.
Shift(r, from, to) == \E x \in Uploads : Moved(r, x) /\ req[r].pc \in from /\ x.pc \in to

\* Steps of an upload that touch neither rows nor directories.
LEMMA QuietMove ==
  ASSUME RowInv, FilesInv, RowInv', NEW r \in Requests, NEW x \in Uploads, Moved(r, x), Sound(x),
         UNCHANGED <<item, dirs, strays, debris, crashes>>,
         x.item \in {None, req[r].item} \/ \A q \in Requests : req[q].item # x.item,
         req[r].pc \in {"stored", "unsure"} => x.pc \in {"stored", "unsure"} /\ x.item = req[r].item
  PROVE  FilesInv'
<1> DEFINE i == x.item
<1>1. \A q \in Requests \ {r} : req[q].item = i => i = None
  BY DEF FilesInv, OwnIds
<1>2. Sound(x)'
  BY DEF Sound, RowOf, HasFiles
<1>3. UploadTypes
  BY DEF FilesInv
<1>4. ASSUME i \in Items PROVE FileAt(i)' /\ OrphanAt(i)'
  <2>1. FileAt(i)'
    BY <1>4 DEF FilesInv, FileAt, HasFiles
  <2>2. /\ req'[r] = x /\ \A q \in Requests \ {r} : req'[q] = req[q]
    BY <1>3, MovedType
  <2>3. OrphanAt(i)
    BY <1>4 DEF FilesInv
  <2>4. OrphanAt(i)'
    <3> SUFFICES ASSUME dirs[i] # NoDir /\ item[i] = NoItem, i \notin strays
                 PROVE  \E q \in Requests : req'[q].item = i /\ req'[q].pc \in {"stored", "unsure"}
      BY DEF OrphanAt
    <3>1. PICK q \in Requests : req[q].item = i /\ req[q].pc \in {"stored", "unsure"}
      BY <2>3 DEF OrphanAt
    <3> QED
      BY <2>2, <3>1
  <2> QED
    BY <2>1, <2>4
<1>5. /\ dirs' = [j \in Items |-> dirs'[j]] /\ \A j \in Items : IsDir(dirs'[j])
      /\ strays' \in SUBSET Items
  BY <1>3 DEF UploadTypes
<1>6. \A j \in Items : SameRow(item[j], item'[j])
  BY DEF SameRow
<1>7. req[r].pc \in {"stored", "unsure"} => req[r].item = i
  OBVIOUS
<1>8. x.item \in {None, i}
  OBVIOUS
<1>9. strays \in SUBSET strays'
  OBVIOUS
<1> HIDE DEF i
<1> QED
  BY <1>1, <1>2, <1>4, <1>5, <1>6, <1>7, <1>8, <1>9, UploadMoves

LEMMA CheckStep ==
  ASSUME RowInv, FilesInv, RowInv', NEW r \in Requests, NEW m \in Manuals, CheckUploadOwner(r, m)
  PROVE  FilesInv' /\ Shift(r, {"idle"}, {"checked"})
<1>1. PICK x : x = [Idle EXCEPT !.pc = "checked", !.manual = m]
  OBVIOUS
<1>2. x \in Uploads /\ x.pc = "checked" /\ x.manual = m /\ x.item = None
  BY <1>1 DEF Idle, Uploads, Steps, Previews
<1>3. Moved(r, x) /\ req[r].pc = "idle" /\ UNCHANGED <<item, dirs, strays, debris, crashes>>
  BY <1>1 DEF CheckUploadOwner, Moved
<1>4. Sound(x)
  BY <1>2 DEF Sound, Staging
<1> QED
  BY <1>2, <1>3, <1>4, QuietMove DEF Shift

LEMMA AcquireStep ==
  ASSUME RowInv, FilesInv, RowInv', NEW r \in Requests, AcquireUpload(r)
  PROVE  FilesInv' /\ Shift(r, {"checked"}, {"reserved"})
<1>1. PICK x : x = AtStep(req[r], "reserved")
  OBVIOUS
<1>2. /\ x \in Uploads /\ x.pc = "reserved" /\ x.manual = req[r].manual /\ x.item = req[r].item
  BY <1>1, AtStepType DEF FilesInv, UploadTypes, Steps
<1>3. Moved(r, x) /\ req[r].pc = "checked" /\ UNCHANGED <<item, dirs, strays, debris, crashes>>
  BY <1>1 DEF AcquireUpload, Moved, AtStep, FilesInv, UploadTypes
<1>4. Sound(req[r])
  BY DEF FilesInv, UploadInv
<1>5. Sound(x)
  BY <1>2, <1>3, <1>4 DEF Sound, Staging
<1> QED
  BY <1>2, <1>3, <1>5, QuietMove DEF Shift

Wrote(u, i, key, body) == [u EXCEPT !.pc = "staged", !.key = key, !.body = body, !.item = i]

LEMMA WroteType ==
  ASSUME NEW u \in Uploads, NEW i \in Items, NEW key \in Keys, NEW body \in Bodies
  PROVE  LET x == Wrote(u, i, key, body)
         IN  x \in Uploads /\ x.pc = "staged" /\ x.manual = u.manual /\ x.key = key /\ x.body = body
             /\ x.item = i
  BY DEF Wrote, Uploads, Steps

LEMMA WriteStep ==
  ASSUME RowInv, FilesInv, RowInv', NEW r \in Requests, NEW i \in Items, NEW key \in Keys,
         NEW body \in Bodies, WriteOriginal(r, i, key, body)
  PROVE  FilesInv' /\ Shift(r, {"reserved"}, {"staged"})
<1>1. PICK x : x = Wrote(req[r], i, key, body)
  OBVIOUS
<1>2. /\ x \in Uploads /\ x.pc = "staged" /\ x.manual = req[r].manual /\ x.key = key /\ x.body = body
      /\ x.item = i
  BY <1>1, WroteType DEF FilesInv, UploadTypes
<1>3. Moved(r, x) /\ req[r].pc = "reserved" /\ UNCHANGED <<item, dirs, strays, debris, crashes>>
  BY <1>1 DEF WriteOriginal, Moved, Wrote
<1>4. Sound(req[r]) /\ dirs[i] = NoDir /\ item[i] = NoItem /\ \A q \in Requests : req[q].item # i
  BY DEF FilesInv, UploadInv, WriteOriginal, Fresh
<1>5. Sound(x)
  BY <1>2, <1>3, <1>4 DEF Sound, Staging
<1> QED
  BY <1>2, <1>3, <1>4, <1>5, QuietMove DEF Shift

LEMMA InspectStep ==
  ASSUME RowInv, FilesInv, RowInv', NEW r \in Requests, Inspect(r)
  PROVE  FilesInv' /\ Shift(r, Staging, Staging)
<1>0. req[r] \in Uploads /\ req \in [Requests -> Uploads] /\ Sound(req[r])
  BY DEF FilesInv, UploadTypes, UploadInv
<1>1. \E x \in Uploads : /\ Moved(r, x) /\ x.pc \in Staging /\ x.manual = req[r].manual
                         /\ x.key = req[r].key /\ x.body = req[r].body /\ x.item = req[r].item
  <2>1. CASE EnterGate(r)
    <3>1. Moved(r, AtStep(req[r], "gate"))
      BY <1>0, <2>1 DEF EnterGate, Moved, AtStep
    <3> QED
      BY <1>0, <3>1, AtStepType DEF Steps, Staging
  <2>2. CASE ReadPlainText(r)
    <3>1. Moved(r, AtStep(req[r], "inspected"))
      BY <1>0, <2>2 DEF ReadPlainText, Moved, AtStep
    <3> QED
      BY <1>0, <3>1, AtStepType DEF Steps, Staging
  <2>3. CASE Thumbnail(r)
    <3>1. Moved(r, Inspected(req[r], "ready"))
      BY <1>0, <2>3 DEF Thumbnail, Moved, Inspected, Uploads
    <3> QED
      BY <1>0, <3>1, InspectedType DEF Previews, Staging
  <2>4. CASE \E preview \in {"ready", "unavailable"} : RenderPDFPreview(r, preview)
    <3>1. PICK preview \in {"ready", "unavailable"} : RenderPDFPreview(r, preview)
      BY <2>4
    <3>2. Moved(r, Inspected(req[r], preview))
      BY <1>0, <3>1 DEF RenderPDFPreview, Moved, Inspected, Uploads
    <3> QED
      BY <1>0, <3>2, InspectedType DEF Previews, Staging
  <2> QED
    BY <2>1, <2>2, <2>3, <2>4 DEF Inspect
<1>2. PICK x \in Uploads : /\ Moved(r, x) /\ x.pc \in Staging /\ x.manual = req[r].manual
                           /\ x.key = req[r].key /\ x.body = req[r].body /\ x.item = req[r].item
  BY <1>1
<1>3. req[r].pc \in Staging /\ UNCHANGED <<item, dirs, strays, debris, crashes>>
  BY DEF Inspect, EnterGate, Thumbnail, RenderPDFPreview, ReadPlainText, Staging
<1>4. Sound(x)
  BY <1>0, <1>2, <1>3 DEF Sound, Staging
<1>5. req[r].pc \notin {"stored", "unsure"}
  BY <1>3 DEF Staging
<1> QED
  BY <1>2, <1>3, <1>4, <1>5, QuietMove DEF Shift

LEMMA AbandonStep ==
  ASSUME RowInv, FilesInv, RowInv', NEW r \in Requests, AbandonUpload(r)
  PROVE  FilesInv' /\ Shift(r, Steps \ {"idle", "stored", "unsure"}, {"idle"})
<1>1. PICK x : x = Idle
  OBVIOUS
<1>2. x \in Uploads /\ x.pc = "idle" /\ x.item = None
  BY <1>1, IdleType
<1>3. Moved(r, x) /\ req[r].pc \notin {"idle", "stored", "unsure"}
      /\ UNCHANGED <<item, dirs, strays, debris, crashes>>
  BY <1>1 DEF AbandonUpload, Moved, End
<1>4. Sound(x)
  BY <1>2 DEF Sound, Staging
<1>5. req[r].pc \in Steps
  BY DEF FilesInv, UploadTypes, Uploads
<1>6. FilesInv'
  BY <1>2, <1>3, <1>4, QuietMove
<1> QED
  BY <1>2, <1>3, <1>5, <1>6 DEF Shift

LEMMA LoseStep ==
  ASSUME RowInv, FilesInv, RowInv', NEW r \in Requests, LoseCommit(r)
  PROVE  FilesInv' /\ Shift(r, {"stored"}, {"unsure"})
<1>1. PICK x : x = AtStep(req[r], "unsure")
  OBVIOUS
<1>2. /\ x \in Uploads /\ x.pc = "unsure" /\ x.manual = req[r].manual /\ x.item = req[r].item
      /\ x.key = req[r].key /\ x.body = req[r].body
  BY <1>1, AtStepType DEF FilesInv, UploadTypes, Steps
<1>3. Moved(r, x) /\ req[r].pc = "stored" /\ UNCHANGED <<item, dirs, strays, debris, crashes>>
  BY <1>1 DEF LoseCommit, Moved, AtStep, FilesInv, UploadTypes
<1>4. Sound(req[r])
  BY DEF FilesInv, UploadInv
<1>5. Sound(x)
  BY <1>2, <1>3, <1>4 DEF Sound, Staging
<1> QED
  BY <1>2, <1>3, <1>5, QuietMove DEF Shift

LEMMA RemovedDir ==
  ASSUME UploadTypes, NEW i \in Items, RemoveStoredFile(i)
  PROVE  /\ dirs' = [j \in Items |-> dirs'[j]] /\ \A j \in Items : IsDir(dirs'[j])
         /\ \A j \in Items \ {i} : dirs'[j] = dirs[j]
         /\ strays \in SUBSET strays' /\ strays' \in SUBSET Items
         /\ dirs'[i] = NoDir \/ (dirs'[i] = dirs[i] /\ i \in strays')
<1>1. CASE dirs' = [dirs EXCEPT ![i] = NoDir] /\ UNCHANGED strays
  BY <1>1, NoDirType DEF UploadTypes
<1>2. CASE strays' = strays \cup {i} /\ UNCHANGED dirs
  BY <1>2 DEF UploadTypes
<1> QED
  BY <1>1, <1>2 DEF RemoveStoredFile

\* The end of an upload that stored its directory.
LEMMA EndMove ==
  ASSUME RowInv, FilesInv, RowInv', NEW r \in Requests, NEW i \in Items, req[r].item = i,
         req' = [req EXCEPT ![r] = Idle],
         \A j \in Items \ {i} : SameRow(item[j], item'[j]) /\ dirs'[j] = dirs[j],
         dirs' = [j \in Items |-> dirs'[j]], \A j \in Items : IsDir(dirs'[j]),
         strays \in SUBSET strays', strays' \in SUBSET Items, UNCHANGED <<debris, crashes>>,
         FileAt(i)', dirs'[i] # NoDir /\ item'[i] = NoItem => i \in strays'
  PROVE  FilesInv'
<1>1. PICK x : x = Idle
  OBVIOUS
<1>2. x \in Uploads /\ x.pc = "idle" /\ x.item = None /\ Moved(r, x)
  BY <1>1, IdleType DEF Moved
<1>3. Sound(x)'
  BY <1>2 DEF Sound, Staging
<1>4. OrphanAt(i)'
  BY DEF OrphanAt
<1>5. \A q \in Requests \ {r} : req[q].item = i => i = None
  BY Bounds DEF FilesInv, OwnIds
<1> QED
  BY <1>2, <1>3, <1>4, <1>5, UploadMoves

LEMMA EndShift ==
  ASSUME NEW r \in Requests, req' = [req EXCEPT ![r] = Idle], NEW pc, req[r].pc = pc
  PROVE  Shift(r, {pc}, {"idle"})
  BY IdleType DEF Shift, Moved

LEMMA ReplayStep ==
  ASSUME RowInv, FilesInv, RowInv', NEW r \in Requests, ReplayOrRefuse(r)
  PROVE  /\ FilesInv' /\ Shift(r, {"stored"}, {"idle"})
         /\ req[r].item \in Items /\ RemoveStoredFile(req[r].item)
<1>1. /\ req[r].pc = "stored" /\ req' = [req EXCEPT ![r] = Idle] /\ UNCHANGED <<item, debris, crashes>>
  BY DEF ReplayOrRefuse, End
<1>2. PICK i : i = req[r].item
  OBVIOUS
<1>3. i \in Items /\ item[i] = NoItem /\ RemoveStoredFile(i)
  BY <1>1, <1>2 DEF FilesInv, UploadInv, Sound, Staging, ReplayOrRefuse, Discard
<1>4. /\ dirs' = [j \in Items |-> dirs'[j]] /\ \A j \in Items : IsDir(dirs'[j])
      /\ \A j \in Items \ {i} : dirs'[j] = dirs[j]
      /\ strays \in SUBSET strays' /\ strays' \in SUBSET Items
      /\ dirs'[i] = NoDir \/ (dirs'[i] = dirs[i] /\ i \in strays')
  BY <1>3, RemovedDir DEF FilesInv
<1>5. FileAt(i)'
  BY <1>1, <1>3, NoItemType DEF FileAt
<1>6. \A j \in Items : SameRow(item[j], item'[j])
  BY <1>1 DEF SameRow
<1>7. FilesInv'
  BY <1>1, <1>2, <1>3, <1>4, <1>5, <1>6, EndMove
<1> QED
  BY <1>1, <1>2, <1>3, <1>7, EndShift

LEMMA ResolveStep ==
  ASSUME RowInv, FilesInv, RowInv', NEW r \in Requests, NEW answered \in BOOLEAN,
         resolveFileCommit(r, answered)
  PROVE  /\ FilesInv' /\ Shift(r, {"unsure"}, {"idle"})
         /\ req[r].item \in Items /\ (UNCHANGED dirs \/ RemoveStoredFile(req[r].item))
<1>1. /\ req[r].pc = "unsure" /\ req' = [req EXCEPT ![r] = Idle] /\ UNCHANGED <<item, debris, crashes>>
      /\ Settle(r, answered)
  BY DEF resolveFileCommit, End
<1>2. PICK i : i = req[r].item
  OBVIOUS
<1>3. /\ i \in Items /\ req[r].manual \in Manuals /\ req[r].key \in Keys
      /\ item[i] = NoItem \/ (item[i].manual = req[r].manual /\ item[i].key = req[r].key)
  BY <1>1, <1>2 DEF FilesInv, UploadInv, Sound, Staging, RowOf
<1>4. UploadTypes /\ FileAt(i)
  BY <1>3 DEF FilesInv
<1>5. \A j \in Items : SameRow(item[j], item'[j])
  BY <1>1 DEF SameRow
<1>6. CASE UNCHANGED dirs /\ strays' = IF item[i] = NoItem THEN strays \cup {i} ELSE strays
  <2>1. /\ dirs' = [j \in Items |-> dirs'[j]] /\ \A j \in Items : IsDir(dirs'[j])
        /\ strays \in SUBSET strays' /\ strays' \in SUBSET Items
    BY <1>3, <1>4, <1>6 DEF UploadTypes
  <2>2. FileAt(i)'
    BY <1>1, <1>4, <1>6 DEF FileAt, HasFiles
  <2>3. FilesInv'
    BY <1>1, <1>2, <1>3, <1>5, <1>6, <2>1, <2>2, EndMove
  <2> QED
    BY <1>1, <1>2, <1>3, <1>6, <2>3, EndShift
<1>7. CASE Find(req[r].manual, req[r].key) = {i} /\ UNCHANGED <<dirs, strays>>
  <2>1. item[i] # NoItem
    BY <1>3, <1>7, NoItemType, Bounds DEF Find, Rows
  <2> QED
    BY <1>6, <1>7, <2>1
<1>8. CASE Find(req[r].manual, req[r].key) # {i} /\ RemoveStoredFile(i)
  <2>1. item[i] = NoItem
    <3> SUFFICES ASSUME item[i].manual = req[r].manual /\ item[i].key = req[r].key
                 PROVE  Find(req[r].manual, req[r].key) = {i}
      BY <1>3, <1>8
    <3>1. i \in Find(req[r].manual, req[r].key)
      BY <1>3 DEF Find, Rows
    <3>2. ASSUME NEW j \in Find(req[r].manual, req[r].key) PROVE j = i
      BY <1>3, <3>1 DEF Find, RowInv, OneRowPerRequest
    <3> QED
      BY <3>1, <3>2
  <2>2. /\ dirs' = [j \in Items |-> dirs'[j]] /\ \A j \in Items : IsDir(dirs'[j])
        /\ \A j \in Items \ {i} : dirs'[j] = dirs[j]
        /\ strays \in SUBSET strays' /\ strays' \in SUBSET Items
        /\ dirs'[i] = NoDir \/ (dirs'[i] = dirs[i] /\ i \in strays')
    BY <1>3, <1>4, <1>8, RemovedDir
  <2>3. FileAt(i)'
    BY <1>1, <2>1, NoItemType DEF FileAt
  <2>4. FilesInv'
    BY <1>1, <1>2, <1>3, <1>5, <2>2, <2>3, EndMove
  <2> QED
    BY <1>1, <1>2, <1>3, <1>8, <2>4, EndShift
<1> QED
  BY <1>1, <1>2, <1>6, <1>7, <1>8 DEF Settle

\* At most one directory is new, and it is no larger than what was set aside for it.
Renamed ==
  \/ UNCHANGED dirs
  \/ \E i \in Items : /\ \A j \in Items \ {i} : dirs'[j] = dirs[j]
                      /\ dirs[i] = NoDir /\ dirs'[i].bytes \in Nat /\ dirs'[i].bytes <= Unit

LEMMA RenameStep ==
  ASSUME RowInv, FilesInv, RowInv', NEW r \in Requests, Rename(r)
  PROVE  FilesInv' /\ Shift(r, {"inspected"}, {"stored"}) /\ Renamed
<1>1. /\ req[r].pc = "inspected" /\ UNCHANGED <<item, strays, debris, crashes>>
      /\ req' = [req EXCEPT ![r].pc = "stored"]
  BY DEF Rename
<1>2. PICK u : u = req[r]
  OBVIOUS
<1>3. PICK x : x = AtStep(u, "stored")
  OBVIOUS
<1>4. PICK i : i = u.item
  OBVIOUS
<1>5. /\ u \in Uploads /\ i \in Items /\ u.body \in Bodies /\ u.key \in Keys /\ u.manual \in Manuals
      /\ dirs[i] = NoDir /\ item[i] = NoItem /\ UploadTypes
  BY <1>1, <1>2, <1>4 DEF FilesInv, UploadTypes, UploadInv, Sound, Staging
<1>6. /\ x \in Uploads /\ x.pc = "stored" /\ x.manual = u.manual /\ x.key = u.key /\ x.body = u.body
      /\ x.item = i /\ x.preview = u.preview
  BY <1>3, <1>4, <1>5, AtStepType DEF Steps
<1>7. Moved(r, x)
  BY <1>1, <1>2, <1>3 DEF Moved, AtStep
<1> DEFINE d == [bytes |-> Bytes(u.body, u.preview), thumb |-> u.preview = "ready"]
<1>8. /\ IsDir(d) /\ d.bytes > 0 /\ d.bytes \in Nat /\ d.bytes <= Unit /\ (u.preview = "ready" => d.thumb = TRUE)
  <2>1. /\ Bytes(u.body, u.preview) \in Nat /\ Bytes(u.body, u.preview) > 0
        /\ Bytes(u.body, u.preview) <= Unit
    BY <1>5, BodyTypes, Bounds DEF Bytes, Unit
  <2> QED
    BY <2>1 DEF IsDir
<1>9. /\ dirs' = [j \in Items |-> dirs'[j]] /\ \A j \in Items : IsDir(dirs'[j])
      /\ \A j \in Items \ {i} : dirs'[j] = dirs[j]
      /\ IF u.body.kind = "text" THEN UNCHANGED dirs ELSE dirs'[i] = d
  <2>1. dirs' = IF u.body.kind = "text" THEN dirs ELSE [dirs EXCEPT ![i] = d]
    BY <1>2, <1>4 DEF Rename
  <2> HIDE DEF d
  <2> QED
    BY <1>5, <1>8, <2>1 DEF UploadTypes
<1> HIDE DEF d
<1>10. u.body.kind # "text" => HasFiles(i, u.preview)'
  BY <1>8, <1>9, NoDirType DEF HasFiles
<1>11. Sound(x)'
  BY <1>1, <1>5, <1>6, <1>10 DEF Sound, Staging, HasFiles
<1>12. \A q \in Requests \ {r} : req[q].item = i => i = None
  BY <1>2, <1>4, <1>5, Bounds DEF FilesInv, OwnIds
<1>13. FileAt(i)'
  BY <1>1, <1>5, NoItemType DEF FileAt
<1>14. OrphanAt(i)'
  BY <1>5, <1>6, <1>7, MovedType DEF OrphanAt
<1>15. \A j \in Items : SameRow(item[j], item'[j])
  BY <1>1 DEF SameRow
<1>16. strays \in SUBSET strays' /\ strays' \in SUBSET Items
  BY <1>1, <1>5 DEF UploadTypes
<1>17. req[r].pc \in {"stored", "unsure"} => req[r].item = i
  BY <1>2, <1>4
<1>18. FilesInv'
  BY <1>1, <1>6, <1>7, <1>9, <1>11, <1>12, <1>13, <1>14, <1>15, <1>16, <1>17, UploadMoves
<1>19. Shift(r, {"inspected"}, {"stored"})
  BY <1>1, <1>6, <1>7 DEF Shift
<1> QED
  BY <1>5, <1>8, <1>9, <1>18, <1>19 DEF Renamed

LEMMA CommitStep ==
  ASSUME RowInv, FilesInv, NEW r \in Requests, NEW heard \in BOOLEAN, Commit(r, heard)
  PROVE  /\ FilesInv' /\ RowInv'
         /\ IF heard THEN Shift(r, {"stored"}, {"idle"}) ELSE Shift(r, {"stored"}, {"unsure"})
<1>1. PICK u : u = req[r]
  OBVIOUS
<1>2. PICK i : i = u.item
  OBVIOUS
<1>3. /\ u.pc = "stored" /\ UNCHANGED <<dirs, strays, debris, crashes>>
      /\ Insert(u.manual, i, u.key, u.body, u.preview)
      /\ IF heard THEN req' = [req EXCEPT ![r] = Idle] ELSE req' = [req EXCEPT ![r].pc = "unsure"]
  BY <1>1, <1>2 DEF Commit, End
<1>4. /\ u \in Uploads /\ i \in Items /\ u.body \in Bodies /\ u.key \in Keys /\ u.manual \in Manuals
      /\ item[i] = NoItem /\ UploadTypes /\ (u.body.kind # "text" => HasFiles(i, u.preview))
      /\ u.preview \in Previews
  BY <1>1, <1>2, <1>3 DEF FilesInv, UploadTypes, UploadInv, Sound, Staging, Uploads
<1>5. /\ RowInv'
      /\ \E y : Appended(u.manual, i, y) /\ y.key = u.key /\ y.body = u.body /\ y.preview = u.preview
  BY <1>3, <1>4, InsertStep
<1>6. PICK y : Appended(u.manual, i, y) /\ y.key = u.key /\ y.body = u.body /\ y.preview = u.preview
  BY <1>5
<1>7. y.manual = u.manual /\ item'[i] = y /\ \A j \in Items \ {i} : item'[j] = item[j]
  <2>1. RowTypes
    BY DEF RowInv
  <2>2. y.manual = u.manual
    BY <1>6 DEF Appended
  <2> QED
    BY <1>4, <1>6, <2>1, <2>2, AppendRows
<1>8. item'[i] # NoItem /\ \A j \in Items \ {i} : SameRow(item[j], item'[j])
  BY <1>4, <1>7, NoItemType, Bounds DEF SameRow
<1>9. FileAt(i)'
  BY <1>3, <1>4, <1>6, <1>7 DEF FileAt, HasFiles
<1>10. /\ dirs' = [j \in Items |-> dirs'[j]] /\ \A j \in Items : IsDir(dirs'[j])
       /\ strays \in SUBSET strays' /\ strays' \in SUBSET Items
  BY <1>3, <1>4 DEF UploadTypes
<1>11. CASE heard
  <2>1. FilesInv'
    BY <1>1, <1>2, <1>3, <1>4, <1>5, <1>8, <1>9, <1>10, <1>11, EndMove
  <2> QED
    BY <1>1, <1>3, <1>5, <1>11, <2>1, EndShift
<1>12. CASE ~heard
  <2>1. PICK x : x = AtStep(u, "unsure")
    OBVIOUS
  <2>2. /\ x \in Uploads /\ x.pc = "unsure" /\ x.manual = u.manual /\ x.key = u.key /\ x.body = u.body
        /\ x.item = i /\ x.preview = u.preview
    BY <1>2, <1>4, <2>1, AtStepType DEF Steps
  <2>3. Moved(r, x)
    BY <1>1, <1>3, <1>12, <2>1 DEF Moved, AtStep
  <2>4. Sound(x)'
    BY <1>4, <1>6, <1>7, <2>2 DEF Sound, Staging, RowOf
  <2>5. OrphanAt(i)'
    BY <1>8 DEF OrphanAt
  <2>6. \A q \in Requests \ {r} : req[q].item = i => i = None
    BY <1>1, <1>2, <1>4, Bounds DEF FilesInv, OwnIds
  <2>7. FilesInv'
    BY <1>1, <1>2, <1>3, <1>5, <1>8, <1>9, <1>10, <2>2, <2>3, <2>4, <2>5, <2>6, UploadMoves
  <2> QED
    BY <1>1, <1>3, <1>5, <1>12, <2>2, <2>3, <2>7 DEF Shift
<1> QED
  BY <1>11, <1>12

\* The owner's own steps.
LEMMA OwnerStep ==
  ASSUME RowInv, FilesInv, Owner
  PROVE  RowInv' /\ FilesInv' /\ UNCHANGED <<req, dirs, reserved, debris>>
<1>0. PICK m \in Manuals :
        \/ \E key \in Keys, body \in Bodies : Create(m, key, body)
        \/ \E i \in Items, key \in Keys, body \in Bodies : AddInline(m, i, key, body)
        \/ \E status \in {"keep", "draft", "active"}, cover \in Items \cup {None, "keep"},
              order \in Orders(m) : Update(m, status, cover, order)
        \/ Delete(m)
        \/ \E i \in Items : DeleteItem(m, i)
  BY DEF Owner
<1> DEFINE Rest == UNCHANGED <<req, dirs, reserved, debris, strays, crashes>>
<1>1. ASSUME RowInv', Rest, \A j \in Items : SameRow(item[j], item'[j]) PROVE FilesInv'
  <2>1. None \notin Items /\ \A q \in Requests : req[q].item = None => None = None
    BY Bounds
  <2> QED
    BY <1>1, <2>1, OwnerMoves
<1>2. ASSUME UNCHANGED item PROVE \A j \in Items : SameRow(item[j], item'[j])
  BY <1>2 DEF SameRow
<1>3. CASE \E key \in Keys, body \in Bodies : Create(m, key, body)
  <2>1. PICK key \in Keys, body \in Bodies : Create(m, key, body)
    BY <1>3
  <2>2. RowInv' /\ Rest /\ UNCHANGED item
    BY <2>1, CreateStep DEF Create
  <2> QED
    BY <1>1, <1>2, <2>2
<1>4. CASE \E i \in Items, key \in Keys, body \in Bodies : AddInline(m, i, key, body)
  <2>1. PICK i \in Items, key \in Keys, body \in Bodies : AddInline(m, i, key, body)
    BY <1>4
  <2>2. /\ body.kind = "text" /\ item[i] = NoItem /\ \A q \in Requests : req[q].item # i
        /\ Insert(m, i, key, body, "none") /\ Rest
    BY <2>1 DEF AddInline, Fresh
  <2>3. "none" \in Previews
    BY DEF Previews
  <2>4. RowInv' /\ \E x : Appended(m, i, x) /\ x.key = key /\ x.body = body /\ x.preview = "none"
    BY <2>2, <2>3, InsertStep
  <2>5. PICK x : Appended(m, i, x) /\ x.body = body
    BY <2>4
  <2>6. x.manual = m /\ item'[i] = x /\ \A j \in Items \ {i} : item'[j] = item[j]
    <3>1. RowTypes
      BY DEF RowInv
    <3>2. x.manual = m
      BY <2>5 DEF Appended
    <3> QED
      BY <2>5, <3>1, <3>2, AppendRows
  <2>7. FileAt(i)' /\ item'[i] # NoItem
    BY <2>2, <2>5, <2>6, NoItemType, Bounds DEF FileAt
  <2>8. \A j \in Items \ {i} : SameRow(item[j], item'[j])
    BY <2>6 DEF SameRow
  <2>9. FilesInv'
    BY <2>2, <2>4, <2>7, <2>8, OwnerMoves
  <2> QED
    BY <2>2, <2>4, <2>9
<1>5. CASE \E status \in {"keep", "draft", "active"}, cover \in Items \cup {None, "keep"},
              order \in Orders(m) : Update(m, status, cover, order)
  <2>1. PICK status \in {"keep", "draft", "active"}, cover \in Items \cup {None, "keep"},
             order \in Orders(m) : Update(m, status, cover, order)
    BY <1>5
  <2>2. RowInv' /\ Rest /\ \A j \in Items : SameRow(item[j], item'[j])
    BY <2>1, UpdateStep DEF Update
  <2> QED
    BY <1>1, <2>2
<1>6. CASE Delete(m)
  <2>1. RowInv' /\ Rest /\ UNCHANGED item
    BY <1>6, DeleteStep DEF Delete
  <2> QED
    BY <1>1, <1>2, <2>1
<1>7. CASE \E i \in Items : DeleteItem(m, i)
  <2>1. PICK i \in Items : DeleteItem(m, i)
    BY <1>7
  <2>2. RowInv' /\ Rest /\ \A j \in Items : SameRow(item[j], item'[j])
    BY <2>1, DeleteItemStep DEF DeleteItem
  <2> QED
    BY <1>1, <2>2
<1> QED
  BY <1>0, <1>3, <1>4, <1>5, <1>6, <1>7

\* Steps that leave manuals and items alone.
LEMMA RowsKept ==
  ASSUME RowInv, UNCHANGED <<manual, item>>
  PROVE  RowInv'
<1>1. \A m : Rows(m)' = Rows(m) /\ Active(m)' = Active(m)
  BY DEF Rows, Active
<1>2. \A m \in Manuals : OrderInv(m)' /\ CoverInv(m)'
  BY <1>1 DEF RowInv, OrderInv, CoverInv
<1>3. RowTypes' /\ OneRowPerRequest'
  BY <1>1 DEF RowInv, RowTypes, OneRowPerRequest
<1> QED
  BY <1>2, <1>3 DEF RowInv

\* The steps of an upload, by the steps of the handler they lead between.
UploadShift(r) ==
  \/ Shift(r, {"idle"}, {"checked"}) /\ UNCHANGED <<dirs, reserved, debris>>
  \/ AcquireUpload(r) /\ Shift(r, {"checked"}, {"reserved"})
  \/ Shift(r, {"reserved"}, {"staged"}) /\ UNCHANGED <<dirs, reserved, debris>>
  \/ Shift(r, Staging, Staging) /\ UNCHANGED <<dirs, reserved, debris>>
  \/ Rename(r) /\ Renamed /\ Shift(r, {"inspected"}, {"stored"})
  \/ Shift(r, {"checked"}, {"idle"}) /\ UNCHANGED <<dirs, reserved, debris>>
  \/ Shift(r, Staging \cup {"reserved"}, {"idle"}) /\ End(r) /\ UNCHANGED <<dirs, debris>>
  \/ Shift(r, {"stored"}, {"unsure"}) /\ UNCHANGED <<dirs, reserved, debris>>
  \/ /\ Shift(r, {"stored", "unsure"}, {"idle"}) /\ End(r) /\ UNCHANGED debris
     /\ UNCHANGED dirs \/ \E i \in Items : RemoveStoredFile(i)

LEMMA ShiftWider ==
  ASSUME NEW r, NEW from, NEW to, NEW wide, from \in SUBSET wide, Shift(r, from, to)
  PROVE  Shift(r, wide, to)
  BY DEF Shift

LEMMA UploadStep ==
  ASSUME RowInv, FilesInv, NEW r \in Requests, Upload(r)
  PROVE  RowInv' /\ FilesInv' /\ UploadShift(r)
<1>1. CASE \E m \in Manuals : CheckUploadOwner(r, m)
  <2>1. PICK m \in Manuals : CheckUploadOwner(r, m)
    BY <1>1
  <2>2. RowInv' /\ UNCHANGED <<dirs, reserved, debris>>
    BY <2>1, RowsKept DEF CheckUploadOwner
  <2> QED
    BY <2>1, <2>2, CheckStep DEF UploadShift
<1>2. CASE AcquireUpload(r)
  <2>1. RowInv'
    BY <1>2, RowsKept DEF AcquireUpload
  <2> QED
    BY <1>2, <2>1, AcquireStep DEF UploadShift
<1>3. CASE \E i \in Items, key \in Keys, body \in Bodies : WriteOriginal(r, i, key, body)
  <2>1. PICK i \in Items, key \in Keys, body \in Bodies : WriteOriginal(r, i, key, body)
    BY <1>3
  <2>2. RowInv' /\ UNCHANGED <<dirs, reserved, debris>>
    BY <2>1, RowsKept DEF WriteOriginal
  <2> QED
    BY <2>1, <2>2, WriteStep DEF UploadShift
<1>4. CASE Inspect(r)
  <2>1. UNCHANGED <<manual, item, dirs, reserved, debris>>
    BY <1>4 DEF Inspect, EnterGate, Thumbnail, RenderPDFPreview, ReadPlainText
  <2>2. RowInv'
    BY <2>1, RowsKept
  <2> QED
    BY <1>4, <2>1, <2>2, InspectStep DEF UploadShift
<1>5. CASE Rename(r)
  <2>1. RowInv'
    BY <1>5, RowsKept DEF Rename
  <2> QED
    BY <1>5, <2>1, RenameStep DEF UploadShift
<1>6. CASE AbandonUpload(r)
  <2>1. RowInv' /\ UNCHANGED <<dirs, debris>>
    BY <1>6, RowsKept DEF AbandonUpload
  <2>2. FilesInv' /\ Shift(r, Steps \ {"idle", "stored", "unsure"}, {"idle"})
    BY <1>6, <2>1, AbandonStep
  <2>3. CASE req[r].pc = "checked"
    <3>1. Shift(r, {"checked"}, {"idle"}) /\ UNCHANGED reserved
      BY <1>6, <2>2, <2>3 DEF Shift, AbandonUpload
    <3> QED
      BY <2>1, <2>2, <3>1 DEF UploadShift
  <2>4. CASE req[r].pc # "checked"
    <3>1. Shift(r, Staging \cup {"reserved"}, {"idle"}) /\ End(r)
      BY <1>6, <2>2, <2>4 DEF Shift, AbandonUpload, Steps, Staging
    <3> QED
      BY <2>1, <2>2, <3>1 DEF UploadShift
  <2> QED
    BY <2>3, <2>4
<1>7. CASE \E heard \in BOOLEAN : Commit(r, heard)
  <2>1. PICK heard \in BOOLEAN : Commit(r, heard)
    BY <1>7
  <2>2. /\ FilesInv' /\ RowInv' /\ UNCHANGED <<dirs, debris>>
        /\ IF heard THEN Shift(r, {"stored"}, {"idle"}) ELSE Shift(r, {"stored"}, {"unsure"})
    BY <2>1, CommitStep DEF Commit
  <2>3. CASE heard
    <3>1. End(r)
      BY <2>1, <2>3 DEF Commit
    <3>2. Shift(r, {"stored", "unsure"}, {"idle"})
      BY <2>2, <2>3, ShiftWider
    <3> QED
      BY <2>2, <3>1, <3>2 DEF UploadShift
  <2>4. CASE ~heard
    <3>1. UNCHANGED reserved
      BY <2>1, <2>4 DEF Commit
    <3> QED
      BY <2>2, <2>4, <3>1 DEF UploadShift
  <2> QED
    BY <2>3, <2>4
<1>8. CASE ReplayOrRefuse(r)
  <2>1. RowInv' /\ UNCHANGED debris /\ End(r)
    BY <1>8, RowsKept DEF ReplayOrRefuse
  <2>2. FilesInv' /\ Shift(r, {"stored"}, {"idle"}) /\ \E i \in Items : RemoveStoredFile(i)
    BY <1>8, <2>1, ReplayStep
  <2>3. Shift(r, {"stored", "unsure"}, {"idle"})
    BY <2>2, ShiftWider
  <2> QED
    BY <2>1, <2>2, <2>3 DEF UploadShift
<1>9. CASE LoseCommit(r)
  <2>1. RowInv' /\ UNCHANGED <<dirs, reserved, debris>>
    BY <1>9, RowsKept DEF LoseCommit
  <2> QED
    BY <1>9, <2>1, LoseStep DEF UploadShift
<1>10. CASE \E answered \in BOOLEAN : resolveFileCommit(r, answered)
  <2>0. PICK answered \in BOOLEAN : resolveFileCommit(r, answered)
    BY <1>10
  <2>1. RowInv' /\ UNCHANGED debris /\ End(r)
    BY <2>0, RowsKept DEF resolveFileCommit
  <2>2. /\ FilesInv' /\ Shift(r, {"unsure"}, {"idle"})
        /\ UNCHANGED dirs \/ \E i \in Items : RemoveStoredFile(i)
    BY <2>0, <2>1, ResolveStep
  <2>3. Shift(r, {"stored", "unsure"}, {"idle"})
    BY <2>2, ShiftWider
  <2> QED
    BY <2>1, <2>2, <2>3 DEF UploadShift
<1> QED
  BY <1>1, <1>2, <1>3, <1>4, <1>5, <1>6, <1>7, <1>8, <1>9, <1>10 DEF Upload

-----------------------------------------------------------------------------
(* Reservations and the disk *)

StagedBytes == [r \in Requests |-> StagingBytes(r)]

LEMMA StagedSum == Staged = SumOf(StagedBytes, Requests)
<1> DEFINE IsStaged(g) == g = [s \in SUBSET Requests |->
                            IF s = {} THEN 0 ELSE StagingBytes(Pick(s)) + g[s \ {Pick(s)}]]
<1>0. IsFiniteSet(Requests)
  BY Bounds
<1>1. Staged = (CHOOSE g : IsStaged(g))[Requests]
  BY DEF Staged, MapThenSumSet, MapThenFoldSet, Pick
<1>2. ASSUME NEW g PROVE IsStaged(g) <=> IsSum(StagedBytes, g, Requests)
  <2>1. ASSUME NEW s \in SUBSET Requests
        PROVE  SumEntry(StagedBytes, g, s) = IF s = {} THEN 0 ELSE StagingBytes(Pick(s)) + g[s \ {Pick(s)}]
    BY PickIn DEF SumEntry, StagedBytes
  <2> QED
    BY <2>1, Zenon DEF IsSum
<1>3. PICK g : IsSum(StagedBytes, g, Requests) /\ SumOf(StagedBytes, Requests) = g[Requests]
  BY <1>0, SumIsSolution
<1>4. IsStaged(g)
  BY <1>2, <1>3, Zenon
<1> DEFINE h == CHOOSE k : IsStaged(k)
<1>5. IsStaged(h)
  BY <1>4, Zenon
<1> HIDE DEF IsStaged
<1>6. IsSum(StagedBytes, h, Requests)
  BY <1>2, <1>5, Zenon
<1> HIDE DEF h
<1>7. h[Requests] = g[Requests]
  BY <1>0, <1>3, <1>6, SolutionsAgree
<1> QED
  BY <1>1, <1>3, <1>7 DEF h

\* DiskFreeBytes, with its sums.
FreeBytes == DiskBytes - debris - SumOf(StagedBytes, Requests) - SumOf(DirBytes, Items)

LEMMA FreeSum == DiskFreeBytes = FreeBytes
<1> DEFINE D == MapThenSumSet(LAMBDA i : dirs[i].bytes, Items)
           IsDirs(g) == g = [s \in SUBSET Items |->
                            IF s = {} THEN 0 ELSE dirs[Pick(s)].bytes + g[s \ {Pick(s)}]]
<1>0. IsFiniteSet(Items)
  BY Bounds
<1>1. D = (CHOOSE g : IsDirs(g))[Items]
  BY DEF MapThenSumSet, MapThenFoldSet, Pick
<1>2. ASSUME NEW g PROVE IsDirs(g) <=> IsSum(DirBytes, g, Items)
  <2>1. ASSUME NEW s \in SUBSET Items
        PROVE  SumEntry(DirBytes, g, s) = IF s = {} THEN 0 ELSE dirs[Pick(s)].bytes + g[s \ {Pick(s)}]
    BY PickIn DEF SumEntry, DirBytes
  <2> QED
    BY <2>1, Zenon DEF IsSum
<1>3. PICK g : IsSum(DirBytes, g, Items) /\ SumOf(DirBytes, Items) = g[Items]
  BY <1>0, SumIsSolution
<1>4. IsDirs(g)
  BY <1>2, <1>3, Zenon
<1> DEFINE h == CHOOSE k : IsDirs(k)
<1>5. IsDirs(h)
  BY <1>4, Zenon
<1> HIDE DEF IsDirs
<1>6. IsSum(DirBytes, h, Items)
  BY <1>2, <1>5, Zenon
<1> HIDE DEF h
<1>7. h[Items] = g[Items]
  BY <1>0, <1>3, <1>6, SolutionsAgree
<1>8. D = SumOf(DirBytes, Items)
  BY <1>1, <1>3, <1>7 DEF h
<1>9. DiskFreeBytes = DiskBytes - debris - Staged - D
  BY DEF DiskFreeBytes
<1> HIDE DEF D
<1> QED
  BY <1>8, <1>9, StagedSum DEF FreeBytes

LEMMA UnitType == Unit \in Nat /\ Unit > 0
  BY Bounds DEF Unit

LEMMA RequestSets ==
  ASSUME NEW S \in SUBSET Requests
  PROVE  IsFiniteSet(S) /\ Cardinality(S) \in Nat /\ Unit * Cardinality(S) \in Nat
<1>1. IsFiniteSet(S) /\ Cardinality(S) \in Nat
  BY Bounds, FS_Subset, FS_CardinalityType
<1> QED
  BY <1>1, UnitType

LEMMA UnitMore ==
  ASSUME NEW n \in Nat, NEW u \in Nat
  PROVE  u * (n + 1) = u * n + u /\ u * n \in Nat
  OBVIOUS

LEMMA Joins ==
  ASSUME NEW S \in SUBSET Requests, NEW r \in Requests, r \notin S
  PROVE  Unit * Cardinality(S \cup {r}) = Unit * Cardinality(S) + Unit
<1>1. Cardinality(S \cup {r}) = Cardinality(S) + 1 /\ Cardinality(S) \in Nat
  BY RequestSets, FS_AddElement
<1> QED
  BY <1>1, UnitMore, UnitType

LEMMA Leaves ==
  ASSUME NEW S \in SUBSET Requests, NEW r \in S
  PROVE  Unit * Cardinality(S) = Unit * Cardinality(S \ {r}) + Unit
<1>1. (S \ {r}) \cup {r} = S /\ S \ {r} \in SUBSET Requests /\ r \in Requests
  OBVIOUS
<1>2. Unit * Cardinality((S \ {r}) \cup {r}) = Unit * Cardinality(S \ {r}) + Unit
  BY <1>1, Joins
<1> QED
  BY <1>1, <1>2

LEMMA StagedType ==
  ASSUME FilesInv
  PROVE  \A r \in Requests : /\ StagedBytes[r] \in Nat /\ StagedBytes[r] <= Unit
                             /\ r \notin Holding => StagedBytes[r] = 0
<1> SUFFICES ASSUME NEW r \in Requests
             PROVE  /\ StagingBytes(r) \in Nat /\ StagingBytes(r) <= Unit
                    /\ r \notin Holding => StagingBytes(r) = 0
  BY DEF StagedBytes
<1>1. CASE req[r].pc \in Staging
  <2>1. req[r].body \in Bodies /\ r \in Holding
    BY <1>1 DEF FilesInv, UploadInv, Sound, Holding
  <2>2. /\ req[r].body.size \in Nat /\ req[r].body.size <= MaxFileBytes
        /\ MaxFileBytes \in Nat /\ PDFPreviewOutputLimitBytes \in Nat
    BY <2>1, BodyTypes, Bounds
  <2>3. StagingBytes(r) = req[r].body.size \/ StagingBytes(r) = req[r].body.size + PDFPreviewOutputLimitBytes
    BY <1>1, <2>2 DEF StagingBytes, Staging, Bytes
  <2> QED
    BY <2>1, <2>2, <2>3 DEF Unit
<1>2. CASE req[r].pc \notin Staging
  BY <1>2, UnitType DEF StagingBytes, Staging
<1> QED
  BY <1>1, <1>2

\* What is staged was set aside.
LEMMA StagedBound ==
  ASSUME FilesInv
  PROVE  SumOf(StagedBytes, Requests) \in Nat /\ SumOf(StagedBytes, Requests) <= Unit * Cardinality(Holding)
<1> DEFINE H == Holding
           R == Requests \ Holding
<1>1. H \in SUBSET Requests /\ R \in SUBSET Requests /\ H \cap R = {} /\ H \cup R = Requests
  BY DEF Holding
<1>2. \A r \in Requests : /\ StagedBytes[r] \in Nat /\ StagedBytes[r] <= Unit
                          /\ r \notin H => StagedBytes[r] = 0
  BY StagedType
<1>3. \A r \in R : StagedBytes[r] = 0
  BY <1>2
<1> HIDE DEF H, R
<1>4. IsFiniteSet(H) /\ IsFiniteSet(R) /\ IsFiniteSet(Requests) /\ Cardinality(H) \in Nat
  BY <1>1, RequestSets, Bounds
<1>5. SumOf(StagedBytes, H \cup R) = SumOf(StagedBytes, H) + SumOf(StagedBytes, R)
  BY <1>1, <1>2, <1>4, SumUnion
<1>6. SumOf(StagedBytes, R) = 0
  BY <1>3, <1>4, SumNone
<1>7. SumOf(StagedBytes, H) <= Cardinality(H) * Unit
  BY <1>1, <1>2, <1>4, UnitType, SumBound
<1>8. SumOf(StagedBytes, H) \in Nat /\ SumOf(StagedBytes, Requests) \in Nat
  BY <1>1, <1>2, <1>4, SumType
<1>9. Cardinality(H) * Unit = Unit * Cardinality(H)
  BY <1>4, UnitType
<1> QED
  BY <1>1, <1>5, <1>6, <1>7, <1>8, <1>9 DEF H

LEMMA DirBytesType ==
  ASSUME FilesInv
  PROVE  (\A i \in Items : DirBytes[i] = dirs[i].bytes /\ DirBytes[i] \in Nat) /\ SumOf(DirBytes, Items) \in Nat
<1>1. \A i \in Items : DirBytes[i] = dirs[i].bytes /\ DirBytes[i] \in Nat
  BY DEF FilesInv, UploadTypes, IsDir, DirBytes
<1> QED
  BY <1>1, Bounds, SumType

\* One directory changes.
LEMMA DirChange ==
  ASSUME FilesInv, FilesInv', NEW i \in Items, \A j \in Items \ {i} : dirs'[j] = dirs[j]
  PROVE  SumOf(DirBytes', Items) = SumOf(DirBytes, Items) - dirs[i].bytes + dirs'[i].bytes
<1>1. \A j \in Items : DirBytes[j] = dirs[j].bytes /\ DirBytes[j] \in Nat
  BY DirBytesType
<1>2. \A j \in Items : DirBytes'[j] = dirs'[j].bytes /\ DirBytes'[j] \in Nat
  BY DEF FilesInv, UploadTypes, IsDir, DirBytes
<1>3. \A j \in Items \ {i} : DirBytes'[j] = DirBytes[j]
  BY <1>1, <1>2
<1>4. IsFiniteSet(Items)
  BY Bounds
<1>5. SumOf(DirBytes', Items) = SumOf(DirBytes, Items) - DirBytes[i] + DirBytes'[i]
  BY <1>1, <1>2, <1>3, <1>4, SumChange
<1> QED
  BY <1>1, <1>2, <1>5

LEMMA DirsKept ==
  ASSUME UNCHANGED dirs
  PROVE  DirBytes' = DirBytes
  BY DEF DirBytes

LEMMA Shifted ==
  ASSUME FilesInv, NEW r \in Requests, NEW from, NEW to, Shift(r, from, to)
  PROVE  req[r].pc \in from /\ req'[r].pc \in to /\ \A q \in Requests \ {r} : req'[q] = req[q]
  BY MovedType DEF FilesInv, Shift

\* The uploads that hold a reservation, or space, after a step of r.
LEMMA ShiftedSets ==
  ASSUME FilesInv, NEW r \in Requests, NEW from, NEW to, Shift(r, from, to)
  PROVE  /\ Reserving' = IF req'[r].pc \in {"idle", "checked"} THEN Reserving \ {r} ELSE Reserving \cup {r}
         /\ Holding' = IF req'[r].pc \in Staging \cup {"reserved"} THEN Holding \cup {r} ELSE Holding \ {r}
<1>1. \A q \in Requests \ {r} : req'[q] = req[q]
  BY Shifted
<1> QED
  BY <1>1 DEF Reserving, Holding

LEMMA ReserveSets ==
  Reserving \in SUBSET Requests /\ Holding \in SUBSET Requests /\ Holding \in SUBSET Reserving
  BY DEF Reserving, Holding, Staging

\* What is set aside fits what is reserved.
LEMMA HoldingReserved ==
  ASSUME ReserveInv
  PROVE  Unit * Cardinality(Holding) <= reserved /\ reserved \in Nat
<1>1. Cardinality(Holding) <= Cardinality(Reserving)
  BY ReserveSets, RequestSets, FS_Subset
<1>2. Cardinality(Holding) \in Nat /\ Cardinality(Reserving) \in Nat /\ Unit \in Nat
  BY ReserveSets, RequestSets, UnitType
<1>3. \A a, b, u \in Nat : a <= b => u * a <= u * b /\ u * b \in Nat
  OBVIOUS
<1> QED
  BY <1>1, <1>2, <1>3 DEF ReserveInv

\* An upload passes between steps that hold the same.
LEMMA Stays ==
  ASSUME FilesInv, FilesInv', NEW r \in Requests, NEW from, NEW to, Shift(r, from, to)
  PROVE  /\ (req[r].pc \in {"idle", "checked"} <=> req'[r].pc \in {"idle", "checked"})
              => Reserving' = Reserving
         /\ (req[r].pc \in Staging \cup {"reserved"} <=> req'[r].pc \in Staging \cup {"reserved"})
              => Holding' = Holding
<1>1. /\ Reserving' = IF req'[r].pc \in {"idle", "checked"} THEN Reserving \ {r} ELSE Reserving \cup {r}
      /\ Holding' = IF req'[r].pc \in Staging \cup {"reserved"} THEN Holding \cup {r} ELSE Holding \ {r}
  BY ShiftedSets
<1>2. (r \in Reserving <=> req[r].pc \notin {"idle", "checked"})
      /\ (r \in Holding <=> req[r].pc \in Staging \cup {"reserved"})
  BY DEF Reserving, Holding
<1> QED
  BY <1>1, <1>2

LEMMA ReserveStep ==
  ASSUME FilesInv, FilesInv', ReserveInv, NEW r \in Requests, UploadShift(r)
  PROVE  ReserveInv'
<1>0. ReserveInv /\ Reserving \in SUBSET Requests /\ Unit \in Nat
  BY ReserveSets, UnitType
<1>1. ASSUME NEW from, NEW to, Shift(r, from, to), UNCHANGED reserved,
             \A p \in from, q \in to : p \in {"idle", "checked"} <=> q \in {"idle", "checked"}
      PROVE  ReserveInv'
  <2>1. req[r].pc \in from /\ req'[r].pc \in to
    BY <1>1, Shifted
  <2>2. Reserving' = Reserving
    BY <1>1, <2>1, Stays
  <2> QED
    BY <1>0, <1>1, <2>2 DEF ReserveInv
<1>2. ASSUME NEW from, Shift(r, from, {"idle"}), End(r), from \cap {"idle", "checked"} = {}
      PROVE  ReserveInv'
  <2>1. req[r].pc \in from /\ req'[r].pc = "idle"
    BY <1>2, Shifted
  <2>2. Reserving' = Reserving \ {r} /\ r \in Reserving
    BY <1>2, <2>1, ShiftedSets DEF Reserving
  <2>3. reserved' = reserved - Unit
    BY <1>2 DEF End, Unit
  <2>4. Unit * Cardinality(Reserving) = Unit * Cardinality(Reserving \ {r}) + Unit
    BY <1>0, <2>2, Leaves
  <2>5. Unit * Cardinality(Reserving \ {r}) \in Nat
    BY <1>0, RequestSets
  <2>6. ASSUME NEW a \in Nat, NEW u \in Nat, NEW b, b = a + u, NEW c, c = b - u PROVE c = a
    BY <2>6
  <2>7. reserved' = Unit * Cardinality(Reserving \ {r})
    BY <1>0, <2>3, <2>4, <2>5, <2>6 DEF ReserveInv
  <2> QED
    BY <2>2, <2>7 DEF ReserveInv
<1>3. ASSUME Shift(r, {"checked"}, {"reserved"}), AcquireUpload(r)
      PROVE  ReserveInv'
  <2>1. req[r].pc = "checked" /\ req'[r].pc = "reserved"
    BY <1>3, Shifted
  <2>2. Reserving' = Reserving \cup {r} /\ r \notin Reserving
    BY <1>3, <2>1, ShiftedSets DEF Reserving
  <2>3. reserved' = reserved + Unit
    <3>1. reserved \in Nat /\ reserved' = reserved + MaxFileBytes + PDFPreviewOutputLimitBytes
      BY <1>3, HoldingReserved DEF AcquireUpload
    <3> QED
      BY <3>1, Bounds DEF Unit
  <2> QED
    BY <1>0, <2>2, <2>3, Joins DEF ReserveInv
<1>4. CASE Rename(r) /\ Shift(r, {"inspected"}, {"stored"})
  BY <1>1, <1>4 DEF Rename
<1>5. CASE Shift(r, Staging \cup {"reserved"}, {"idle"}) /\ End(r)
  BY <1>2, <1>5 DEF Staging
<1>6. CASE Shift(r, Staging, Staging) /\ UNCHANGED reserved
  BY <1>1, <1>6 DEF Staging
<1>7. CASE Shift(r, {"stored", "unsure"}, {"idle"}) /\ End(r)
  BY <1>2, <1>7
<1> QED
  BY <1>1, <1>3, <1>4, <1>5, <1>6, <1>7 DEF UploadShift

\* The budget of the disk, with a step of one upload.
LEMMA DiskStep ==
  ASSUME FilesInv, FilesInv', ReserveInv, DiskInv, NEW r \in Requests, UploadShift(r)
  PROVE  DiskInv'
<1> DEFINE h == Unit * Cardinality(Holding)
           d == SumOf(DirBytes, Items)
           k == Unit * Cardinality(Holding')
           e == SumOf(DirBytes', Items)
<1>0. /\ h \in Nat /\ d \in Nat /\ debris \in Nat /\ Unit \in Nat /\ MinFreeDiskBytes \in Nat
      /\ DiskBytes \in Nat
  BY ReserveSets, RequestSets, DirBytesType, UnitType, Bounds DEF FilesInv, UploadTypes
<1>1. debris + h + d + MinFreeDiskBytes <= DiskBytes
  BY DEF DiskInv
<1>2. ASSUME UNCHANGED debris, k \in Nat, e \in Nat, k + e <= h + d PROVE DiskInv'
  <2> HIDE DEF h, d
  <2>1. debris' + k + e + MinFreeDiskBytes <= DiskBytes
    <3> HIDE DEF k, e
    <3> QED
      BY <1>0, <1>1, <1>2
  <2> QED
    BY <2>1 DEF DiskInv
<1>3. Holding \in SUBSET Requests /\ Holding' \in SUBSET Requests
  BY DEF Holding
<1>4. k \in Nat
  BY <1>3, RequestSets
<1>5. e \in Nat
  <2>1. \A i \in Items : DirBytes'[i] \in Nat
    BY DEF FilesInv, UploadTypes, IsDir, DirBytes
  <2> QED
    BY <2>1, Bounds, SumType
\* Space is given up, or stays held.
<1>6. ASSUME NEW from, NEW to, Shift(r, from, to),
             \A q \in to : q \in Staging \cup {"reserved"} => from \in SUBSET (Staging \cup {"reserved"})
      PROVE  k <= h
  <2>1. req[r].pc \in from /\ req'[r].pc \in to
    BY <1>6, Shifted
  <2>2. Holding' = IF req'[r].pc \in Staging \cup {"reserved"} THEN Holding \cup {r} ELSE Holding \ {r}
    BY <1>6, ShiftedSets
  <2>3. Holding' = Holding \/ (r \in Holding /\ Holding' = Holding \ {r})
    BY <1>6, <2>1, <2>2 DEF Holding
  <2>4. CASE Holding' = Holding
    BY <1>0, <2>4
  <2>5. CASE r \in Holding /\ Holding' = Holding \ {r}
    <3>1. h = k + Unit
      BY <1>3, <2>5, Leaves
    <3> HIDE DEF h, k
    <3> QED
      BY <1>0, <1>4, <3>1
  <2> QED
    BY <2>3, <2>4, <2>5
<1>7. ASSUME UNCHANGED dirs PROVE e = d
  BY <1>7, DirsKept
<1>8. ASSUME NEW a \in Nat, NEW b \in Nat, NEW c \in Nat, NEW f \in Nat, a <= c, b <= f
      PROVE  a + b <= c + f
  BY <1>8
<1>9. ASSUME NEW from, NEW to, Shift(r, from, to), UNCHANGED <<dirs, debris>>,
             \A q \in to : q \in Staging \cup {"reserved"} => from \in SUBSET (Staging \cup {"reserved"})
      PROVE  DiskInv'
  <2>1. k <= h /\ e = d
    BY <1>6, <1>7, <1>9
  <2> HIDE DEF k, h, e, d
  <2>2. k + e <= h + d
    BY <1>0, <1>4, <2>1
  <2> QED
    BY <1>2, <1>4, <1>5, <1>9, <2>2
<1>10. CASE Shift(r, {"idle"}, {"checked"}) /\ UNCHANGED <<dirs, debris>>
  BY <1>9, <1>10 DEF Staging
<1>11. CASE Shift(r, {"reserved"}, {"staged"}) /\ UNCHANGED <<dirs, debris>>
  BY <1>9, <1>11 DEF Staging
<1>12. CASE Shift(r, Staging, Staging) /\ UNCHANGED <<dirs, debris>>
  BY <1>9, <1>12 DEF Staging
<1>13. CASE Shift(r, {"checked"}, {"idle"}) /\ UNCHANGED <<dirs, debris>>
  BY <1>9, <1>13 DEF Staging
<1>14. CASE Shift(r, Staging \cup {"reserved"}, {"idle"}) /\ UNCHANGED <<dirs, debris>>
  BY <1>9, <1>14 DEF Staging
<1>15. CASE Shift(r, {"stored"}, {"unsure"}) /\ UNCHANGED <<dirs, debris>>
  BY <1>9, <1>15 DEF Staging
<1>16. CASE Shift(r, {"stored", "unsure"}, {"idle"}) /\ UNCHANGED <<dirs, debris>>
  BY <1>9, <1>16 DEF Staging
<1>17. ASSUME Shift(r, {"stored", "unsure"}, {"idle"}), UNCHANGED debris,
              NEW i \in Items, RemoveStoredFile(i)
       PROVE  DiskInv'
  <2>1. k <= h
    BY <1>6, <1>17 DEF Staging
  <2>2. /\ \A j \in Items \ {i} : dirs'[j] = dirs[j]
        /\ dirs'[i] = NoDir \/ dirs'[i] = dirs[i]
    BY <1>17, RemovedDir DEF FilesInv
  <2>3. e = d - dirs[i].bytes + dirs'[i].bytes
    BY <1>17, <2>2, DirChange
  <2>4. dirs[i].bytes \in Nat
    BY <1>17, DirBytesType
  <2> HIDE DEF k, h, e, d
  <2>5. e <= d
    BY <1>0, <2>2, <2>3, <2>4, NoDirType
  <2>6. k + e <= h + d
    BY <1>0, <1>4, <1>5, <2>1, <2>5
  <2> QED
    BY <1>2, <1>4, <1>5, <1>17, <2>6
<1>18. ASSUME Rename(r), Renamed, Shift(r, {"inspected"}, {"stored"})
       PROVE  DiskInv'
  <2>1. req[r].pc = "inspected" /\ req'[r].pc = "stored"
    BY <1>18, Shifted
  <2>2. Holding' = Holding \ {r} /\ r \in Holding
    BY <1>18, <2>1, ShiftedSets DEF Holding, Staging
  <2>3. h = k + Unit
    BY <1>3, <2>2, Leaves
  <2>4. e <= d + Unit
    <3>1. CASE UNCHANGED dirs
      <4>1. e = d
        BY <1>7, <3>1
      <4> HIDE DEF e, d
      <4> QED
        BY <1>0, <4>1
    <3>2. ASSUME NEW i \in Items, \A j \in Items \ {i} : dirs'[j] = dirs[j],
                 dirs[i] = NoDir, dirs'[i].bytes \in Nat, dirs'[i].bytes <= Unit
          PROVE  e <= d + Unit
      <4>1. e = d - dirs[i].bytes + dirs'[i].bytes
        BY <3>2, DirChange
      <4> HIDE DEF e, d
      <4> QED
        BY <1>0, <3>2, <4>1, NoDirType
    <3> QED
      BY <1>18, <3>1, <3>2 DEF Renamed
  <2> HIDE DEF k, h, e, d
  <2>5. k + e <= h + d
    BY <1>0, <1>4, <1>5, <2>3, <2>4
  <2> QED
    BY <1>2, <1>4, <1>5, <1>18, <2>5 DEF Rename
<1>19. ASSUME AcquireUpload(r), Shift(r, {"checked"}, {"reserved"})
       PROVE  DiskInv'
  <2>1. req[r].pc = "checked" /\ req'[r].pc = "reserved"
    BY <1>19, Shifted
  <2>2. Holding' = Holding \cup {r} /\ r \notin Holding
    BY <1>19, <2>1, ShiftedSets DEF Holding, Staging
  <2>3. k = h + Unit
    BY <1>3, <2>2, Joins
  <2>4. e = d /\ UNCHANGED debris
    BY <1>7, <1>19 DEF AcquireUpload
  <2>5. PICK s : s = SumOf(StagedBytes, Requests)
    OBVIOUS
  <2>6. s \in Nat
    BY <2>5, StagedBound
  <2>7. h <= reserved /\ reserved \in Nat
    BY HoldingReserved
  <2>8. DiskBytes - debris - s - d - MinFreeDiskBytes - reserved >= Unit
    BY <1>19, <2>5, FreeSum DEF AcquireUpload, SpaceLeft, FreeBytes, Unit
  <2> HIDE DEF h, d
  <2>9. debris' + k + e + MinFreeDiskBytes <= DiskBytes
    <3> HIDE DEF k, e
    <3> QED
      BY <1>0, <2>3, <2>4, <2>6, <2>7, <2>8
  <2> QED
    BY <2>9 DEF DiskInv
<1> QED
  BY <1>10, <1>11, <1>12, <1>13, <1>14, <1>15, <1>16, <1>17, <1>18, <1>19 DEF UploadShift

\* A crash forgets the reservations; what it leaves on the disk was set aside.
LEMMA CrashBudget ==
  ASSUME FilesInv, FilesInv', ReserveInv, DiskInv, Crash
  PROVE  ReserveInv' /\ DiskInv'
<1>1. /\ req' = [r \in Requests |-> Idle] /\ reserved' = 0 /\ UNCHANGED dirs
      /\ debris' = debris + SumOf(StagedBytes, Requests)
  BY StagedSum DEF Crash
<1>2. Reserving' = {} /\ Holding' = {}
  BY <1>1, IdleType DEF Reserving, Holding, Staging
<1>3. Cardinality({}) = 0 /\ Unit * 0 = 0
  BY FS_EmptySet, UnitType
<1>4. ReserveInv'
  BY <1>1, <1>2, <1>3 DEF ReserveInv
<1> DEFINE h == Unit * Cardinality(Holding)
           d == SumOf(DirBytes, Items)
           s == SumOf(StagedBytes, Requests)
<1>5. /\ h \in Nat /\ d \in Nat /\ s \in Nat /\ s <= h /\ debris \in Nat
  BY ReserveSets, RequestSets, DirBytesType, StagedBound DEF FilesInv, UploadTypes
<1>6. debris + h + d + MinFreeDiskBytes <= DiskBytes /\ debris' = debris + s
  BY <1>1 DEF DiskInv
<1>7. DirBytes' = DirBytes
  BY <1>1, DirsKept
<1>8. Unit * Cardinality(Holding') = 0
  BY <1>2, <1>3
<1> HIDE DEF h, s
<1>9. debris' + 0 + d + MinFreeDiskBytes <= DiskBytes
  <2> HIDE DEF d
  <2> QED
    BY <1>5, <1>6, Bounds
<1>10. DiskInv'
  BY <1>7, <1>8, <1>9 DEF DiskInv
<1> QED
  BY <1>4, <1>10

\* Steps that hold and write nothing.
LEMMA BudgetKept ==
  ASSUME ReserveInv, DiskInv, UNCHANGED <<req, dirs, reserved, debris>>
  PROVE  ReserveInv' /\ DiskInv'
<1>1. Reserving' = Reserving /\ Holding' = Holding /\ DirBytes' = DirBytes
  BY DEF Reserving, Holding, DirBytes
<1> QED
  BY <1>1 DEF ReserveInv, DiskInv

-----------------------------------------------------------------------------
(* The owner's quota *)

Weights == [i \in Items |-> item[i].body.size]
Stored == {i \in Items : item[i].manual # None}
Live == {m \in Manuals : Exists(m)}

RowBytesAreSums == \A S \in SUBSET Items : SumBytes(S) = SumOf(Weights, S)

LEMMA RowBytesSum == RowBytesAreSums
<1> SUFFICES ASSUME NEW F \in SUBSET Items PROVE SumBytes(F) = SumOf(Weights, F)
  BY DEF RowBytesAreSums
<1> DEFINE IsBytes(g) == g = [s \in SUBSET F |->
                           IF s = {} THEN 0 ELSE item[Pick(s)].body.size + g[s \ {Pick(s)}]]
<1>0. IsFiniteSet(F)
  BY ItemSets
<1>1. SumBytes(F) = (CHOOSE g : IsBytes(g))[F]
  BY DEF SumBytes, MapThenSumSet, MapThenFoldSet, Pick
<1>2. ASSUME NEW g PROVE IsBytes(g) <=> IsSum(Weights, g, F)
  <2>1. ASSUME NEW s \in SUBSET F
        PROVE  SumEntry(Weights, g, s) = IF s = {} THEN 0 ELSE item[Pick(s)].body.size + g[s \ {Pick(s)}]
    BY PickIn DEF SumEntry, Weights
  <2> QED
    BY <2>1, Zenon DEF IsSum
<1>3. PICK g : IsSum(Weights, g, F) /\ SumOf(Weights, F) = g[F]
  BY <1>0, SumIsSolution
<1>4. IsBytes(g)
  BY <1>2, <1>3, Zenon
<1> DEFINE h == CHOOSE k : IsBytes(k)
<1>5. IsBytes(h)
  BY <1>4, Zenon
<1> HIDE DEF IsBytes
<1>6. IsSum(Weights, h, F)
  BY <1>2, <1>5, Zenon
<1> HIDE DEF h
<1>7. h[F] = g[F]
  BY <1>0, <1>3, <1>6, SolutionsAgree
<1> QED
  BY <1>1, <1>3, <1>7 DEF h

ItemQuota(m) ==
  Cardinality(Active(m)) <= MaxItemsPerManual /\ SumOf(Weights, Rows(m)) <= MaxManualBytes

QuotaInv ==
  /\ Cardinality(Live) <= MaxManualsPerUser
  /\ \A m \in Manuals : ItemQuota(m)
  /\ SumOf(Weights, Stored) <= MaxUserBytes

LEMMA WeightTypes ==
  ASSUME RowInv
  PROVE  /\ \A i \in Stored : Weights[i] = item[i].body.size /\ Weights[i] \in Nat
         /\ Stored \in SUBSET Items /\ \A m \in Manuals : Rows(m) \in SUBSET Stored
<1>1. \A i \in Stored : i \in Items /\ item[i].body \in Bodies
  BY DEF RowInv, RowTypes, IsItem, Stored
<1>2. \A i \in Stored : Weights[i] = item[i].body.size /\ Weights[i] \in Nat
  BY <1>1, BodyTypes DEF Weights
<1> QED
  BY <1>2, Bounds DEF Stored, Rows

LEMMA LiveSets ==
  ASSUME NEW S \in SUBSET Manuals
  PROVE  IsFiniteSet(S) /\ Cardinality(S) \in Nat
  BY Bounds, FS_Subset, FS_CardinalityType

\* Rows keep their bodies, and no item becomes active.
LEMMA QuotaKeeps ==
  ASSUME RowInv, RowInv', QuotaInv, \A j \in Items : SameRow(item[j], item'[j]),
         \A m \in Manuals : Active(m)' \in SUBSET Active(m),
         Cardinality(Live') <= MaxManualsPerUser
  PROVE  QuotaInv'
<1>1. \A m : Rows(m)' = Rows(m)
  BY RowsSame
<1>2. Stored' = Stored
  BY DEF Stored, SameRow
<1>3. \A j \in Items : Weights'[j] = Weights[j]
  BY DEF Weights, SameRow
<1>4. ASSUME NEW S \in SUBSET Items PROVE SumOf(Weights', S) = SumOf(Weights, S)
  <2>1. IsFiniteSet(S) /\ \A j \in S : Weights'[j] = Weights[j]
    BY <1>3, ItemSets
  <2> QED
    BY <2>1, SumSame
<1>5. SumOf(Weights, Stored)' <= MaxUserBytes
  <2>1. Stored \in SUBSET Items
    BY DEF Stored
  <2>2. SumOf(Weights', Stored) = SumOf(Weights, Stored)
    BY <1>4, <2>1
  <2> QED
    BY <1>2, <2>2 DEF QuotaInv
<1>6. ASSUME NEW m \in Manuals PROVE ItemQuota(m)'
  <2>1. ItemQuota(m) /\ Rows(m) \in SUBSET Items /\ Active(m) \in SUBSET Items
    BY RowSets DEF QuotaInv
  <2>2. SumOf(Weights', Rows(m)) = SumOf(Weights, Rows(m))
    BY <1>4, <2>1
  <2>3. SumOf(Weights, Rows(m))' <= MaxManualBytes
    BY <1>1, <2>1, <2>2 DEF ItemQuota
  <2>4. Cardinality(Active(m)') <= MaxItemsPerManual
    <3>1. IsFiniteSet(Active(m)) /\ Cardinality(Active(m)) <= MaxItemsPerManual
          /\ Active(m)' \in SUBSET Active(m) /\ MaxItemsPerManual \in Nat
      BY <2>1, ItemSets, Bounds DEF ItemQuota
    <3> QED
      BY <3>1, Fewer
  <2> QED
    BY <2>3, <2>4 DEF ItemQuota
<1> QED
  BY <1>5, <1>6 DEF QuotaInv

\* An item that was put in had room in its manual and with its owner.
LEMMA QuotaAppends ==
  ASSUME RowInv, RowInv', QuotaInv, NEW m \in Manuals, NEW i \in Items, NEW x, Appended(m, i, x),
         x.body \in Bodies, checkItemQuota(m, x.body.size), Live' \in SUBSET Live
  PROVE  QuotaInv'
<1>1. /\ i \notin Rows(m) /\ i \notin Active(m) /\ item'[i] = x /\ x.manual = m
      /\ \A j \in Items \ {i} : item'[j] = item[j]
      /\ Rows(m)' = Rows(m) \cup {i} /\ Active(m)' = Active(m) \cup {i}
      /\ \A q \in Manuals \ {m} : Rows(q)' = Rows(q) /\ Active(q)' = Active(q)
  <2>1. RowTypes
    BY DEF RowInv
  <2>2. x.manual = m
    BY DEF Appended
  <2> QED
    BY <2>1, <2>2, AppendRows
<1>2. item[i].manual = None /\ m # None
  BY NoItemType, Bounds DEF Appended
<1>3. i \notin Stored /\ Stored' = Stored \cup {i}
  BY <1>1, <1>2 DEF Stored
<1>4. x.body.size \in Nat
  BY BodyTypes
<1>5. /\ \A j \in Stored : Weights[j] = item[j].body.size /\ Weights[j] \in Nat
      /\ Stored \in SUBSET Items /\ \A q \in Manuals : Rows(q) \in SUBSET Stored
  BY WeightTypes
<1>6. Weights'[i] = x.body.size /\ \A j \in Items \ {i} : Weights'[j] = Weights[j]
  BY <1>1 DEF Weights
<1>7. /\ Cardinality(Active(m)) < MaxItemsPerManual
      /\ SumOf(Weights, Rows(m)) + x.body.size <= MaxManualBytes
      /\ SumOf(Weights, Stored) + x.body.size <= MaxUserBytes
  <2>1. SumBytes(Rows(m)) = SumOf(Weights, Rows(m)) /\ SumBytes(Stored) = SumOf(Weights, Stored)
    BY RowSets, <1>5, RowBytesSum DEF RowBytesAreSums
  <2>2. SumUserManualItemBytes = SumBytes(Stored)
    BY DEF SumUserManualItemBytes, Stored
  <2> QED
    BY <2>1, <2>2 DEF checkItemQuota, SumManualItemBytes
<1>8. ASSUME NEW S \in SUBSET Stored
      PROVE  /\ SumOf(Weights', S) = SumOf(Weights, S) /\ SumOf(Weights, S) \in Nat
             /\ SumOf(Weights', S \cup {i}) = SumOf(Weights, S) + x.body.size
  <2>1. IsFiniteSet(S) /\ i \notin S /\ \A j \in S : Weights'[j] = Weights[j] /\ Weights[j] \in Nat
    BY <1>3, <1>5, <1>6, ItemSets
  <2>2. SumOf(Weights', S) = SumOf(Weights, S) /\ SumOf(Weights, S) \in Nat
    BY <2>1, SumSame, SumType
  <2>3. \A j \in S \cup {i} : Weights'[j] \in Nat
    BY <1>4, <1>6, <2>1
  <2>4. SumOf(Weights', S \cup {i}) = Weights'[i] + SumOf(Weights', S)
    BY <2>1, <2>3, SumAdd
  <2> QED
    BY <1>4, <1>6, <2>2, <2>4
<1>9. SumOf(Weights', Stored') <= MaxUserBytes
  BY <1>3, <1>7, <1>8
<1>10. ASSUME NEW q \in Manuals PROVE ItemQuota(q)'
  <2>1. Rows(q) \in SUBSET Stored
    BY <1>5
  <2>2. CASE q = m
    <3>1. SumOf(Weights', Rows(m)') <= MaxManualBytes
      BY <1>1, <1>7, <1>8, <2>1, <2>2
    <3>2. Cardinality(Active(m)') <= MaxItemsPerManual
      <4>1. IsFiniteSet(Active(m)) /\ Cardinality(Active(m)) \in Nat
        BY RowSets, ItemSets
      <4>2. Cardinality(Active(m) \cup {i}) = Cardinality(Active(m)) + 1
        BY <1>1, <4>1, FS_AddElement
      <4> QED
        BY <1>1, <1>7, <4>1, <4>2, Bounds
    <3> QED
      BY <2>2, <3>1, <3>2 DEF ItemQuota
  <2>3. CASE q # m
    <3>1. Rows(q)' = Rows(q) /\ Active(q)' = Active(q) /\ SumOf(Weights', Rows(q)) = SumOf(Weights, Rows(q))
      BY <1>1, <1>8, <2>1, <2>3
    <3> QED
      BY <3>1 DEF ItemQuota, QuotaInv
  <2> QED
    BY <2>2, <2>3
<1>11. Cardinality(Live') <= MaxManualsPerUser
  <2>1. IsFiniteSet(Live) /\ Cardinality(Live) <= MaxManualsPerUser /\ MaxManualsPerUser \in Nat
    BY LiveSets, Bounds DEF Live, QuotaInv
  <2> QED
    BY <2>1, Fewer
<1> QED
  BY <1>9, <1>10, <1>11 DEF QuotaInv

\* A step on a manual that is there makes no other live.
LEMMA LiveTouched ==
  ASSUME NEW m \in Manuals, Exists(m), Touches(m)
  PROVE  Live' \in SUBSET Live
  BY DEF Live, Exists, Touches

LEMMA QuotaStep ==
  ASSUME RowInv, QuotaInv, RowChange
  PROVE  RowInv' /\ QuotaInv' /\ \E m \in Manuals : Touches(m)
<1>0. PICK m \in Manuals :
        \/ \E key \in Keys, body \in Bodies : Create(m, key, body)
        \/ \E i \in Items, key \in Keys, body \in Bodies, preview \in Previews :
             item[i] = NoItem /\ Insert(m, i, key, body, preview)
        \/ \E status \in {"keep", "draft", "active"}, cover \in Items \cup {None, "keep"},
              order \in Orders(m) : Update(m, status, cover, order)
        \/ Delete(m)
        \/ \E i \in Items : DeleteItem(m, i)
  BY DEF RowChange
<1>1. /\ IsFiniteSet(Live) /\ Cardinality(Live) \in Nat /\ Cardinality(Live) <= MaxManualsPerUser
      /\ MaxManualsPerUser \in Nat
  BY LiveSets, Bounds DEF Live, QuotaInv
<1>2. ASSUME Exists(m), Touches(m) PROVE Live' \in SUBSET Live /\ Cardinality(Live') <= MaxManualsPerUser
  BY <1>1, <1>2, LiveTouched, Fewer
<1>3. ASSUME UNCHANGED item
      PROVE  (\A j \in Items : SameRow(item[j], item'[j])) /\ \A q \in Manuals : Active(q)' \in SUBSET Active(q)
  BY <1>3 DEF SameRow, Active, Rows
<1>4. CASE \E key \in Keys, body \in Bodies : Create(m, key, body)
  <2>1. PICK key \in Keys, body \in Bodies : Create(m, key, body)
    BY <1>4
  <2>2. RowInv' /\ Touches(m) /\ UNCHANGED item
    BY <2>1, CreateStep DEF Create
  <2>3. Cardinality(Live) < MaxManualsPerUser
    BY <2>1 DEF Create, CountUserManuals, Live
  <2>4. Live' \in SUBSET (Live \cup {m})
    BY <2>2 DEF Live, Exists, Touches
  <2>5. IsFiniteSet(Live') /\ Cardinality(Live') <= Cardinality(Live) + 1
    BY <1>1, <2>4, OneMore
  <2>6. Cardinality(Live') \in Nat
    BY <2>5, FS_CardinalityType
  <2>7. Cardinality(Live') <= MaxManualsPerUser
    BY <1>1, <2>3, <2>5, <2>6
  <2> QED
    BY <1>3, <2>2, <2>7, QuotaKeeps
<1>5. CASE \E i \in Items, key \in Keys, body \in Bodies, preview \in Previews :
             item[i] = NoItem /\ Insert(m, i, key, body, preview)
  <2>1. PICK i \in Items, key \in Keys, body \in Bodies, preview \in Previews :
               item[i] = NoItem /\ Insert(m, i, key, body, preview)
    BY <1>5
  <2>2. /\ RowInv' /\ Touches(m)
        /\ \E x : Appended(m, i, x) /\ x.key = key /\ x.body = body /\ x.preview = preview
    BY <2>1, InsertStep
  <2>3. PICK x : Appended(m, i, x) /\ x.body = body
    BY <2>2
  <2>4. Exists(m) /\ checkItemQuota(m, body.size)
    BY <2>1 DEF Insert
  <2>5. Live' \in SUBSET Live
    BY <1>2, <2>2, <2>4
  <2>6. x.body \in Bodies /\ checkItemQuota(m, x.body.size)
    BY <2>3, <2>4
  <2> QED
    BY <2>2, <2>3, <2>5, <2>6, QuotaAppends
<1>6. CASE \E status \in {"keep", "draft", "active"}, cover \in Items \cup {None, "keep"},
              order \in Orders(m) : Update(m, status, cover, order)
  <2>1. PICK status \in {"keep", "draft", "active"}, cover \in Items \cup {None, "keep"},
             order \in Orders(m) : Update(m, status, cover, order)
    BY <1>6
  <2>2. /\ RowInv' /\ Touches(m) /\ Exists(m)
        /\ \A j \in Items : SameRow(item[j], item'[j])
        /\ \A q \in Manuals : Active(q)' \in SUBSET Active(q)
    BY <2>1, UpdateStep DEF Update
  <2> QED
    BY <1>2, <2>2, QuotaKeeps
<1>7. CASE Delete(m)
  <2>1. RowInv' /\ Touches(m) /\ Exists(m) /\ UNCHANGED item
    BY <1>7, DeleteStep DEF Delete
  <2> QED
    BY <1>2, <1>3, <2>1, QuotaKeeps
<1>8. CASE \E i \in Items : DeleteItem(m, i)
  <2>1. PICK i \in Items : DeleteItem(m, i)
    BY <1>8
  <2>2. /\ RowInv' /\ Touches(m) /\ Exists(m)
        /\ \A j \in Items : SameRow(item[j], item'[j])
        /\ \A q \in Manuals : Active(q)' \in SUBSET Active(q)
    BY <2>1, DeleteItemStep DEF DeleteItem
  <2> QED
    BY <1>2, <2>2, QuotaKeeps
<1> QED
  BY <1>0, <1>4, <1>5, <1>6, <1>7, <1>8

LEMMA QuotaSame ==
  ASSUME QuotaInv, UNCHANGED <<manual, item>>
  PROVE  QuotaInv'
<1>1. /\ Live' = Live /\ Stored' = Stored /\ Weights' = Weights
      /\ \A m : Rows(m)' = Rows(m) /\ Active(m)' = Active(m)
  BY DEF Live, Exists, Stored, Weights, Rows, Active
<1> QED
  BY <1>1 DEF QuotaInv, ItemQuota

-----------------------------------------------------------------------------
(* The invariant *)

Inv == RowInv /\ FilesInv /\ ReserveInv /\ DiskInv /\ QuotaInv

\* What a step does to manuals and items.
LEMMA RowMoves ==
  ASSUME Inv, [Next]_vars
  PROVE  UNCHANGED <<manual, item>> \/ RowChange
<1>1. CASE Owner
  <2>1. PICK m \in Manuals :
          \/ \E key \in Keys, body \in Bodies : Create(m, key, body)
          \/ \E i \in Items, key \in Keys, body \in Bodies : AddInline(m, i, key, body)
          \/ \E status \in {"keep", "draft", "active"}, cover \in Items \cup {None, "keep"},
                order \in Orders(m) : Update(m, status, cover, order)
          \/ Delete(m)
          \/ \E i \in Items : DeleteItem(m, i)
    BY <1>1 DEF Owner
  <2>2. CASE \E i \in Items, key \in Keys, body \in Bodies : AddInline(m, i, key, body)
    <3>1. PICK i \in Items, key \in Keys, body \in Bodies : AddInline(m, i, key, body)
      BY <2>2
    <3>2. item[i] = NoItem /\ Insert(m, i, key, body, "none") /\ "none" \in Previews
      BY <3>1 DEF AddInline, Fresh, Previews
    <3> QED
      BY <3>2 DEF RowChange
  <2> QED
    BY <2>1, <2>2 DEF RowChange
<1>2. CASE \E r \in Requests : Upload(r)
  <2>1. PICK r \in Requests : Upload(r)
    BY <1>2
  <2>2. CASE \E heard \in BOOLEAN : Commit(r, heard)
    <3>1. /\ req[r].pc = "stored" /\ Insert(req[r].manual, req[r].item, req[r].key, req[r].body, req[r].preview)
      BY <2>2 DEF Commit
    <3>2. /\ req[r].manual \in Manuals /\ req[r].item \in Items /\ req[r].key \in Keys
          /\ req[r].body \in Bodies /\ req[r].preview \in Previews /\ item[req[r].item] = NoItem
      BY <3>1 DEF Inv, FilesInv, UploadTypes, UploadInv, Sound, Staging, Uploads
    <3> QED
      BY <3>1, <3>2 DEF RowChange
  <2>3. CASE ~\E heard \in BOOLEAN : Commit(r, heard)
    BY <2>1, <2>3 DEF Upload, CheckUploadOwner, AcquireUpload, WriteOriginal, Inspect, EnterGate,
         Thumbnail, RenderPDFPreview, ReadPlainText, Rename, AbandonUpload, ReplayOrRefuse, LoseCommit,
         resolveFileCommit
  <2> QED
    BY <2>2, <2>3
<1>3. CASE Crash
  BY <1>3 DEF Crash
<1>4. CASE UNCHANGED vars
  BY <1>4 DEF vars
<1> QED
  BY <1>1, <1>2, <1>3, <1>4 DEF Next

LEMMA InvInit == Init => Inv
<1> SUFFICES ASSUME Init PROVE Inv
  OBVIOUS
<1>1. /\ \A m \in Manuals : manual[m] = NoManual
      /\ \A i \in Items : item[i] = NoItem /\ dirs[i] = NoDir
      /\ \A r \in Requests : req[r] = Idle
      /\ reserved = 0 /\ debris = 0 /\ strays = {} /\ crashes = 0
  BY DEF Init
<1>2. \A m \in Manuals : Rows(m) = {} /\ Active(m) = {}
  BY <1>1, NoItemType, Bounds DEF Rows, Active
<1>3. Cardinality({}) = 0
  BY FS_EmptySet
<1>4. RowInv
  <2>1. NoManual \in ManualRows /\ NoManual.cover = None /\ NoManual.status = "none"
    BY Bounds DEF NoManual, ManualRows
  <2>2. RowTypes
    BY <2>1, NoItemType DEF Init, RowTypes
  <2>3. \A m \in Manuals : OrderInv(m) /\ CoverInv(m)
    BY <1>1, <1>2, <1>3, <2>1 DEF OrderInv, CoverInv
  <2>4. OneRowPerRequest
    BY <1>2 DEF OneRowPerRequest
  <2> QED
    BY <2>2, <2>3, <2>4 DEF RowInv
<1>5. FilesInv
  <2>1. req \in [Requests -> Uploads] /\ dirs = [i \in Items |-> dirs[i]]
    BY IdleType DEF Init
  <2>2. UploadTypes
    BY <1>1, <2>1, NoDirType, Bounds DEF UploadTypes
  <2>3. UploadInv /\ OwnIds
    BY <1>1, IdleType DEF UploadInv, OwnIds, Sound, Staging
  <2>4. \A i \in Items : FileAt(i) /\ OrphanAt(i)
    BY <1>1, NoItemType DEF FileAt, OrphanAt
  <2> QED
    BY <2>2, <2>3, <2>4 DEF FilesInv
<1>6. Reserving = {} /\ Holding = {} /\ Unit * 0 = 0
  BY <1>1, IdleType, UnitType DEF Reserving, Holding, Staging
<1>7. ReserveInv
  BY <1>1, <1>3, <1>6 DEF ReserveInv
<1>8. DiskInv
  <2>1. \A i \in Items : DirBytes[i] = 0
    BY <1>1, NoDirType DEF DirBytes
  <2>2. SumOf(DirBytes, Items) = 0
    BY <2>1, Bounds, SumNone
  <2>3. Unit * Cardinality(Holding) = 0
    BY <1>3, <1>6
  <2> QED
    BY <1>1, <2>2, <2>3, Bounds DEF DiskInv
<1>9. QuotaInv
  <2>1. Live = {} /\ Stored = {}
    BY <1>1, NoItemType DEF Live, Exists, NoManual, Stored
  <2> QED
    BY <1>2, <1>3, <2>1, SumEmpty, Bounds DEF QuotaInv, ItemQuota
<1> QED
  BY <1>4, <1>5, <1>7, <1>8, <1>9 DEF Inv

LEMMA InvStep == Inv /\ [Next]_vars => Inv'
<1> SUFFICES ASSUME Inv, [Next]_vars PROVE Inv'
  OBVIOUS
<1>0. RowInv /\ FilesInv /\ ReserveInv /\ DiskInv /\ QuotaInv
  BY DEF Inv
<1>1. QuotaInv'
  <2>1. CASE UNCHANGED <<manual, item>>
    BY <1>0, <2>1, QuotaSame
  <2>2. CASE RowChange
    BY <1>0, <2>2, QuotaStep
  <2> QED
    BY <2>1, <2>2, RowMoves
<1>2. RowInv' /\ FilesInv' /\ ReserveInv' /\ DiskInv'
  <2>1. CASE Owner
    BY <1>0, <2>1, OwnerStep, BudgetKept
  <2>2. CASE \E r \in Requests : Upload(r)
    <3>1. PICK r \in Requests : Upload(r)
      BY <2>2
    <3>2. RowInv' /\ FilesInv' /\ UploadShift(r)
      BY <1>0, <3>1, UploadStep
    <3> QED
      BY <1>0, <3>2, ReserveStep, DiskStep
  <2>3. CASE Crash
    <3>1. RowInv' /\ Staged \in Nat
      BY <1>0, <2>3, RowsKept, StagedSum, StagedBound DEF Crash
    <3>2. FilesInv'
      BY <1>0, <2>3, <3>1, CrashFiles
    <3> QED
      BY <1>0, <2>3, <3>1, <3>2, CrashBudget
  <2>4. CASE UNCHANGED vars
    <3>1. RowInv' /\ UNCHANGED <<manual, item, req, dirs, reserved, debris, strays, crashes>>
      BY <1>0, <2>4, RowsKept DEF vars
    <3>2. FilesInv'
      BY <1>0, <3>1 DEF FilesInv, UploadTypes, UploadInv, OwnIds, FileAt, OrphanAt, Sound, RowOf, HasFiles
    <3> QED
      BY <1>0, <3>1, <3>2, BudgetKept
  <2> QED
    BY <2>1, <2>2, <2>3, <2>4 DEF Next
<1> QED
  BY <1>1, <1>2 DEF Inv

LEMMA InvHolds == Spec => []Inv
  BY InvInit, InvStep, PTL DEF Spec

LEMMA InvTypes == Inv => TypeOK
<1> SUFFICES ASSUME Inv PROVE TypeOK
  OBVIOUS
<1>1. /\ manual \in [Manuals -> [status : {"none", "draft", "active", "deleted"},
                                 rev : 0..MaxRevision, cover : Items \cup {None},
                                 key : Keys \cup {None}, body : Bodies \cup {None}]]
  BY DEF Inv, RowInv, RowTypes, ManualRows
<1>2. item \in [Items -> [manual : Manuals \cup {None}, key : Keys \cup {None},
                          body : Bodies \cup {None}, pos : Nat, deleted : BOOLEAN,
                          preview : {"none", "ready", "unavailable"}]]
  <2> DEFINE R == [manual : Manuals \cup {None}, key : Keys \cup {None},
                   body : Bodies \cup {None}, pos : Nat, deleted : BOOLEAN,
                   preview : {"none", "ready", "unavailable"}]
  <2>1. ASSUME NEW i \in Items PROVE item[i] \in R
    <3>1. IsItem(item[i])
      BY DEF Inv, RowInv, RowTypes
    <3> QED
      BY <3>1 DEF IsItem, Previews
  <2> HIDE DEF R
  <2>2. item \in [Items -> R]
    BY <2>1, Zenon DEF Inv, RowInv, RowTypes
  <2> QED
    BY <2>2 DEF R
<1>3. dirs \in [Items -> Directory]
  <2>1. ASSUME NEW i \in Items PROVE dirs[i] \in Directory
    <3>1. IsDir(dirs[i])
      BY DEF Inv, FilesInv, UploadTypes
    <3> QED
      BY <3>1 DEF IsDir, Directory
  <2> QED
    BY <2>1, Zenon DEF Inv, FilesInv, UploadTypes
<1>4. req \in [Requests -> [pc : {"idle", "checked", "reserved", "staged", "gate", "inspected",
                                  "stored", "unsure"},
                            manual : Manuals \cup {None}, key : Keys \cup {None},
                            body : Bodies \cup {None}, item : Items \cup {None},
                            preview : {"none", "ready", "unavailable"}]]
  BY DEF Inv, FilesInv, UploadTypes, Uploads, Steps, Previews
<1>5. reserved = (MaxFileBytes + PDFPreviewOutputLimitBytes)
                   * Cardinality({r \in Requests : req[r].pc \notin {"idle", "checked"}})
  BY DEF Inv, ReserveInv, Unit, Reserving
<1>6. debris \in Nat /\ strays \subseteq Items /\ crashes \in 0..MaxCrashes
  BY DEF Inv, FilesInv, UploadTypes
<1> QED
  BY <1>1, <1>2, <1>3, <1>4, <1>5, <1>6, Zenon DEF TypeOK

\* The rows of every manual make sense together, for any number of manuals, items and uploads: one
\* row per request id, positions 1..n however items are appended, reordered and deleted, no active
\* manual without an item, and no cover that only one of the two pages shows (appendItem, patchItems,
\* DeleteItem, chooseDetailCover, listDecorations).
THEOREM RowsAreConsistent == Spec => []RowsConsistent
<1>1. ASSUME Inv PROVE PositionsDense /\ PublishedNotEmpty /\ OneRowPerRequest
  BY <1>1 DEF Inv, RowInv, OrderInv, CoverInv, PositionsDense, PublishedNotEmpty
<1>2. ASSUME Inv PROVE CoversAgree
  <2> SUFFICES ASSUME NEW m \in Manuals PROVE DetailCover(m) = ListCover(m)
    BY DEF CoversAgree
  <2>1. manual[m].cover \in Active(m) \cup {None} /\ Active(m) \in SUBSET Items
    BY <1>2, RowSets DEF Inv, RowInv, CoverInv
  <2>2. CASE manual[m].cover \in Active(m)
    <3>1. manual[m].cover \in Items /\ ~item[manual[m].cover].deleted
          /\ item[manual[m].cover].manual = m
      BY <2>2 DEF Active, Rows
    <3>2. item[manual[m].cover] # NoItem /\ manual[m].cover # None
      BY <3>1, NoItemType, Bounds
    <3>3. ListCover(m) = {i \in Items : i = manual[m].cover /\ item[i] # NoItem /\ ~item[i].deleted}
      BY <3>2 DEF ListCover
    <3>4. ListCover(m) = {manual[m].cover}
      BY <3>1, <3>2, <3>3
    <3>5. DetailCover(m) = {manual[m].cover}
      BY <2>2 DEF DetailCover
    <3> QED
      BY <3>4, <3>5
  <2>3. CASE manual[m].cover \notin Active(m)
    <3>1. manual[m].cover = None
      BY <2>1, <2>3
    <3> QED
      BY <2>3, <3>1 DEF DetailCover, ListCover
  <2> QED
    BY <2>2, <2>3
<1>3. Inv => RowsConsistent
  BY <1>1, <1>2, InvTypes DEF RowsConsistent
<1> QED
  BY InvHolds, <1>3, PTL

\* Every file the server offers is there, and a directory without a row belongs to an upload in
\* flight or was given up, for any interleaving of uploads, lost commits, failed lookups and crashes
\* (resolveFileCommit, ReplayOrRefuse).
THEOREM FilesAgreeWithRows == Spec => []FilesMatchRows
<1>1. ASSUME Inv PROVE FilesKept
  <2> SUFFICES ASSUME NEW i \in Items, NEW thumbnail \in BOOLEAN, ResourceItem(i, thumbnail)
               PROVE  OpenStoredFile(i, thumbnail)
    BY DEF FilesKept
  <2>1. IsItem(item[i]) /\ FileAt(i)
    BY <1>1 DEF Inv, RowInv, RowTypes, FilesInv
  <2>2. item[i].manual # None
    BY <2>1, NoRow DEF ResourceItem
  <2> QED
    BY <2>1, <2>2 DEF FileAt, HasFiles, ResourceItem, OpenStoredFile
<1>2. ASSUME Inv PROVE NoUnexplainedOrphans
  BY <1>2 DEF Inv, FilesInv, OrphanAt, NoUnexplainedOrphans
<1>3. Inv => FilesMatchRows
  BY <1>1, <1>2 DEF FilesMatchRows
<1> QED
  BY InvHolds, <1>3, PTL

\* Neither the quota of the owner nor the free space of the disk is exceeded, for any limits, any
\* sizes and any number of uploads side by side, crashes in between (checkItemQuota, AcquireUpload).
THEOREM LimitsHold == Spec => []WithinLimits
<1>1. ASSUME Inv PROVE QuotaKept
  <2>1. QuotaInv /\ Stored \in SUBSET Items
    BY <1>1 DEF Inv, Stored
  <2>2. SumUserManualItemBytes = SumOf(Weights, Stored)
    <3>1. SumUserManualItemBytes = SumBytes(Stored)
      BY DEF SumUserManualItemBytes, Stored
    <3> QED
      BY <2>1, <3>1, RowBytesSum DEF RowBytesAreSums
  <2>3. \A m \in Manuals : SumManualItemBytes(m) = SumOf(Weights, Rows(m))
    BY RowSets, RowBytesSum DEF RowBytesAreSums, SumManualItemBytes
  <2>4. CountUserManuals = Cardinality(Live)
    BY DEF CountUserManuals, Live
  <2> QED
    BY <2>1, <2>2, <2>3, <2>4 DEF QuotaKept, QuotaInv, ItemQuota
<1>2. ASSUME Inv PROVE DiskFloor
  <2> DEFINE h == Unit * Cardinality(Holding)
             d == SumOf(DirBytes, Items)
             s == SumOf(StagedBytes, Requests)
  <2>1. h \in Nat /\ d \in Nat /\ s \in Nat /\ s <= h /\ debris \in Nat
    BY <1>2, ReserveSets, RequestSets, DirBytesType, StagedBound DEF Inv, FilesInv, UploadTypes
  <2>2. debris + h + d + MinFreeDiskBytes <= DiskBytes
    BY <1>2 DEF Inv, DiskInv
  <2>3. DiskFreeBytes = DiskBytes - debris - s - d
    BY FreeSum DEF FreeBytes
  <2> HIDE DEF h, d, s
  <2> QED
    BY <2>1, <2>2, <2>3, Bounds DEF DiskFloor
<1>3. Inv => WithinLimits
  BY <1>1, <1>2 DEF WithinLimits
<1> QED
  BY InvHolds, <1>3, PTL

\* What changes a manual or its items moves it to the next revision, and a deleted manual does not
\* change any more, for any number of manuals and any interleaving (revision checks of Update,
\* DeleteItem and Delete, appendItem).
THEOREM RevisionsNameContents == Spec => RevisionNamesContent
<1>1. ASSUME Inv, [Next]_vars, NEW m \in Manuals
      PROVE  /\ Content(m)' # Content(m) => manual'[m].rev = manual[m].rev + 1
             /\ manual[m].status = "deleted" => Content(m)' = Content(m)
  <2>1. CASE UNCHANGED <<manual, item>>
    <3>1. Content(m)' = Content(m)
      BY <2>1 DEF Content, Rows
    <3> QED
      BY <3>1
  <2>2. CASE RowChange
    <3>1. PICK q \in Manuals : Touches(q)
      BY <1>1, <2>2, QuotaStep DEF Inv
    <3>2. CASE q = m
      BY <3>1, <3>2 DEF Touches
    <3>3. CASE q # m
      <4>1. manual'[m] = manual[m] /\ Rows(m)' = Rows(m) /\ \A j \in Rows(m) : item'[j] = item[j]
        BY <3>1, <3>3 DEF Touches
      <4>2. {<<i, item'[i]>> : i \in Rows(m)} = {<<i, item[i]>> : i \in Rows(m)}
        BY <4>1
      <4>3. Content(m)' = Content(m)
        BY <4>1, <4>2 DEF Content
      <4> QED
        BY <4>3
    <3> QED
      BY <3>2, <3>3
  <2> QED
    BY <1>1, <2>1, <2>2, RowMoves
<1>2. Inv /\ [Next]_vars =>
        [\A m \in Manuals :
           /\ Content(m)' # Content(m) => manual'[m].rev = manual[m].rev + 1
           /\ manual[m].status = "deleted" => Content(m)' = Content(m)]_vars
  BY <1>1
<1> QED
  BY InvHolds, <1>2, PTL DEF Spec, RevisionNamesContent

=============================================================================
