-------------------------- MODULE BitWeavingProofs --------------------------
(***************************************************************************)
(* The table, its directory and the index: the inductive invariant of      *)
(* BitWeaving, that each action keeps it, and the properties that follow.  *)
(* The actions are first shown as steps of the table (TableStep) and of    *)
(* the vector (VectorStep), then as steps of the invariant.                *)
(***************************************************************************)
EXTENDS BitWeaving, BwLibraryProofs

-----------------------------------------------------------------------------
(* Tables: their shape, and what the operations keep. *)

\* A column has the type and size that its name is given, or is one that was
\* loaded without its file.
FormatOf(c, format) ==
  \/ c.type = format.type /\ c.size = format.size
  \/ c.type = "kNaive" /\ c.size = 0

\* The columns of a table, for the formats of its names.
MapOK(map, formats) ==
  /\ map = [n \in DOMAIN map |-> map[n]]
  /\ IsFiniteSet(DOMAIN map) /\ DOMAIN map \subseteq DOMAIN formats
  /\ \A n \in DOMAIN map : ColumnOK(map[n]) /\ FormatOf(map[n], formats[n])

TableOK(tb, formats) ==
  /\ tb = [num |-> tb.num, map |-> tb.map, free_column_ids |-> tb.free_column_ids]
  /\ tb.num \in 0..MaxTuples
  /\ MapOK(tb.map, formats)
  /\ tb.free_column_ids \in Seq(Nat)

\* A table is never NoTable.
LEMMA IsTable ==
  ASSUME NEW tb, NEW formats, TableOK(tb, formats)
  PROVE  tb # NoTable
<1>1. DOMAIN tb = {"num", "map", "free_column_ids"}
  BY DEF TableOK
<1>2. DOMAIN <<>> = 1..0
  OBVIOUS
<1>3. "num" \notin 1..0
  OBVIOUS
<1>4. QED
  BY <1>1, <1>2, <1>3 DEF NoTable

\* The names in a table are finitely many.
LEMMA FiniteMap ==
  ASSUME NEW tb, NEW formats, TableOK(tb, formats)
  PROVE  IsFiniteSet(DOMAIN tb.map) /\ Cardinality(DOMAIN tb.map) \in Nat
<1>1. IsFiniteSet(DOMAIN tb.map)
  BY DEF TableOK, MapOK
<1>2. QED
  BY <1>1, FS_CardinalityType

\* The tuples, the junk and the sizes are numbers.
LEMMA Numbers ==
  /\ MaxTuples \in Nat /\ MaxChanges \in Nat /\ MaxScans \in Nat /\ MaxStops \in Nat
  /\ kNumCodesPerBlock \in Nat \ {0}
  BY BitWeavingAssumption, BitWordsAssumption

\* A new table has the shape of one.
LEMMA NewTableOK ==
  ASSUME NEW formats
  PROVE  TableOK(NewTable, formats)
<1>1. <<>> = [n \in DOMAIN <<>> |-> <<>>[n]] /\ DOMAIN <<>> = {}
  OBVIOUS
<1>2. QED
  BY <1>1, Numbers, FS_EmptySet DEF TableOK, MapOK, NewTable

\* The parts of a table whose columns are replaced.
LEMMA WithMap ==
  ASSUME NEW tb, NEW formats, TableOK(tb, formats),
         NEW map, MapOK(map, formats),
         NEW num \in 0..MaxTuples, NEW free \in Seq(Nat)
  PROVE  LET new == [num |-> num, map |-> map, free_column_ids |-> free]
         IN  /\ TableOK(new, formats)
             /\ new.num = num /\ new.map = map /\ new.free_column_ids = free
  BY DEF TableOK

\* A table is another one with one column replaced.
Replaces(new, tb, n, d) ==
  /\ new.num = tb.num /\ new.free_column_ids = tb.free_column_ids
  /\ DOMAIN new.map = DOMAIN tb.map
  /\ \A m \in DOMAIN tb.map : new.map[m] = IF m = n THEN d ELSE tb.map[m]

\* A column can be replaced by one of its shape.
LEMMA WithColumn ==
  ASSUME NEW tb, NEW formats, TableOK(tb, formats), NEW n \in DOMAIN tb.map,
         NEW d, SameShape(d, tb.map[n])
  PROVE  /\ TableOK([tb EXCEPT !.map[n] = d], formats)
         /\ Replaces([tb EXCEPT !.map[n] = d], tb, n, d)
<1> DEFINE map == [tb.map EXCEPT ![n] = d]
<1>1. /\ tb = [num |-> tb.num, map |-> tb.map, free_column_ids |-> tb.free_column_ids]
      /\ tb.num \in 0..MaxTuples /\ tb.free_column_ids \in Seq(Nat)
      /\ tb.map = [m \in DOMAIN tb.map |-> tb.map[m]]
  BY DEF TableOK, MapOK
<1>2. SUFFICES ASSUME NEW new, new = [tb EXCEPT !.map[n] = d]
               PROVE  TableOK(new, formats) /\ Replaces(new, tb, n, d)
  OBVIOUS
<1>3. new = [num |-> tb.num, map |-> map, free_column_ids |-> tb.free_column_ids]
  <2>1. new = [tb EXCEPT !.map = map]
    BY <1>2
  <2>2. QED
    BY <1>1, <2>1
<1>4. /\ DOMAIN map = DOMAIN tb.map
      /\ \A m \in DOMAIN tb.map : map[m] = IF m = n THEN d ELSE tb.map[m]
  BY <1>1
<1>5. map = [m \in DOMAIN map |-> map[m]]
  BY <1>1
<1> HIDE DEF map
<1>6. ASSUME NEW m \in DOMAIN map
      PROVE  ColumnOK(map[m]) /\ FormatOf(map[m], formats[m])
  <2>1. ColumnOK(tb.map[m]) /\ FormatOf(tb.map[m], formats[m])
    BY <1>4 DEF TableOK, MapOK
  <2>2. ColumnOK(d) /\ d.type = tb.map[n].type /\ d.size = tb.map[n].size
    BY DEF SameShape
  <2>3. CASE m = n
    BY <1>4, <2>1, <2>2, <2>3 DEF FormatOf
  <2>4. CASE m # n
    BY <1>4, <2>1, <2>4
  <2>5. QED
    BY <2>3, <2>4
<1>7. MapOK(map, formats)
  BY <1>4, <1>5, <1>6 DEF TableOK, MapOK
<1>8. /\ TableOK(new, formats)
      /\ new.num = tb.num /\ new.map = map
      /\ new.free_column_ids = tb.free_column_ids
  BY <1>1, <1>3, <1>7, WithMap
<1>9. Replaces(new, tb, n, d)
  BY <1>4, <1>8 DEF Replaces
<1>10. QED
  BY <1>8, <1>9

\* The columns of a table are those of another one, resized.
ResizedTo(new, tb, num, junk0) ==
  /\ new.num = num /\ new.free_column_ids = tb.free_column_ids
  /\ DOMAIN new.map = DOMAIN tb.map
  /\ \A n \in DOMAIN tb.map : new.map[n] = ColumnResize(tb.map[n], num, junk0)

\* A table that is resized, and its columns.
LEMMA TableResizeOK ==
  ASSUME NEW tb, NEW formats, TableOK(tb, formats),
         NEW num \in 0..MaxTuples, num # tb.num, NEW junk0 \in Nat,
         \A n \in DOMAIN tb.map : Resizable(tb.map[n], num),
         NEW new, new = TableResize(tb, num, junk0)
  PROVE  /\ TableOK(new, formats)
         /\ ResizedTo(new, tb, num, junk0)
         /\ \A n \in DOMAIN tb.map : Full(tb.map[n]) => Fits(new.map[n], num)
<1> DEFINE map == [n \in DOMAIN tb.map |-> ColumnResize(tb.map[n], num, junk0)]
<1>1. /\ tb = [num |-> tb.num, map |-> tb.map, free_column_ids |-> tb.free_column_ids]
      /\ tb.num \in 0..MaxTuples /\ tb.free_column_ids \in Seq(Nat)
      /\ num \in Nat
  BY Numbers DEF TableOK
<1>2. new = [tb EXCEPT !.num = num, !.map = map]
  BY DEF TableResize
<1>3. new = [num |-> num, map |-> map, free_column_ids |-> tb.free_column_ids]
  BY <1>1, <1>2
<1>4. /\ DOMAIN map = DOMAIN tb.map
      /\ \A n \in DOMAIN tb.map : map[n] = ColumnResize(tb.map[n], num, junk0)
      /\ map = [n \in DOMAIN map |-> map[n]]
  OBVIOUS
<1> HIDE DEF map
<1>5. ASSUME NEW n \in DOMAIN tb.map
      PROVE  /\ ColumnOK(map[n]) /\ FormatOf(map[n], formats[n])
             /\ Full(tb.map[n]) => Fits(map[n], num)
  <2> DEFINE c == tb.map[n]
             d == ColumnResize(c, num, junk0)
  <2>1. ColumnOK(c) /\ FormatOf(c, formats[n]) /\ Resizable(c, num)
    BY DEF TableOK, MapOK
  <2>2. /\ ColumnOK(d) /\ (Full(c) => Fits(d, num))
        /\ d.id = c.id /\ d.type = c.type /\ d.size = c.size
    <3> HIDE DEF c
    <3>1. QED
      BY <1>1, <2>1, ResizeOK
  <2>3. QED
    BY <1>4, <2>1, <2>2 DEF FormatOf
<1>6. MapOK(map, formats)
  BY <1>4, <1>5 DEF TableOK, MapOK
<1>7. TableOK(new, formats) /\ new.num = num /\ new.map = map
      /\ new.free_column_ids = tb.free_column_ids
  BY <1>1, <1>3, <1>6, WithMap
<1>8. QED
  BY <1>4, <1>5, <1>7 DEF ResizedTo

\* A table loses a column.
LEMMA RemoveColumnOK ==
  ASSUME NEW tb, NEW formats, TableOK(tb, formats), NEW n \in DOMAIN tb.map,
         NEW new, new = RemoveColumn(tb, n)
  PROVE  /\ TableOK(new, formats) /\ new.num = tb.num
         /\ DOMAIN new.map = DOMAIN tb.map \ {n}
         /\ \A m \in DOMAIN new.map : new.map[m] = tb.map[m]
         /\ new.free_column_ids = Append(tb.free_column_ids, tb.map[n].id)
<1> DEFINE map == Erase(tb.map, n)
           free == Append(tb.free_column_ids, tb.map[n].id)
<1>1. /\ tb = [num |-> tb.num, map |-> tb.map, free_column_ids |-> tb.free_column_ids]
      /\ tb.num \in 0..MaxTuples /\ tb.free_column_ids \in Seq(Nat)
      /\ tb.map[n].id \in Nat
  BY DEF TableOK, MapOK, ColumnOK
<1>2. new = [tb EXCEPT !.map = map, !.free_column_ids = free]
  BY DEF RemoveColumn
<1>3. new = [num |-> tb.num, map |-> map, free_column_ids |-> free]
  BY <1>1, <1>2
<1>4. /\ DOMAIN map = DOMAIN tb.map \ {n}
      /\ \A m \in DOMAIN map : map[m] = tb.map[m]
      /\ map = [m \in DOMAIN map |-> map[m]]
  BY DEF Erase
<1>5. free \in Seq(Nat)
  BY <1>1
<1> HIDE DEF map, free
<1>6. MapOK(map, formats)
  <2>1. IsFiniteSet(DOMAIN tb.map \ {n})
    BY FiniteMap, FS_RemoveElement
  <2>2. QED
    BY <1>4, <2>1 DEF TableOK, MapOK
<1>7. TableOK(new, formats) /\ new.num = tb.num /\ new.map = map
      /\ new.free_column_ids = free
  BY <1>1, <1>3, <1>5, <1>6, WithMap
<1>8. QED
  BY <1>4, <1>7 DEF free

\* The id that AddColumn takes.
TakenId(tb) ==
  IF tb.free_column_ids = <<>> THEN Cardinality(DOMAIN tb.map)
  ELSE Head(tb.free_column_ids)
OtherIds(tb) ==
  IF tb.free_column_ids = <<>> THEN <<>> ELSE Tail(tb.free_column_ids)
AddedColumn(tb, type, size, junk0) ==
  ColumnResize(NewColumn(TakenId(tb), type, size), tb.num, junk0)

AddsColumn(new, tb, n, c, format) ==
  /\ new.num = tb.num /\ new.free_column_ids = OtherIds(tb)
  /\ TakenId(tb) \in Nat
  /\ n \in DOMAIN tb.map => new.map = tb.map
  /\ n \notin DOMAIN tb.map =>
       /\ DOMAIN new.map = DOMAIN tb.map \cup {n}
       /\ \A m \in DOMAIN tb.map : new.map[m] = tb.map[m]
       /\ new.map[n] = c
  /\ ColumnOK(c) /\ Fits(c, tb.num) /\ c.id = TakenId(tb)
  /\ c.type = format.type /\ c.size = format.size

\* What AddColumn makes of a table, whether the name is in use or not.
LEMMA AddColumnOK ==
  ASSUME NEW tb, NEW formats, TableOK(tb, formats), NEW n \in DOMAIN formats,
         FormatOK(formats[n].type, formats[n].size), NEW junk0 \in Nat,
         NEW new, new = AddColumn(tb, n, formats[n].type, formats[n].size, junk0),
         NEW c, c = AddedColumn(tb, formats[n].type, formats[n].size, junk0)
  PROVE  TableOK(new, formats) /\ AddsColumn(new, tb, n, c, formats[n])
<1> DEFINE type == formats[n].type
           size == formats[n].size
           id == TakenId(tb)
           free == OtherIds(tb)
           map == Insert(tb.map, n, c)
<1>1. /\ tb = [num |-> tb.num, map |-> tb.map, free_column_ids |-> tb.free_column_ids]
      /\ tb.num \in 0..MaxTuples /\ tb.free_column_ids \in Seq(Nat)
      /\ tb.num \in Nat /\ MapOK(tb.map, formats)
  BY Numbers DEF TableOK
<1>2. id \in Nat /\ free \in Seq(Nat)
  BY <1>1, FiniteMap DEF TakenId, OtherIds
<1>3. /\ ColumnOK(c) /\ Fits(c, tb.num) /\ c.id = id
      /\ c.type = type /\ c.size = size
  <2> DEFINE d == NewColumn(id, type, size)
  <2>1. ColumnOK(d) /\ d.id = id /\ d.type = type /\ d.size = size
    BY <1>2, NewColumnOK DEF NewColumn
  <2>2. Resizable(d, tb.num)
    BY <2>1 DEF Resizable
  <2>3. c = ColumnResize(d, tb.num, junk0)
    BY DEF AddedColumn
  <2>4. Full(d)
    <3>1. Len(d.blocks) = 0
      BY DEF NewColumn
    <3>2. QED
      BY <3>1 DEF Full
  <2> HIDE DEF d, id, type, size
  <2>5. QED
    BY <1>1, <2>1, <2>2, <2>3, <2>4, ResizeOK
<1>4. CASE n \in DOMAIN tb.map
  <2>1. new = [tb EXCEPT !.free_column_ids = free]
    BY <1>4 DEF AddColumn, OtherIds
  <2>2. new = [num |-> tb.num, map |-> tb.map, free_column_ids |-> free]
    BY <1>1, <2>1
  <2> HIDE DEF free, id
  <2>3. TableOK(new, formats) /\ new.num = tb.num /\ new.map = tb.map
        /\ new.free_column_ids = free
    BY <1>1, <1>2, <2>2, WithMap
  <2>4. QED
    BY <1>2, <1>3, <1>4, <2>3 DEF free, id, AddsColumn
<1>5. CASE n \notin DOMAIN tb.map
  <2>1. new = [[tb EXCEPT !.free_column_ids = free] EXCEPT !.map = Insert(@, n, c)]
    BY <1>5 DEF AddColumn, AddedColumn, OtherIds, TakenId
  <2>2. new = [num |-> tb.num, map |-> map, free_column_ids |-> free]
    BY <1>1, <2>1
  <2>3. /\ DOMAIN map = DOMAIN tb.map \cup {n}
        /\ \A m \in DOMAIN tb.map : map[m] = tb.map[m]
        /\ map[n] = c
        /\ map = [m \in DOMAIN map |-> map[m]]
    BY <1>5 DEF Insert
  <2> HIDE DEF map, free, id
  <2>4. MapOK(map, formats)
    <3>1. ASSUME NEW m \in DOMAIN map
          PROVE  ColumnOK(map[m]) /\ FormatOf(map[m], formats[m])
      <4>1. CASE m = n
        BY <1>3, <2>3, <4>1 DEF FormatOf
      <4>2. CASE m # n
        BY <1>1, <2>3, <4>2 DEF MapOK
      <4>3. QED
        BY <4>1, <4>2
    <3>2. IsFiniteSet(DOMAIN tb.map \cup {n})
      BY FiniteMap, FS_AddElement
    <3>3. QED
      BY <1>1, <2>3, <3>1, <3>2 DEF MapOK
  <2>5. TableOK(new, formats) /\ new.num = tb.num /\ new.map = map
        /\ new.free_column_ids = free
    BY <1>1, <1>2, <2>2, <2>4, WithMap
  <2>6. QED
    BY <1>2, <1>3, <1>5, <2>3, <2>5 DEF free, id, AddsColumn
<1>6. QED
  BY <1>4, <1>5


-----------------------------------------------------------------------------
(* Bulkload of a table. *)

\* All columns of a table have its size.
AllFit(tb) ==
  \A n \in DOMAIN tb.map :
    Fits(tb.map[n], tb.num) /\ FormatOK(tb.map[n].type, tb.map[n].size)

\* The table before the codes are loaded.
Grown(tb, end, junk0) == IF end > tb.num THEN TableResize(tb, end, junk0) ELSE tb

\* A table that is grown for a Bulkload.
LEMMA GrownOK ==
  ASSUME NEW tb, NEW formats, TableOK(tb, formats), NEW end \in 0..MaxTuples,
         NEW junk0 \in Nat,
         end > tb.num => \A n \in DOMAIN tb.map : Resizable(tb.map[n], end),
         NEW g, g = Grown(tb, end, junk0)
  PROVE  /\ TableOK(g, formats)
         /\ g.num = IF end > tb.num THEN end ELSE tb.num
         /\ g.free_column_ids = tb.free_column_ids
         /\ DOMAIN g.map = DOMAIN tb.map
         /\ end > tb.num => ResizedTo(g, tb, end, junk0)
         /\ ~(end > tb.num) => g = tb
         /\ AllFit(tb) => AllFit(g)
<1>0. tb.num \in Nat /\ end \in Nat
  BY Numbers DEF TableOK
<1>1. CASE end > tb.num
  <2>1. g = TableResize(tb, end, junk0) /\ end # tb.num
    BY <1>0, <1>1 DEF Grown
  <2>2. /\ TableOK(g, formats) /\ ResizedTo(g, tb, end, junk0)
        /\ \A n \in DOMAIN tb.map : Full(tb.map[n]) => Fits(g.map[n], end)
    BY <1>1, <2>1, TableResizeOK
  <2>3. ASSUME AllFit(tb), NEW n \in DOMAIN g.map
        PROVE  Fits(g.map[n], g.num) /\ FormatOK(g.map[n].type, g.map[n].size)
    <3> DEFINE c == tb.map[n]
               d == ColumnResize(c, end, junk0)
    <3>1. n \in DOMAIN tb.map /\ g.num = end /\ g.map[n] = d
      BY <2>2, <2>3 DEF ResizedTo
    <3>2. ColumnOK(c) /\ Resizable(c, end) /\ FormatOK(c.type, c.size)
      BY <1>1, <2>3, <3>1 DEF TableOK, MapOK, AllFit
    <3>3. d.type = c.type /\ d.size = c.size
      <4> HIDE DEF c
      <4>1. QED
        BY <1>0, <3>2, ResizeOK
    <3>4. Fits(g.map[n], end)
      BY <2>2, <2>3, <3>1 DEF AllFit, Fits
    <3>5. QED
      BY <3>1, <3>2, <3>3, <3>4
  <2>4. AllFit(tb) => AllFit(g)
    BY <2>3 DEF AllFit
  <2>5. QED
    BY <1>1, <2>2, <2>4 DEF ResizedTo
<1>2. CASE ~(end > tb.num)
  BY <1>2 DEF Grown
<1>3. QED
  BY <1>1, <1>2

\* What a load of codes does to a table.
LEMMA BulkloadTableOK ==
  ASSUME NEW tb, NEW formats, TableOK(tb, formats), NEW n \in DOMAIN tb.map,
         NEW codes, CodesOK(codes), NEW pos \in Nat,
         NEW end, end = pos + Len(codes), end <= MaxTuples, NEW junk0 \in Nat,
         end > tb.num => \A m \in DOMAIN tb.map : Resizable(tb.map[m], end),
         NEW result, result = Bulkload(tb, n, codes, pos, junk0),
         NEW g, g = Grown(tb, end, junk0),
         NEW bulk, bulk = ColumnBulkload(g.map[n], codes, pos)
  PROVE  /\ TableOK(result.table, formats)
         /\ result.table.num = IF end > tb.num THEN end ELSE tb.num
         /\ result.table.free_column_ids = tb.free_column_ids
         /\ DOMAIN result.table.map = DOMAIN tb.map
         /\ \A m \in DOMAIN tb.map :
              result.table.map[m] = IF m = n THEN bulk.column ELSE g.map[m]
         /\ SameShape(bulk.column, g.map[n])
         /\ result.ok => bulk.ok
         /\ AllFit(tb) => AllFit(result.table)
         /\ AllFit(tb) /\ result.table.num % kNumCodesPerBlock # 0 => result.ok
<1>0. end \in 0..MaxTuples /\ Len(codes) \in Nat /\ tb.num \in Nat
  BY Numbers DEF TableOK, CodesOK
<1>1. /\ TableOK(g, formats)
      /\ g.num = IF end > tb.num THEN end ELSE tb.num
      /\ g.free_column_ids = tb.free_column_ids
      /\ DOMAIN g.map = DOMAIN tb.map
      /\ AllFit(tb) => AllFit(g)
  BY <1>0, GrownOK
<1> DEFINE c == g.map[n]
           new == result.table
<1>2. ColumnOK(c)
  BY <1>1 DEF TableOK, MapOK
<1>3. SameShape(bulk.column, c)
  <2> HIDE DEF c
  <2>1. bulk = ColumnBulkload(c, codes, pos)
    BY DEF c
  <2>2. QED
    BY <1>2, <2>1, BulkloadCodesOK
<1>4. /\ new = [g EXCEPT !.map[n] = bulk.column]
      /\ result.ok <=> /\ CEIL(tb.num, kNumCodesPerBlock) = Len(tb.map[n].blocks)
                       /\ bulk.ok
  BY DEF Bulkload, Grown
<1>5. /\ TableOK(new, formats)
      /\ new.num = g.num /\ new.free_column_ids = g.free_column_ids
      /\ DOMAIN new.map = DOMAIN g.map
      /\ \A m \in DOMAIN g.map :
           new.map[m] = IF m = n THEN bulk.column ELSE g.map[m]
  <2> DEFINE d == bulk.column
  <2>1. n \in DOMAIN g.map /\ SameShape(d, g.map[n])
    BY <1>1, <1>3
  <2>2. new = [g EXCEPT !.map[n] = d]
    BY <1>4
  <2> HIDE DEF new, d
  <2>3. TableOK([g EXCEPT !.map[n] = d], formats)
        /\ Replaces([g EXCEPT !.map[n] = d], g, n, d)
    BY <1>1, <2>1, WithColumn
  <2>4. TableOK(new, formats) /\ Replaces(new, g, n, d)
    BY <2>2, <2>3
  <2>5. QED
    BY <2>4 DEF d, Replaces
<1>6. ASSUME AllFit(tb)
      PROVE  /\ AllFit(new)
             /\ new.num % kNumCodesPerBlock # 0 => result.ok
  <2>0. g.num \in Nat
    BY <1>0, <1>1
  <2>1. /\ Fits(c, g.num) /\ FormatOK(c.type, c.size)
        /\ \A m \in DOMAIN g.map : /\ Fits(g.map[m], g.num)
                                   /\ FormatOK(g.map[m].type, g.map[m].size)
    BY <1>1, <1>6 DEF AllFit
  <2>2. Fits(bulk.column, g.num)
    <3> HIDE DEF c
    <3>1. QED
      BY <1>2, <1>3, <2>0, <2>1, SameShapeFits
  <2>3. FormatOK(bulk.column.type, bulk.column.size)
    BY <1>3, <2>1 DEF SameShape
  <2>4. ASSUME NEW m \in DOMAIN new.map
        PROVE  Fits(new.map[m], new.num) /\ FormatOK(new.map[m].type, new.map[m].size)
    <3>1. CASE m = n
      BY <1>5, <2>2, <2>3, <3>1
    <3>2. CASE m # n
      BY <1>5, <2>1, <2>4, <3>2
    <3>3. QED
      BY <3>1, <3>2
  <2>5. AllFit(new)
    BY <2>4 DEF AllFit
  <2>6. ASSUME new.num % kNumCodesPerBlock # 0
        PROVE  result.ok
    <3>1. pos + Len(codes) <= g.num
      BY <1>0, <1>1
    <3>2. bulk.ok
      <4> HIDE DEF c
      <4>1. bulk = ColumnBulkload(c, codes, pos)
        BY DEF c
      <4>2. g.num % kNumCodesPerBlock # 0
        BY <1>5, <2>6
      <4>3. QED
        BY <1>2, <2>0, <2>1, <3>1, <4>1, <4>2, BulkloadOk
    <3>3. CEIL(tb.num, kNumCodesPerBlock) = Len(tb.map[n].blocks)
      BY <1>6 DEF AllFit, Fits
    <3>4. QED
      BY <1>4, <3>2, <3>3
  <2>7. QED
    BY <2>5, <2>6
<1>7. QED
  BY <1>1, <1>3, <1>4, <1>5, <1>6

-----------------------------------------------------------------------------
(* The files of a table. *)

\* The column that a file is loaded into.
FileColumn(f, id) ==
  [id |-> id, type |-> f.type, size |-> f.size, blocks |-> f.blocks]

FileOK(f, format) ==
  /\ f = [type |-> f.type, size |-> f.size, blocks |-> f.blocks]
  /\ ColumnOK(FileColumn(f, 0))
  /\ FormatOf(FileColumn(f, 0), format)

MetaOK(meta) ==
  /\ meta = [num |-> meta.num, names |-> meta.names]
  /\ meta.num \in 0..MaxTuples
  /\ meta.names \subseteq Names

\* The id of a column does not matter to its blocks, its size or its codes.
LEMMA OtherId ==
  ASSUME NEW c, NEW id, NEW d,
         d = [id |-> id, type |-> c.type, size |-> c.size, blocks |-> c.blocks]
  PROVE  /\ ColumnOK(c) /\ id \in Nat => ColumnOK(d)
         /\ \A num : Fits(c, num) => Fits(d, num)
         /\ \A t, junk0 : CodeAt(d, t, junk0) = CodeAt(c, t, junk0)
         /\ \A format : FormatOf(c, format) => FormatOf(d, format)
<1>1. d.id = id /\ d.type = c.type /\ d.size = c.size /\ d.blocks = c.blocks
  OBVIOUS
<1>2. d = [id |-> d.id, type |-> d.type, size |-> d.size, blocks |-> d.blocks]
  OBVIOUS
<1>3. ASSUME ColumnOK(c), id \in Nat
      PROVE  ColumnOK(d)
  BY <1>1, <1>2, <1>3 DEF ColumnOK
<1>4. ASSUME NEW num, Fits(c, num)
      PROVE  Fits(d, num)
  BY <1>1, <1>4 DEF Fits, Full
<1>5. ASSUME NEW t, NEW junk0
      PROVE  CodeAt(d, t, junk0) = CodeAt(c, t, junk0)
  BY <1>1 DEF CodeAt, ColumnGetCode
<1>6. ASSUME NEW format, FormatOf(c, format)
      PROVE  FormatOf(d, format)
  BY <1>1, <1>6 DEF FormatOf
<1>7. QED
  BY <1>3, <1>4, <1>5, <1>6

\* A column is saved as it is.
LEMMA ColumnFileOK ==
  ASSUME NEW c, ColumnOK(c), NEW format, FormatOf(c, format), NEW f, f = ColumnFile(c)
  PROVE  /\ FileOK(f, format)
         /\ f.type = c.type /\ f.size = c.size
         /\ \A num : Fits(c, num) => Fits(FileColumn(f, 0), num)
         /\ \A t, junk0 : CodeAt(FileColumn(f, 0), t, junk0) = CodeAt(c, t, junk0)
<1> DEFINE d == FileColumn(f, 0)
<1>1. /\ f = [type |-> f.type, size |-> f.size, blocks |-> f.blocks]
      /\ f.type = c.type /\ f.size = c.size /\ f.blocks = c.blocks
  <2>1. f = [type |-> c.type, size |-> c.size, blocks |-> c.blocks]
    BY DEF ColumnFile
  <2>2. QED
    BY <2>1
<1>2. d = [id |-> 0, type |-> c.type, size |-> c.size, blocks |-> c.blocks]
  BY <1>1 DEF FileColumn
<1> HIDE DEF d
<1>3. /\ ColumnOK(d) /\ FormatOf(d, format)
      /\ \A num : Fits(c, num) => Fits(d, num)
      /\ \A t, junk0 : CodeAt(d, t, junk0) = CodeAt(c, t, junk0)
  BY <1>2, OtherId
<1>4. QED
  BY <1>1, <1>3 DEF d, FileOK

\* A block of which only the first words were read has the shape it had.
LEMMA CutBlockOK ==
  ASSUME NEW type, NEW size, FormatOK(type, size), NEW b, BlockOK(b, type, size),
         NEW fresh, BlockOK(fresh, type, size), NEW kept
  PROVE  BlockOK(FirstWords(b, fresh, kept), type, size)
<1> DEFINE v == [group \in DOMAIN b.data |->
                  [w \in DOMAIN b.data[group] |->
                     IF group * VSegments * kNumBitsPerGroup + w < kept
                     THEN b.data[group][w] ELSE fresh.data[group][w]]]
           u == [w \in DOMAIN b.data |-> IF w < kept THEN b.data[w] ELSE fresh.data[w]]
           d == IF type = "kBitWeavingV" THEN v ELSE u
<1>1. /\ b.type = type /\ DataOK(type, size, b.data) /\ DataOK(type, size, fresh.data)
  BY DEF BlockOK
<1>2. FirstWords(b, fresh, kept) = [b EXCEPT !.data = d]
  BY <1>1 DEF FirstWords
<1>3. DataOK(type, size, d)
  <2>1. CASE type = "kNaive"
    <3>1. b.data \in [0..(kNumCodesPerBlock - 1) -> Nat]
          /\ fresh.data \in [0..(kNumCodesPerBlock - 1) -> Nat]
      BY <1>1, <2>1 DEF DataOK
    <3>2. u \in [0..(kNumCodesPerBlock - 1) -> Nat] /\ d = u
      BY <2>1, <3>1
    <3> HIDE DEF d, u
    <3>3. QED
      BY <2>1, <3>2 DEF DataOK
  <2>2. CASE type = "kBitWeavingH"
    <3> DEFINE D == 0..(HSegments(kNumCodesPerBlock, size)
                          * HWordsPerSegment(size) - 1)
    <3>1. b.data \in [D -> Word] /\ fresh.data \in [D -> Word]
      BY <1>1, <2>2 DEF DataOK
    <3> HIDE DEF D
    <3>2. u \in [D -> Word] /\ d = u
      BY <2>2, <3>1
    <3> HIDE DEF d, u
    <3>3. QED
      BY <2>2, <3>2 DEF DataOK, D
  <2>3. CASE type = "kBitWeavingV"
    <3> DEFINE G == 0..(CEIL(size, kNumBitsPerGroup) - 1)
               D(g) == 0..(VSegments * VBitsOfGroup(size, g) - 1)
               r(g) == [w \in DOMAIN b.data[g] |->
                     IF g * VSegments * kNumBitsPerGroup + w < kept
                     THEN b.data[g][w] ELSE fresh.data[g][w]]
    <3>1. /\ b.data = [g \in G |-> b.data[g]]
          /\ \A g \in G : b.data[g] \in [D(g) -> Word]
          /\ \A g \in G : fresh.data[g] \in [D(g) -> Word]
      BY <1>1, <2>3 DEF DataOK
    <3>2. ASSUME NEW g \in G
          PROVE  r(g) \in [D(g) -> Word]
      <4> DEFINE E == D(g)
                 x == b.data[g]
                 y == fresh.data[g]
      <4>1. x \in [E -> Word] /\ y \in [E -> Word]
        BY <3>1
      <4>2. r(g) = [w \in DOMAIN x |->
                      IF g * VSegments * kNumBitsPerGroup + w < kept THEN x[w] ELSE y[w]]
        OBVIOUS
      <4> HIDE DEF E, x, y, r
      <4>3. r(g) \in [E -> Word]
        BY <4>1, <4>2
      <4>4. QED
        BY <4>3 DEF E
    <3>3. DOMAIN b.data = G
      BY <3>1
    <3>4. d = v /\ v = [g \in G |-> r(g)]
      BY <2>3, <3>3
    <3> HIDE DEF d, v, r
    <3>5. d = [g \in G |-> d[g]] /\ \A g \in G : d[g] \in [D(g) -> Word]
      BY <3>2, <3>4
    <3>6. QED
      BY <2>3, <3>5 DEF DataOK
  <2>4. QED
    BY <2>1, <2>2, <2>3 DEF FormatOK
<1> HIDE DEF d
<1>4. QED
  BY <1>2, <1>3, WithData

\* A file that was cut off has the shape of one.  Its whole blocks have their
\* codes, and those after the one that was cut have none.
LEMMA CutFileOK ==
  ASSUME NEW c, ColumnOK(c), NEW format, FormatOf(c, format),
         NEW whole \in Nat, whole < Len(c.blocks), NEW kept, NEW junk0 \in Nat,
         NEW f, f = CutFile(ColumnFile(c), whole, kept, junk0)
  PROVE  /\ FileOK(f, format)
         /\ \A t \in Nat :
              /\ BlockOf(t) <= whole
                   => CodeAt(FileColumn(f, 0), t, junk0) = CodeAt(c, t, junk0)
              /\ BlockOf(t) > whole + 1
                   => CodeAt(FileColumn(f, 0), t, junk0) = Unwritten(c.type, junk0)
<1> DEFINE fresh == CreateColumnBlock(c.type, c.size, junk0)
           n == Len(c.blocks)
           bs == [i \in 1..n |->
                    CASE i <= whole    -> c.blocks[i]
                      [] i = whole + 1 -> FirstWords(c.blocks[i], fresh, kept)
                      [] i > whole + 1 -> fresh]
           d == FileColumn(f, 0)
<1>1. /\ n \in Nat /\ n # 0 /\ DOMAIN c.blocks = 1..n
      /\ \A i \in 1..n : BlockOK(c.blocks[i], c.type, c.size)
      /\ FormatOK(c.type, c.size)
  <2>1. n \in Nat /\ n # 0
    BY DEF ColumnOK
  <2>2. QED
    BY <2>1, FormatOfColumn DEF ColumnOK
<1>2. f = [type |-> c.type, size |-> c.size, blocks |-> bs]
  <2> DEFINE file == ColumnFile(c)
  <2>1. /\ file = [type |-> c.type, size |-> c.size, blocks |-> c.blocks]
        /\ file.type = c.type /\ file.size = c.size /\ file.blocks = c.blocks
    BY DEF ColumnFile
  <2> DEFINE new == CreateColumnBlock(file.type, file.size, junk0)
             blocks == [i \in DOMAIN file.blocks |->
                 CASE i <= whole    -> file.blocks[i]
                   [] i = whole + 1 -> FirstWords(file.blocks[i], new, kept)
                   [] i > whole + 1 -> new]
  <2>2. f = [file EXCEPT !.blocks = blocks]
    BY Zenon DEF CutFile
  <2> HIDE DEF file
  <2>3. blocks = bs
    <3>1. new = fresh
      BY <2>1
    <3> HIDE DEF new, fresh
    <3>2. QED
      BY <1>1, <2>1, <3>1
  <2> HIDE DEF bs, blocks
  <2>4. QED
    BY <2>1, <2>2, <2>3
<1>3. d = [id |-> 0, type |-> c.type, size |-> c.size, blocks |-> bs]
  <2> HIDE DEF bs
  <2>1. QED
    BY <1>2 DEF FileColumn
<1>4. BlockOK(fresh, c.type, c.size)
  BY <1>1, NewBlockOK
<1> HIDE DEF fresh
<1>5. ASSUME NEW i \in 1..n
      PROVE  /\ BlockOK(bs[i], c.type, c.size)
             /\ i <= whole => bs[i] = c.blocks[i]
             /\ i > whole + 1 => bs[i] = fresh
  <2>0. i \in Nat /\ BlockOK(c.blocks[i], c.type, c.size)
    BY <1>1
  <2> DEFINE cut == FirstWords(c.blocks[i], fresh, kept)
  <2>1. BlockOK(cut, c.type, c.size)
    BY <1>1, <1>4, <2>0, CutBlockOK
  <2>2. bs[i] = CASE i <= whole    -> c.blocks[i]
                  [] i = whole + 1 -> cut
                  [] i > whole + 1 -> fresh
    OBVIOUS
  <2> HIDE DEF bs, n, cut
  <2>3. CASE i <= whole
    <3>1. bs[i] = c.blocks[i]
      BY <2>0, <2>2, <2>3
    <3>2. QED
      BY <2>0, <2>3, <3>1
  <2>4. CASE i = whole + 1
    <3>1. bs[i] = cut
      BY <2>0, <2>2, <2>4
    <3>2. QED
      BY <2>0, <2>1, <2>4, <3>1
  <2>5. CASE i > whole + 1
    <3>1. bs[i] = fresh
      BY <2>0, <2>2, <2>5
    <3>2. QED
      BY <1>4, <2>0, <2>5, <3>1
  <2>6. QED
    BY <2>0, <2>3, <2>4, <2>5
<1>6. bs = [i \in 1..n |-> bs[i]]
  OBVIOUS
<1> HIDE DEF bs
<1>7. Len(bs) = n
  <2> HIDE DEF n
  <2>1. QED
    BY <1>1, <1>6, LenOfFunction
<1>8. /\ d.id = 0 /\ d.type = c.type /\ d.size = c.size /\ d.blocks = bs
      /\ d = [id |-> d.id, type |-> d.type, size |-> d.size, blocks |-> d.blocks]
  BY <1>3
<1>9. ColumnOK(d) /\ FormatOf(d, format)
  <2> HIDE DEF d, n
  <2>1. ColumnOK(d)
    BY <1>1, <1>5, <1>6, <1>7, <1>8 DEF ColumnOK
  <2>2. FormatOf(d, format)
    BY <1>8 DEF FormatOf
  <2>3. QED
    BY <2>1, <2>2
<1>10. FileOK(f, format)
  <2>1. f = [type |-> f.type, size |-> f.size, blocks |-> f.blocks]
    BY <1>2
  <2>2. QED
    BY <1>9, <2>1 DEF FileOK
<1>11. ASSUME NEW t \in Nat
       PROVE  /\ BlockOf(t) <= whole => CodeAt(d, t, junk0) = CodeAt(c, t, junk0)
              /\ BlockOf(t) > whole + 1
                   => CodeAt(d, t, junk0) = Unwritten(c.type, junk0)
  <2> DEFINE i == BlockOf(t)
             p == PlaceOf(t)
  <2>1. i \in Nat \ {0} /\ p \in 0..(kNumCodesPerBlock - 1)
    BY PlaceOfTuple
  <2>2. Len(d.blocks) = n
    BY <1>7, <1>8
  <2> HIDE DEF d, i, p
  <2>3. ASSUME i <= whole
        PROVE  CodeAt(d, t, junk0) = CodeAt(c, t, junk0)
    <3>1. i \in 1..n
      BY <1>1, <2>1, <2>3
    <3>2. d.blocks[i] = c.blocks[i]
      BY <1>5, <1>8, <2>3, <3>1
    <3>3. i <= Len(d.blocks) /\ i <= Len(c.blocks)
      BY <1>1, <2>2, <3>1
    <3>4. QED
      BY <3>2, <3>3 DEF CodeAt, ColumnGetCode, i
  <2>4. ASSUME i > whole + 1
        PROVE  CodeAt(d, t, junk0) = Unwritten(c.type, junk0)
    <3>1. CASE ~(i <= n)
      BY <1>8, <2>2, <3>1 DEF CodeAt, i
    <3>2. CASE i <= n
      <4>1. i \in 1..n
        BY <1>1, <2>1, <3>2
      <4>2. d.blocks[i] = fresh
        BY <1>5, <1>8, <2>4, <4>1
      <4>3. BlockGetCode(fresh, p) = Unwritten(c.type, junk0)
        BY <1>1, <1>4, <2>1, NewBlockGet DEF fresh
      <4>4. QED
        BY <2>2, <3>2, <4>2, <4>3 DEF CodeAt, ColumnGetCode, i, p
    <3>3. QED
      BY <3>1, <3>2
  <2>5. QED
    BY <2>3, <2>4 DEF i
<1>12. QED
  BY <1>10, <1>11

\* The id of a name is the number of names before it.
Rank(names, n) == Cardinality({m \in names : m < n})

\* The place of a name is a number.
LEMMA RankIsNumber ==
  ASSUME NEW names, names \subseteq Names, NEW n
  PROVE  Rank(names, n) \in Nat
<1>1. {m \in names : m < n} \in SUBSET Names /\ IsFiniteSet(Names)
  BY BitWeavingAssumption
<1>2. QED
  BY <1>1, FS_Subset, FS_CardinalityType DEF Rank

\* A table that is loaded has the shape of one, and the columns that the files hold.
LEMMA LoadTableOK ==
  ASSUME NEW meta, MetaOK(meta), NEW files, NEW formats, DOMAIN formats = Names,
         \A n \in DOMAIN files : FileOK(files[n], formats[n]),
         NEW new, new = LoadTable(meta, files)
  PROVE  /\ TableOK(new, formats)
         /\ new.num = meta.num /\ new.free_column_ids = <<>>
         /\ DOMAIN new.map = meta.names
         /\ \A n \in meta.names :
              new.map[n] = IF n \in DOMAIN files
                           THEN FileColumn(files[n], Rank(meta.names, n))
                           ELSE NewColumn(Rank(meta.names, n), "kNaive", 0)
<1> DEFINE col(n) == IF n \in DOMAIN files
                     THEN FileColumn(files[n], Rank(meta.names, n))
                     ELSE NewColumn(Rank(meta.names, n), "kNaive", 0)
           map == [n \in meta.names |-> col(n)]
<1>1. new = [num |-> meta.num, map |-> map, free_column_ids |-> <<>>]
  BY DEF LoadTable, FileColumn, Rank
<1>2. /\ DOMAIN map = meta.names /\ map = [n \in DOMAIN map |-> map[n]]
      /\ \A n \in meta.names : map[n] = col(n)
  OBVIOUS
<1> HIDE DEF map
<1>3. meta.names \subseteq Names /\ meta.num \in 0..MaxTuples /\ meta.num \in Nat
  BY Numbers DEF MetaOK
<1>4. ASSUME NEW n \in meta.names
      PROVE  ColumnOK(col(n)) /\ FormatOf(col(n), formats[n])
  <2> DEFINE id == Rank(meta.names, n)
             f == files[n]
             c == FileColumn(f, 0)
             d == FileColumn(f, id)
             e == NewColumn(id, "kNaive", 0)
  <2>1. id \in Nat
    BY <1>3, RankIsNumber
  <2>2. CASE n \in DOMAIN files
    <3>1. ColumnOK(c) /\ FormatOf(c, formats[n])
      BY <2>2 DEF FileOK
    <3>2. d = [id |-> id, type |-> c.type, size |-> c.size, blocks |-> c.blocks]
      BY DEF FileColumn
    <3>3. ColumnOK(d) /\ FormatOf(d, formats[n])
      <4> HIDE DEF c, d, id
      <4>1. QED
        BY <2>1, <3>1, <3>2, OtherId
    <3>4. QED
      BY <2>2, <3>3
  <2>3. CASE n \notin DOMAIN files
    <3>1. ColumnOK(e)
      <4> HIDE DEF id
      <4>1. QED
        BY <2>1, NewColumnOK
    <3>2. FormatOf(e, formats[n])
      BY DEF FormatOf, NewColumn
    <3>3. QED
      BY <2>3, <3>1, <3>2
  <2>4. QED
    BY <2>2, <2>3
<1> HIDE DEF col
<1>5. MapOK(map, formats)
  <2>1. IsFiniteSet(meta.names)
    BY <1>3, BitWeavingAssumption, FS_Subset
  <2>2. QED
    BY <1>2, <1>3, <1>4, <2>1 DEF MapOK
<1>6. TableOK(new, formats) /\ new.num = meta.num /\ new.map = map
      /\ new.free_column_ids = <<>>
  <2>1. <<>> \in Seq(Nat)
    OBVIOUS
  <2>2. QED
    BY <1>1, <1>3, <1>5, <2>1 DEF TableOK
<1>7. QED
  BY <1>2, <1>6 DEF col


-----------------------------------------------------------------------------
(* The ids of the columns. *)

\* Each number below the maximum is the id of one column or is free once.
Dense(tb) ==
  /\ \A n, m \in DOMAIN tb.map : tb.map[n].id = tb.map[m].id => n = m
  /\ \A i, j \in 1..Len(tb.free_column_ids) :
       tb.free_column_ids[i] = tb.free_column_ids[j] => i = j
  /\ \A n \in DOMAIN tb.map, i \in 1..Len(tb.free_column_ids) :
       tb.map[n].id # tb.free_column_ids[i]
  /\ \A n \in DOMAIN tb.map : tb.map[n].id < GetMaxColumnId(tb)
  /\ \A i \in 1..Len(tb.free_column_ids) :
       tb.free_column_ids[i] < GetMaxColumnId(tb)
  /\ \A id \in 0..(GetMaxColumnId(tb) - 1) :
       \/ \E n \in DOMAIN tb.map : tb.map[n].id = id
       \/ \E i \in 1..Len(tb.free_column_ids) : tb.free_column_ids[i] = id

\* The maximum is a number.
LEMMA MaxIdOf ==
  ASSUME NEW tb, NEW formats, TableOK(tb, formats)
  PROVE  /\ GetMaxColumnId(tb) \in Nat
         /\ Len(tb.free_column_ids) \in Nat
         /\ DOMAIN tb.free_column_ids = 1..Len(tb.free_column_ids)
         /\ \A n \in DOMAIN tb.map : tb.map[n].id \in Nat
         /\ \A i \in 1..Len(tb.free_column_ids) : tb.free_column_ids[i] \in Nat
<1>1. tb.free_column_ids \in Seq(Nat)
  BY DEF TableOK
<1>2. Cardinality(DOMAIN tb.map) \in Nat
  BY FiniteMap
<1>3. \A n \in DOMAIN tb.map : tb.map[n].id \in Nat
  BY DEF TableOK, MapOK, ColumnOK
<1>4. QED
  BY <1>1, <1>2, <1>3 DEF GetMaxColumnId

\* Nothing but the ids matters.
LEMMA DenseSame ==
  ASSUME NEW tb, NEW new, Dense(tb),
         new.free_column_ids = tb.free_column_ids,
         DOMAIN new.map = DOMAIN tb.map,
         \A n \in DOMAIN tb.map : new.map[n].id = tb.map[n].id
  PROVE  Dense(new)
<1>1. GetMaxColumnId(new) = GetMaxColumnId(tb)
  BY DEF GetMaxColumnId
<1>2. QED
  BY <1>1 DEF Dense

\* The id of a removed column becomes the last free one.
LEMMA DenseRemove ==
  ASSUME NEW tb, NEW formats, TableOK(tb, formats), Dense(tb),
         NEW n \in DOMAIN tb.map, NEW new, TableOK(new, formats),
         DOMAIN new.map = DOMAIN tb.map \ {n},
         \A m \in DOMAIN new.map : new.map[m] = tb.map[m],
         new.free_column_ids = Append(tb.free_column_ids, tb.map[n].id)
  PROVE  Dense(new)
<1> DEFINE free == tb.free_column_ids
           F == Len(free)
           id == tb.map[n].id
           other == new.free_column_ids
           max == GetMaxColumnId(tb)
<1>1. /\ max \in Nat /\ F \in Nat /\ id \in Nat /\ free \in Seq(Nat)
      /\ \A m \in DOMAIN tb.map : tb.map[m].id \in Nat
      /\ \A i \in 1..F : free[i] \in Nat
  BY MaxIdOf DEF TableOK
<1>2. /\ Len(other) = F + 1
      /\ \A i \in 1..F : other[i] = free[i]
      /\ other[F + 1] = id
  BY <1>1
<1>3. Cardinality(DOMAIN new.map) = Cardinality(DOMAIN tb.map) - 1
      /\ Cardinality(DOMAIN tb.map) \in Nat
  BY FiniteMap, FS_RemoveElement
<1>4. GetMaxColumnId(new) = max
  BY <1>1, <1>2, <1>3 DEF GetMaxColumnId
<1>5. \A i \in 1..Len(other) : i \in 1..F \/ i = F + 1
  BY <1>1, <1>2
<1>d. /\ \A m, k \in DOMAIN tb.map : tb.map[m].id = tb.map[k].id => m = k
      /\ \A i, j \in 1..F : free[i] = free[j] => i = j
      /\ \A m \in DOMAIN tb.map, i \in 1..F : tb.map[m].id # free[i]
      /\ \A m \in DOMAIN tb.map : tb.map[m].id < max
      /\ \A i \in 1..F : free[i] < max
      /\ \A x \in 0..(max - 1) : \/ \E m \in DOMAIN tb.map : tb.map[m].id = x
                                 \/ \E i \in 1..F : free[i] = x
  BY DEF Dense
<1> HIDE DEF free, F, id, other, max
<1>6. \A m, k \in DOMAIN new.map : new.map[m].id = new.map[k].id => m = k
  BY <1>d
<1>7. \A i, j \in 1..Len(other) : other[i] = other[j] => i = j
  BY <1>2, <1>5, <1>d DEF id
<1>8. \A m \in DOMAIN new.map, i \in 1..Len(other) : new.map[m].id # other[i]
  BY <1>2, <1>5, <1>d DEF id
<1>9. \A m \in DOMAIN new.map : new.map[m].id < max
  BY <1>d
<1>10. \A i \in 1..Len(other) : other[i] < max
  BY <1>2, <1>5, <1>d DEF id
<1>11. ASSUME NEW x \in 0..(max - 1)
       PROVE  \/ \E m \in DOMAIN new.map : new.map[m].id = x
              \/ \E i \in 1..Len(other) : other[i] = x
  <2>1. CASE \E m \in DOMAIN tb.map : tb.map[m].id = x
    <3>1. PICK m \in DOMAIN tb.map : tb.map[m].id = x
      BY <2>1
    <3>2. CASE m = n
      <4>1. F + 1 \in 1..Len(other) /\ other[F + 1] = x
        BY <1>1, <1>2, <3>1, <3>2 DEF id
      <4>2. QED
        BY <4>1
    <3>3. CASE m # n
      BY <3>1, <3>3
    <3>4. QED
      BY <3>2, <3>3
  <2>2. CASE \E i \in 1..F : free[i] = x
    <3>1. PICK i \in 1..F : free[i] = x
      BY <2>2
    <3>2. i \in 1..Len(other) /\ other[i] = x
      BY <1>1, <1>2, <3>1
    <3>3. QED
      BY <3>2
  <2>3. QED
    BY <1>d, <2>1, <2>2
<1>12. QED
  BY <1>4, <1>6, <1>7, <1>8, <1>9, <1>10, <1>11 DEF Dense, other

\* A new column takes the first free id, or the next number when none is free.
LEMMA DenseAdd ==
  ASSUME NEW tb, NEW formats, TableOK(tb, formats), Dense(tb),
         NEW n, n \notin DOMAIN tb.map, NEW new, TableOK(new, formats),
         DOMAIN new.map = DOMAIN tb.map \cup {n},
         \A m \in DOMAIN tb.map : new.map[m] = tb.map[m],
         new.map[n].id = TakenId(tb),
         new.free_column_ids = OtherIds(tb)
  PROVE  Dense(new)
<1> DEFINE free == tb.free_column_ids
           F == Len(free)
           id == TakenId(tb)
           other == new.free_column_ids
           max == GetMaxColumnId(tb)
           count == Cardinality(DOMAIN tb.map)
<1>1. /\ max \in Nat /\ F \in Nat /\ free \in Seq(Nat)
      /\ \A m \in DOMAIN tb.map : tb.map[m].id \in Nat
      /\ \A i \in 1..F : free[i] \in Nat
      /\ count \in Nat /\ max = count + F
  BY MaxIdOf, FiniteMap DEF TableOK, GetMaxColumnId
<1>2. Cardinality(DOMAIN new.map) = count + 1
  BY FiniteMap, FS_AddElement
<1>d. /\ \A m, k \in DOMAIN tb.map : tb.map[m].id = tb.map[k].id => m = k
      /\ \A i, j \in 1..F : free[i] = free[j] => i = j
      /\ \A m \in DOMAIN tb.map, i \in 1..F : tb.map[m].id # free[i]
      /\ \A m \in DOMAIN tb.map : tb.map[m].id < max
      /\ \A i \in 1..F : free[i] < max
      /\ \A x \in 0..(max - 1) : \/ \E m \in DOMAIN tb.map : tb.map[m].id = x
                                 \/ \E i \in 1..F : free[i] = x
  BY DEF Dense
<1>3. \A m \in DOMAIN new.map : m \in DOMAIN tb.map \/ m = n
  OBVIOUS
<1>4. CASE free = <<>>
  <2>1. F = 0 /\ other = <<>> /\ id = count /\ Len(other) = 0
    BY <1>4 DEF TakenId, OtherIds
  <2>2. GetMaxColumnId(new) = max + 1 /\ id = max
    BY <1>1, <1>2, <2>1 DEF GetMaxColumnId
  <2> HIDE DEF free, F, id, other, max, count
  <2>3. \A m, k \in DOMAIN new.map : new.map[m].id = new.map[k].id => m = k
    BY <1>1, <1>3, <1>d, <2>2 DEF id
  <2>4. \A m \in DOMAIN new.map : new.map[m].id < max + 1
    BY <1>1, <1>3, <1>d, <2>2 DEF id
  <2>5. ASSUME NEW x \in 0..((max + 1) - 1)
        PROVE  \E m \in DOMAIN new.map : new.map[m].id = x
    <3>1. CASE x = max
      BY <2>2, <3>1 DEF id
    <3>2. CASE x # max
      <4>1. x \in 0..(max - 1)
        BY <1>1, <3>2
      <4>2. PICK m \in DOMAIN tb.map : tb.map[m].id = x
        BY <1>d, <2>1, <4>1
      <4>3. QED
        BY <4>2
    <3>3. QED
      BY <3>1, <3>2
  <2>6. \A i \in 1..Len(other) : FALSE
    BY <2>1
  <2>7. QED
    BY <2>2, <2>3, <2>4, <2>5, <2>6 DEF Dense, other
<1>5. CASE free # <<>>
  <2>1. /\ other = Tail(free) /\ id = Head(free)
    BY <1>5 DEF TakenId, OtherIds
  <2>2. /\ F > 0 /\ Len(other) = F - 1 /\ id = free[1]
        /\ \A i \in 1..(F - 1) : other[i] = free[i + 1]
    BY <1>1, <1>5, <2>1
  <2>3. GetMaxColumnId(new) = max
    BY <1>1, <1>2, <2>2 DEF GetMaxColumnId
  <2> HIDE DEF free, F, id, other, max, count
  <2>4. \A i \in 1..Len(other) : i \in 1..F /\ i + 1 \in 2..F /\ other[i] = free[i + 1]
    BY <1>1, <2>2
  <2>5. 1 \in 1..F /\ \A i \in 2..F : i \in 1..F /\ i # 1
    BY <1>1, <2>2
  <2>6. \A m, k \in DOMAIN new.map : new.map[m].id = new.map[k].id => m = k
    BY <1>3, <1>d, <2>2, <2>5 DEF id
  <2>7. ASSUME NEW i \in 1..Len(other), NEW j \in 1..Len(other), other[i] = other[j]
        PROVE  i = j
    <3>1. i + 1 = j + 1
      BY <1>d, <2>4, <2>5, <2>7
    <3>2. QED
      BY <1>1, <2>4, <3>1
  <2>8. \A m \in DOMAIN new.map, i \in 1..Len(other) : new.map[m].id # other[i]
    BY <1>3, <1>d, <2>2, <2>4, <2>5 DEF id
  <2>9. \A m \in DOMAIN new.map : new.map[m].id < max
    BY <1>3, <1>d, <2>2, <2>5 DEF id
  <2>10. \A i \in 1..Len(other) : other[i] < max
    BY <1>d, <2>4, <2>5
  <2>11. ASSUME NEW x \in 0..(max - 1)
         PROVE  \/ \E m \in DOMAIN new.map : new.map[m].id = x
                \/ \E i \in 1..Len(other) : other[i] = x
    <3>1. CASE \E m \in DOMAIN tb.map : tb.map[m].id = x
      BY <3>1
    <3>2. CASE \E i \in 1..F : free[i] = x
      <4>1. PICK i \in 1..F : free[i] = x
        BY <3>2
      <4>2. CASE i = 1
        BY <2>2, <4>1, <4>2 DEF id
      <4>3. CASE i # 1
        <5>1. i - 1 \in 1..Len(other) /\ other[i - 1] = x
          BY <1>1, <2>2, <4>1, <4>3
        <5>2. QED
          BY <5>1
      <4>4. QED
        BY <4>2, <4>3
    <3>3. QED
      BY <1>d, <3>1, <3>2
  <2>12. QED
    BY <2>3, <2>6, <2>7, <2>8, <2>9, <2>10, <2>11 DEF Dense, other
<1>6. QED
  BY <1>4, <1>5

\* The ranks of the names of a set are the numbers below its cardinality.
LEMMA RankDense ==
  ASSUME NEW names, names \subseteq Names
  PROVE  /\ IsFiniteSet(names) /\ Cardinality(names) \in Nat
         /\ \A n, m \in names : Rank(names, n) = Rank(names, m) => n = m
         /\ \A n \in names : Rank(names, n) \in 0..(Cardinality(names) - 1)
         /\ \A x \in 0..(Cardinality(names) - 1) :
              \E n \in names : Rank(names, n) = x
<1> DEFINE Below(n) == {m \in names : m < n}
           size == Cardinality(names)
           f == [n \in names |-> Rank(names, n)]
<1>1. IsFiniteSet(names) /\ size \in Nat /\ names \subseteq Nat
  <2>1. names \in SUBSET Names /\ IsFiniteSet(Names) /\ Names \subseteq Nat
    BY BitWeavingAssumption
  <2>2. QED
    BY <2>1, FS_Subset, FS_CardinalityType
<1>2. ASSUME NEW n \in names, NEW T \in SUBSET names, IsFiniteSet(T),
             Below(n) \cup {n} \subseteq T
      PROVE  Rank(names, n) \in Nat /\ Rank(names, n) < Cardinality(T)
  <2>1. Below(n) \in SUBSET T /\ Below(n) \cup {n} \in SUBSET T
    BY <1>2
  <2>2. IsFiniteSet(Below(n)) /\ n \notin Below(n)
    BY <1>1, <1>2, <2>1, FS_Subset
  <2>3. Cardinality(Below(n) \cup {n}) = Cardinality(Below(n)) + 1
        /\ Cardinality(Below(n)) \in Nat
    <3> HIDE DEF Below
    <3>1. QED
      BY <2>2, FS_AddElement, FS_CardinalityType
  <2>4. Cardinality(Below(n) \cup {n}) <= Cardinality(T) /\ Cardinality(T) \in Nat
    <3> HIDE DEF Below
    <3>1. QED
      BY <1>2, <2>1, FS_Subset, FS_CardinalityType
  <2>5. Rank(names, n) = Cardinality(Below(n))
    BY DEF Rank
  <2> HIDE DEF Below
  <2>6. QED
    BY <2>3, <2>4, <2>5
<1>3. ASSUME NEW n \in names
      PROVE  Rank(names, n) \in 0..(size - 1)
  <2>1. Below(n) \cup {n} \subseteq names
    OBVIOUS
  <2>2. QED
    BY <1>1, <1>2, <2>1
<1>4. ASSUME NEW n \in names, NEW m \in names, n < m
      PROVE  Rank(names, n) < Rank(names, m)
  <2>1. Below(n) \cup {n} \subseteq Below(m)
    <3>1. ASSUME NEW k \in Below(n)
          PROVE  k \in Below(m)
      <4>1. k \in Nat /\ n \in Nat /\ m \in Nat
        BY <1>1
      <4>2. k < m
        BY <1>4, <4>1
      <4>3. QED
        BY <4>2
    <3>2. n \in Below(m)
      BY <1>4
    <3> HIDE DEF Below
    <3>3. QED
      BY <3>1, <3>2
  <2>2. Below(m) \in SUBSET names /\ IsFiniteSet(Below(m))
    BY <1>1, FS_Subset
  <2>3. QED
    BY <1>2, <2>1, <2>2 DEF Rank
<1>5. \A n, m \in names : Rank(names, n) = Rank(names, m) => n = m
  <2>1. ASSUME NEW n \in names, NEW m \in names, Rank(names, n) = Rank(names, m)
        PROVE  n = m
    <3>1. Rank(names, n) \in Nat /\ n \in Nat /\ m \in Nat
      BY <1>1, <1>3
    <3>2. ~(n < m) /\ ~(m < n)
      BY <1>4, <2>1, <3>1
    <3>3. QED
      BY <3>1, <3>2
  <2>2. QED
    BY <2>1
<1>6. f \in Surjection(names, 0..(size - 1))
  <2>1. f \in Injection(names, 0..(size - 1))
    <3>1. f \in [names -> 0..(size - 1)]
      BY <1>3
    <3>2. QED
      BY <1>5, <3>1 DEF Injection, IsInjective
  <2>2. IsFiniteSet(0..(size - 1)) /\ Cardinality(0..(size - 1)) = size
    <3>1. size - 1 \in Int /\ 0 \in Int
      BY <1>1
    <3>2. /\ IsFiniteSet(0..(size - 1))
          /\ Cardinality(0..(size - 1)) =
               IF 0 > size - 1 THEN 0 ELSE (size - 1) - 0 + 1
      <4> HIDE DEF size
      <4>1. QED
        BY <3>1, FS_Interval
    <3>3. QED
      BY <1>1, <3>2
  <2>3. QED
    BY <2>1, <2>2, FS_Injection
<1>7. \A x \in 0..(size - 1) : \E n \in names : Rank(names, n) = x
  BY <1>6 DEF Surjection
<1>8. QED
  BY <1>1, <1>3, <1>5, <1>7

\* The ids of a table that is loaded are the ranks of its names.
LEMMA DenseLoad ==
  ASSUME NEW names, names \subseteq Names, NEW tb,
         tb.free_column_ids = <<>>, DOMAIN tb.map = names,
         \A n \in names : tb.map[n].id = Rank(names, n)
  PROVE  Dense(tb)
<1>1. Len(tb.free_column_ids) = 0 /\ \A i \in 1..Len(tb.free_column_ids) : FALSE
  BY EmptyBlocks
<1>2. GetMaxColumnId(tb) = Cardinality(names) /\ Cardinality(names) \in Nat
  BY <1>1, RankDense DEF GetMaxColumnId
<1>3. QED
  BY <1>1, <1>2, RankDense DEF Dense

-----------------------------------------------------------------------------
(* What the actions do to the table and to the codes that are recorded. *)

\* The codes that are sure to be in a column are those that it has.
HasCodes(c, codes, junk0) ==
  /\ DOMAIN codes = AllTids
  /\ \A t \in AllTids : codes[t].sure => codes[t].code = CodeAt(c, t, junk0)

CodesHold(tb, w, junk0) ==
  /\ DOMAIN w = DOMAIN tb.map
  /\ \A n \in DOMAIN tb.map : HasCodes(tb.map[n], w[n], junk0)

\* A step of the table, with the codes that are recorded for it: its shape
\* stays, and so does what holds of it.  That ids are dense need not stay when
\* one is lost.
TableStep(tb, new, formats, keepsIds, w, newW, junk0, newFault) ==
  /\ TableOK(new, formats)
  /\ AllFit(tb) => AllFit(new)
  /\ Dense(tb) /\ keepsIds => Dense(new)
  /\ newFault = "assert" /\ AllFit(tb) => new.num % kNumCodesPerBlock = 0
  /\ newFault = "none" /\ CodesHold(tb, w, junk0) => CodesHold(new, newW, junk0)

\* What the actions find.
Given0 ==
  /\ schema \in Schemas /\ junk \in Junks
  /\ TableOK(table, schema)

\* What follows for the choices and for the table.
LEMMA GivenFacts ==
  ASSUME Given0
  PROVE  /\ junk \in Nat /\ TableOK(table, schema)
         /\ \A n \in Names : FormatOK(schema[n].type, schema[n].size)
         /\ table.num \in Nat
         /\ DOMAIN schema = Names /\ DOMAIN table.map \subseteq Names
  BY BitWeavingAssumption, Numbers DEF Given0, TableOK, MapOK

\* A column that can make blocks has a format.
LEMMA CanGrowOK ==
  ASSUME Given0, NEW num \in Nat
  PROVE  /\ CanGrow(num) => \A n \in DOMAIN table.map : Resizable(table.map[n], num)
         /\ AllFit(table) => CanGrow(num)
<1>1. ASSUME CanGrow(num), NEW n \in DOMAIN table.map
      PROVE  Resizable(table.map[n], num)
  <2> DEFINE c == table.map[n]
  <2>1. ColumnOK(c)
    BY DEF Given0, TableOK, MapOK
  <2>2. c.size > 0 \/ CEIL(num, kNumCodesPerBlock) <= Len(c.blocks)
    BY <1>1 DEF CanGrow
  <2>3. c.size > 0 => FormatOK(c.type, c.size)
    BY <2>1 DEF ColumnOK
  <2>4. QED
    BY <2>2, <2>3 DEF Resizable
<1>2. ASSUME AllFit(table)
      PROVE  CanGrow(num)
  BY <1>2, BitWordsAssumption DEF AllFit, CanGrow, FormatOK
<1>3. QED
  BY <1>1, <1>2

\* A blank column has the codes of one that nothing was written to.
LEMMA BlankCodes ==
  ASSUME NEW type, NEW t \in AllTids
  PROVE  Blank(type)[t].code = Unwritten(type, junk) /\ DOMAIN Blank(type) = AllTids
  BY DEF Blank, Unwritten

\* Tuples are numbers.
LEMMA TidsAreNumbers == AllTids \subseteq Nat /\ MaxTuples \in Nat
  BY Numbers DEF AllTids, Tids

\* The codes of a column that is added.
LEMMA AddedCodes ==
  ASSUME NEW id \in Nat, NEW type, NEW size, FormatOK(type, size),
         NEW num \in Nat, junk \in Nat,
         NEW c, c = ColumnResize(NewColumn(id, type, size), num, junk)
  PROVE  HasCodes(c, Blank(type), junk)
<1> DEFINE d == NewColumn(id, type, size)
<1>1. ColumnOK(d) /\ d.type = type /\ d.size = size /\ Len(d.blocks) = 0
  BY NewColumnOK DEF NewColumn
<1>2. Resizable(d, num) /\ c = ColumnResize(d, num, junk)
  BY <1>1 DEF Resizable
<1> HIDE DEF d
<1>3. ASSUME NEW t \in AllTids
      PROVE  Blank(type)[t].code = CodeAt(c, t, junk)
  <2>1. t \in Nat
    BY TidsAreNumbers
  <2>2. CodeAt(d, t, junk) = Unwritten(type, junk)
    <3>1. ~(BlockOf(t) <= Len(d.blocks))
      BY <1>1, <2>1, PlaceOfTuple
    <3>2. QED
      BY <1>1, <3>1 DEF CodeAt
  <2>3. CodeAt(c, t, junk) = Unwritten(type, junk)
    BY <1>1, <1>2, <2>1, <2>2, ResizeCodes
  <2>4. QED
    BY <2>3, BlankCodes
<1>4. DOMAIN Blank(type) = AllTids
  BY DEF Blank
<1>5. QED
  BY <1>3, <1>4 DEF HasCodes

\* A new column, or a refused one.
LEMMA AddNameStep ==
  ASSUME Given0, NEW n \in Names, AddName(n)
  PROVE  TableStep(table, table', schema, lost' = {}, written, written', junk,
                   fault')
<1> DEFINE type == schema[n].type
           size == schema[n].size
           new == AddColumn(table, n, type, size, junk)
           c == AddedColumn(table, type, size, junk)
<1>1. /\ table' = new /\ fault' = "none"
      /\ n \in DOMAIN table.map => written' = written
      /\ n \notin DOMAIN table.map => written' = Insert(written, n, Blank(type))
      /\ n \in DOMAIN table.map /\ table.free_column_ids # <<>> => lost' # {}
  BY DEF AddName, Change
<1>2. /\ TableOK(new, schema) /\ new.num = table.num
      /\ new.free_column_ids = OtherIds(table)
      /\ TakenId(table) \in Nat
      /\ n \in DOMAIN table.map => new.map = table.map
      /\ n \notin DOMAIN table.map =>
           /\ DOMAIN new.map = DOMAIN table.map \cup {n}
           /\ \A m \in DOMAIN table.map : new.map[m] = table.map[m]
           /\ new.map[n] = c
      /\ ColumnOK(c) /\ Fits(c, table.num) /\ c.id = TakenId(table)
      /\ c.type = type /\ c.size = size
  <2>1. /\ TableOK(table, schema) /\ FormatOK(schema[n].type, schema[n].size)
        /\ junk \in Nat /\ n \in DOMAIN schema
    BY GivenFacts
  <2>2. /\ new = AddColumn(table, n, schema[n].type, schema[n].size, junk)
        /\ c = AddedColumn(table, schema[n].type, schema[n].size, junk)
    OBVIOUS
  <2> HIDE DEF new, c
  <2>3. AddsColumn(new, table, n, c, schema[n]) /\ TableOK(new, schema)
    BY <2>1, <2>2, AddColumnOK
  <2>4. QED
    BY <2>3 DEF AddsColumn
<1>3. FormatOK(type, size) /\ junk \in Nat /\ table.num \in Nat
      /\ TableOK(table, schema)
  BY GivenFacts
<1>c. HasCodes(c, Blank(type), junk)
  <2>1. c = ColumnResize(NewColumn(TakenId(table), type, size), table.num, junk)
    BY DEF AddedColumn
  <2> HIDE DEF c, type, size
  <2>2. QED
    BY <1>2, <1>3, <2>1, AddedCodes
<1> HIDE DEF new, c, type, size
<1>4. CASE n \in DOMAIN table.map
  <2>1. AllFit(table) => AllFit(new)
    BY <1>2, <1>4 DEF AllFit
  <2>2. ASSUME Dense(table), lost' = {}
        PROVE  Dense(new)
    <3>1. table.free_column_ids = <<>>
      BY <1>1, <1>4, <2>2
    <3>2. new.free_column_ids = table.free_column_ids
      BY <1>2, <3>1 DEF OtherIds
    <3>3. QED
      BY <1>2, <1>4, <2>2, <3>2, DenseSame
  <2>3. CodesHold(table, written, junk) => CodesHold(new, written, junk)
    BY <1>2, <1>4 DEF CodesHold
  <2>4. QED
    BY <1>1, <1>2, <1>4, <2>1, <2>2, <2>3 DEF TableStep
<1>5. CASE n \notin DOMAIN table.map
  <2>1. ASSUME AllFit(table)
        PROVE  AllFit(new)
    <3>1. ASSUME NEW m \in DOMAIN new.map
          PROVE  Fits(new.map[m], new.num) /\ FormatOK(new.map[m].type, new.map[m].size)
      <4>1. CASE m = n
        BY <1>2, <1>3, <1>5, <4>1
      <4>2. CASE m # n
        BY <1>2, <1>5, <2>1, <4>2 DEF AllFit
      <4>3. QED
        BY <4>1, <4>2
    <3>2. QED
      BY <3>1 DEF AllFit
  <2>2. Dense(table) => Dense(new)
    BY <1>2, <1>3, <1>5, DenseAdd
  <2>3. ASSUME CodesHold(table, written, junk)
        PROVE  CodesHold(new, written', junk)
    <3>1. /\ DOMAIN written' = DOMAIN written \cup {n}
          /\ written'[n] = Blank(type)
          /\ \A m \in DOMAIN written : m # n => written'[m] = written[m]
      BY <1>1, <1>5 DEF Insert
    <3>2. ASSUME NEW m \in DOMAIN new.map
          PROVE  HasCodes(new.map[m], written'[m], junk)
      <4>1. CASE m = n
        BY <1>2, <1>5, <1>c, <3>1, <4>1
      <4>2. CASE m # n
        BY <1>2, <1>5, <2>3, <3>1, <4>2 DEF CodesHold
      <4>3. QED
        BY <4>1, <4>2
    <3>3. QED
      BY <1>2, <1>5, <2>3, <3>1, <3>2 DEF CodesHold
  <2>4. QED
    BY <1>1, <1>2, <2>1, <2>2, <2>3 DEF TableStep
<1>6. QED
  BY <1>4, <1>5

\* A column less.
LEMMA RemoveNameStep ==
  ASSUME Given0, NEW n \in Names, RemoveName(n)
  PROVE  TableStep(table, table', schema, TRUE, written, written', junk, fault')
<1>1. /\ n \in DOMAIN table.map /\ table' = RemoveColumn(table, n)
      /\ fault' = "none" /\ written' = Erase(written, n)
  BY DEF RemoveName, Change
<1>2. TableOK(table, schema)
  BY GivenFacts
<1>3. /\ TableOK(table', schema) /\ table'.num = table.num
      /\ DOMAIN table'.map = DOMAIN table.map \ {n}
      /\ \A m \in DOMAIN table'.map : table'.map[m] = table.map[m]
      /\ table'.free_column_ids = Append(table.free_column_ids, table.map[n].id)
  BY <1>1, <1>2, RemoveColumnOK
<1>4. AllFit(table) => AllFit(table')
  BY <1>3 DEF AllFit
<1>5. Dense(table) => Dense(table')
  BY <1>1, <1>2, <1>3, DenseRemove
<1>6. ASSUME CodesHold(table, written, junk)
      PROVE  CodesHold(table', written', junk)
  <2>1. /\ DOMAIN written' = DOMAIN written \ {n}
        /\ \A m \in DOMAIN written' : written'[m] = written[m]
    BY <1>1 DEF Erase
  <2>2. QED
    BY <1>3, <1>6, <2>1 DEF CodesHold
<1>7. QED
  BY <1>1, <1>3, <1>4, <1>5, <1>6 DEF TableStep

\* The codes that are recorded after a resize.
LEMMA ResizedCodes ==
  ASSUME Given0, NEW num \in Nat, NEW tb, TableOK(tb, schema),
         ResizedTo(tb, table, num, junk),
         \A n \in DOMAIN table.map : Resizable(table.map[n], num),
         CodesHold(table, written, junk)
  PROVE  CodesHold(tb, Resized(written, num), junk)
<1>1. /\ DOMAIN Resized(written, num) = DOMAIN written
      /\ DOMAIN tb.map = DOMAIN table.map /\ DOMAIN written = DOMAIN table.map
  BY DEF Resized, CodesHold, ResizedTo
<1>2. ASSUME NEW n \in DOMAIN table.map
      PROVE  HasCodes(tb.map[n], Resized(written, num)[n], junk)
  <2> DEFINE c == table.map[n]
             d == ColumnResize(c, num, junk)
             w == written[n]
             r == Resized(written, num)[n]
  <2>1. /\ ColumnOK(c) /\ Resizable(c, num) /\ tb.map[n] = d /\ junk \in Nat
    BY GivenFacts DEF TableOK, MapOK, ResizedTo
  <2>2. r = [t \in AllTids |-> IF BlockOf(t) > CEIL(num, kNumCodesPerBlock)
                               THEN Blank(c.type)[t] ELSE w[t]]
    BY <1>1 DEF Resized
  <2>3. HasCodes(c, w, junk)
    BY DEF CodesHold
  <2>4. ASSUME NEW t \in AllTids
        PROVE  r[t].sure => r[t].code = CodeAt(d, t, junk)
    <3>1. r[t] = IF BlockOf(t) > CEIL(num, kNumCodesPerBlock)
                 THEN Blank(c.type)[t] ELSE w[t]
      BY <2>2
    <3>2. t \in Nat /\ BlockOf(t) \in Nat /\ CEIL(num, kNumCodesPerBlock) \in Nat
      BY TidsAreNumbers, PlaceOfTuple, BlocksOf
    <3>3. w[t].sure => w[t].code = CodeAt(c, t, junk)
      BY <2>3 DEF HasCodes
    <3>4. Blank(c.type)[t].code = Unwritten(c.type, junk)
      BY BlankCodes
    <3>5. /\ BlockOf(t) <= CEIL(num, kNumCodesPerBlock)
               => CodeAt(d, t, junk) = CodeAt(c, t, junk)
          /\ ~(BlockOf(t) <= CEIL(num, kNumCodesPerBlock))
               => CodeAt(d, t, junk) = Unwritten(c.type, junk)
      <4> HIDE DEF c
      <4>1. QED
        BY <2>1, <3>2, ResizeCodes
    <3> HIDE DEF c, d, w, r
    <3>6. QED
      BY <3>1, <3>2, <3>3, <3>4, <3>5
  <2>5. DOMAIN r = AllTids
    BY <2>2
  <2>6. QED
    BY <2>1, <2>4, <2>5 DEF HasCodes
<1>3. QED
  BY <1>1, <1>2 DEF CodesHold

\* A new size.
LEMMA ResizeStep ==
  ASSUME Given0, NEW num \in Sizes, Resize(num)
  PROVE  TableStep(table, table', schema, TRUE, written, written', junk, fault')
<1>1. /\ num # table.num /\ num \in 0..MaxTuples /\ num \in Nat
      /\ written' = Resized(written, num)
  BY BitWeavingAssumption, Numbers DEF Resize, Change
<1>2. TableOK(table, schema) /\ junk \in Nat
  BY GivenFacts
<1>3. CASE CanGrow(num)
  <2>1. table' = TableResize(table, num, junk) /\ fault' = "none"
    BY <1>3 DEF Resize, Change
  <2>2. \A n \in DOMAIN table.map : Resizable(table.map[n], num)
    BY <1>1, <1>3, CanGrowOK
  <2>3. /\ TableOK(table', schema) /\ ResizedTo(table', table, num, junk)
        /\ \A n \in DOMAIN table.map : Full(table.map[n]) => Fits(table'.map[n], num)
    BY <1>1, <1>2, <2>1, <2>2, TableResizeOK
  <2>4. ASSUME NEW n \in DOMAIN table.map
        PROVE  /\ table'.map[n].id = table.map[n].id
               /\ table'.map[n].type = table.map[n].type
               /\ table'.map[n].size = table.map[n].size
    <3> DEFINE c == table.map[n]
               d == ColumnResize(c, num, junk)
    <3>1. ColumnOK(c) /\ Resizable(c, num) /\ table'.map[n] = d
      BY <1>2, <2>2, <2>3 DEF TableOK, MapOK, ResizedTo
    <3>2. d.id = c.id /\ d.type = c.type /\ d.size = c.size
      <4> HIDE DEF c
      <4>1. QED
        BY <1>1, <1>2, <3>1, ResizeOK
    <3>3. QED
      BY <3>1, <3>2
  <2>5. AllFit(table) => AllFit(table')
    BY <2>3, <2>4 DEF AllFit, ResizedTo, Fits
  <2>6. Dense(table) => Dense(table')
    BY <2>3, <2>4, DenseSame DEF ResizedTo
  <2>7. CodesHold(table, written, junk) => CodesHold(table', written', junk)
    BY <1>1, <2>2, <2>3, ResizedCodes
  <2>8. QED
    BY <2>1, <2>3, <2>5, <2>6, <2>7 DEF TableStep
<1>4. CASE ~CanGrow(num)
  <2>1. table' = table /\ fault' = "assert"
    BY <1>4 DEF Resize, Change
  <2>2. ~AllFit(table)
    BY <1>1, <1>4, CanGrowOK
  <2>3. QED
    BY <1>2, <2>1, <2>2 DEF TableStep
<1>5. QED
  BY <1>3, <1>4


\* A code that is set where there was none is there.
LEMMA JoinedToNone ==
  ASSUME NEW c, ColumnOK(c), NEW code, CodeFits(c.type, c.size, code),
         NEW old, c.type # "kBitWeavingH" \/ old = 0
  PROVE  Joined(c.type, old, code) = code
<1>1. CASE c.type # "kBitWeavingH"
  BY <1>1 DEF Joined
<1>2. CASE c.type = "kBitWeavingH"
  <2>0. /\ c.size \in 0..kNumBitsPerWord /\ code \in Nat /\ code < Pow2[c.size]
        /\ 0 \in 0..kNumBitsPerWord /\ 0 < Pow2[0]
    BY <1>2, BitWordsAssumption, Powers DEF ColumnOK, FormatOK, CodeFits
  <2>1. WordOf[0] \cup WordOf[code] = WordOf[code]
    <3>1. WordOf[0] \in SUBSET (0..(0 - 1))
      BY <2>0, SmallWord
    <3>2. QED
      BY <3>1
  <2>2. ValueOf[WordOf[code]] = code
    BY <2>0, SmallWord, ValueOfWord
  <2>3. QED
    BY <1>2, <2>1, <2>2 DEF Joined
<1>3. QED
  BY <1>1, <1>2

\* What is sure of a code that is put.
LEMMA WhatIsPut ==
  ASSUME NEW type, NEW old, NEW code
  PROVE  /\ Put(type, old, code).code = code
         /\ Put(type, old, code).sure
              => type # "kBitWeavingH" \/ (old.sure /\ old.code = 0)
<1>1. Put(type, old, code).code = code
  BY DEF Put
<1>2. ASSUME Put(type, old, code).sure
      PROVE  type # "kBitWeavingH" \/ (old.sure /\ old.code = 0)
  BY <1>2, Zenon DEF Put
<1>3. QED
  BY <1>1, <1>2

\* Codes are loaded into one column.
LEMMA OverwrittenCodes ==
  ASSUME NEW g, NEW w, CodesHold(g, w, junk), NEW n \in DOMAIN g.map,
         g.map[n].type = table.map[n].type,
         NEW codes, NEW pos \in Nat, NEW d,
         LoadsCodes(d, g.map[n], codes, pos, junk),
         ColumnOK(g.map[n]), CodesFit(g.map[n].type, g.map[n].size, codes),
         NEW new, Replaces(new, g, n, d)
  PROVE  CodesHold(new, Overwritten(w, n, codes, pos), junk)
<1> DEFINE v == Overwritten(w, n, codes, pos)
           type == table.map[n].type
           old == w[n]
           c == g.map[n]
           r == [t \in AllTids |-> IF t \in pos..(pos + Len(codes) - 1)
                                   THEN Put(type, old[t], codes[t - pos + 1])
                                   ELSE old[t]]
<1>1. v = [w EXCEPT ![n] = r]
  BY DEF Overwritten
<1>2. /\ DOMAIN w = DOMAIN g.map
      /\ \A m \in DOMAIN g.map : HasCodes(g.map[m], w[m], junk)
  BY DEF CodesHold
<1>3. /\ DOMAIN v = DOMAIN g.map
      /\ \A m \in DOMAIN g.map : v[m] = IF m = n THEN r ELSE w[m]
  <2> HIDE DEF v, r
  <2>1. QED
    BY <1>1, <1>2
<1>4. HasCodes(d, r, junk)
  <2>1. ASSUME NEW t \in AllTids
        PROVE  r[t].sure => r[t].code = CodeAt(d, t, junk)
    <3>1. r[t] = IF t \in pos..(pos + Len(codes) - 1)
                 THEN Put(type, old[t], codes[t - pos + 1]) ELSE old[t]
      OBVIOUS
    <3>2. t \in Nat /\ (old[t].sure => old[t].code = CodeAt(c, t, junk))
      BY <1>2, TidsAreNumbers DEF HasCodes
    <3>3. CodeAt(d, t, junk) =
            IF t \in pos..(pos + Len(codes) - 1)
            THEN Joined(c.type, CodeAt(c, t, junk), codes[t - pos + 1])
            ELSE CodeAt(c, t, junk)
      BY <3>2 DEF LoadsCodes
    <3>4. ASSUME t \in pos..(pos + Len(codes) - 1), r[t].sure
          PROVE  r[t].code = Joined(c.type, CodeAt(c, t, junk), codes[t - pos + 1])
      <4> DEFINE code == codes[t - pos + 1]
      <4>1. t - pos + 1 \in 1..Len(codes)
        BY <3>2, <3>4 DEF CodesFit
      <4>2. CodeFits(c.type, c.size, code)
        BY <4>1 DEF CodesFit
      <4>3. r[t] = Put(type, old[t], code) /\ type = c.type
        BY <3>1, <3>4
      <4> HIDE DEF r, old, c, type, code
      <4>4. /\ r[t].code = code
            /\ type # "kBitWeavingH" \/ CodeAt(c, t, junk) = 0
        <5>1. /\ r[t].code = code
              /\ type # "kBitWeavingH" \/ (old[t].sure /\ old[t].code = 0)
          BY <3>4, <4>3, WhatIsPut
        <5>2. QED
          BY <3>2, <5>1
      <4>5. Joined(c.type, CodeAt(c, t, junk), code) = code
        <5>1. CodeFits(c.type, c.size, code) /\ ColumnOK(c)
          BY <4>2 DEF c
        <5>2. c.type # "kBitWeavingH" \/ CodeAt(c, t, junk) = 0
          BY <4>3, <4>4
        <5>3. QED
          BY <5>1, <5>2, JoinedToNone
      <4>6. QED
        BY <4>4, <4>5 DEF code, c
    <3> HIDE DEF r, old, c, type
    <3>5. QED
      BY <3>1, <3>2, <3>3, <3>4
  <2>2. DOMAIN r = AllTids
    OBVIOUS
  <2> HIDE DEF r
  <2>3. QED
    BY <2>1, <2>2 DEF HasCodes
<1> HIDE DEF v, r
<1>5. ASSUME NEW m \in DOMAIN g.map
      PROVE  HasCodes(new.map[m], v[m], junk)
  <2>1. CASE m = n
    BY <1>3, <1>4, <2>1 DEF Replaces
  <2>2. CASE m # n
    BY <1>2, <1>3, <2>2 DEF Replaces
  <2>3. QED
    BY <2>1, <2>2
<1>6. DOMAIN new.map = DOMAIN g.map
  BY DEF Replaces
<1>7. CodesHold(new, v, junk)
  BY <1>3, <1>5, <1>6 DEF CodesHold
<1>8. QED
  BY <1>7 DEF v

\* Nothing is said of the codes of one column.
LEMMA UnsureCodes ==
  ASSUME NEW g, NEW w, CodesHold(g, w, junk), NEW n \in DOMAIN g.map, NEW d,
         NEW new, Replaces(new, g, n, d)
  PROVE  CodesHold(new, Unsure(w, n), junk)
<1> DEFINE r == [t \in AllTids |-> [code |-> w[n][t].code, sure |-> FALSE]]
           v == Unsure(w, n)
<1>1. /\ DOMAIN w = DOMAIN g.map
      /\ \A m \in DOMAIN g.map : HasCodes(g.map[m], w[m], junk)
  BY DEF CodesHold
<1>2. v = [w EXCEPT ![n] = r]
  BY DEF Unsure
<1>3. DOMAIN r = AllTids /\ \A t \in AllTids : ~r[t].sure
  OBVIOUS
<1> HIDE DEF r, v
<1>4. /\ DOMAIN v = DOMAIN g.map
      /\ \A m \in DOMAIN g.map : v[m] = IF m = n THEN r ELSE w[m]
  BY <1>1, <1>2
<1>5. ASSUME NEW m \in DOMAIN g.map
      PROVE  HasCodes(new.map[m], v[m], junk)
  <2>1. CASE m = n
    BY <1>3, <1>4, <2>1 DEF HasCodes
  <2>2. CASE m # n
    BY <1>1, <1>4, <2>2 DEF Replaces
  <2>3. QED
    BY <2>1, <2>2
<1>6. DOMAIN new.map = DOMAIN g.map
  BY DEF Replaces
<1>7. QED
  BY <1>4, <1>5, <1>6 DEF CodesHold, v

\* A code that fits the codes of a name fits the column of the name.
LEMMA CodeFitsColumn ==
  ASSUME Given0, NEW n \in DOMAIN table.map, NEW code \in Nat,
         code < Pow2[schema[n].size]
  PROVE  CodeFits(table.map[n].type, table.map[n].size, code)
<1>1. FormatOf(table.map[n], schema[n])
  BY DEF Given0, TableOK, MapOK
<1>2. QED
  BY <1>1 DEF FormatOf, CodeFits

\* The columns of a table that has grown.
LEMMA GrownSame ==
  ASSUME Given0, NEW end \in 0..MaxTuples,
         end > table.num => CanGrow(end),
         NEW g, g = Grown(table, end, junk), NEW n \in DOMAIN table.map
  PROVE  /\ g.map[n].id = table.map[n].id
         /\ g.map[n].type = table.map[n].type
         /\ g.map[n].size = table.map[n].size
<1>0. end \in Nat /\ junk \in Nat /\ TableOK(table, schema)
  BY GivenFacts, Numbers
<1>1. end > table.num => \A m \in DOMAIN table.map : Resizable(table.map[m], end)
  BY <1>0, CanGrowOK
<1>2. /\ end > table.num => ResizedTo(g, table, end, junk)
      /\ ~(end > table.num) => g = table
  BY <1>0, <1>1, GrownOK
<1>3. CASE end > table.num
  <2> DEFINE c == table.map[n]
             d == ColumnResize(c, end, junk)
  <2>1. ColumnOK(c) /\ Resizable(c, end) /\ g.map[n] = d
    BY <1>0, <1>1, <1>2, <1>3 DEF TableOK, MapOK, ResizedTo
  <2>2. d.id = c.id /\ d.type = c.type /\ d.size = c.size
    <3> HIDE DEF c
    <3>1. QED
      BY <1>0, <2>1, ResizeOK
  <2>3. QED
    BY <2>1, <2>2
<1>4. QED
  BY <1>2, <1>3

\* Codes are loaded.
LEMMA BulkloadStep ==
  ASSUME Given0, NEW n \in Names, NEW codes \in Batches, NEW pos \in Starts,
         BulkloadCodes(n, codes, pos)
  PROVE  TableStep(table, table', schema, TRUE, written, written', junk, fault')
<1> DEFINE end == pos + Len(codes)
           g == Grown(table, end, junk)
           result == Bulkload(table, n, codes, pos, junk)
           bulk == ColumnBulkload(g.map[n], codes, pos)
           new == result.table
           w == IF end > table.num THEN Resized(written, end) ELSE written
<1>0. /\ n \in DOMAIN table.map
      /\ codes \in Seq(Nat) /\ Len(codes) \in Nat /\ pos \in Nat
      /\ CodesOK(codes)
      /\ end \in 0..MaxTuples /\ end <= MaxTuples
      /\ junk \in Nat /\ TableOK(table, schema)
  <2>1. codes \in Seq(Nat) /\ pos \in Nat
    BY BitWeavingAssumption
  <2>2. Len(codes) \in Nat /\ \A i \in 1..Len(codes) : codes[i] \in Nat
    BY <2>1
  <2>3. n \in DOMAIN table.map /\ end <= MaxTuples
    BY DEF BulkloadCodes
  <2>4. end \in 0..MaxTuples
    BY <2>1, <2>2, <2>3, Numbers
  <2>5. QED
    BY <2>1, <2>2, <2>3, <2>4, GivenFacts DEF CodesOK
<1>1. CASE end > table.num /\ ~CanGrow(end)
  <2>1. table' = table /\ fault' = "assert"
    BY <1>1 DEF BulkloadCodes, Change
  <2>2. ~AllFit(table)
    BY <1>0, <1>1, CanGrowOK, Numbers
  <2>3. QED
    BY <1>0, <2>1, <2>2 DEF TableStep
<1>2. CASE ~(end > table.num /\ ~CanGrow(end))
  <2>1. /\ table' = new
        /\ fault' = IF result.ok THEN "none" ELSE "assert"
        /\ written' = Loaded(new.map[n], w, n, codes, pos)
    BY <1>2 DEF BulkloadCodes, Change
  <2>2. end > table.num => \A m \in DOMAIN table.map : Resizable(table.map[m], end)
    BY <1>0, <1>2, CanGrowOK, Numbers
  <2>3. /\ TableOK(new, schema)
        /\ new.num = IF end > table.num THEN end ELSE table.num
        /\ new.free_column_ids = table.free_column_ids
        /\ DOMAIN new.map = DOMAIN table.map
        /\ \A m \in DOMAIN table.map :
             new.map[m] = IF m = n THEN bulk.column ELSE g.map[m]
        /\ SameShape(bulk.column, g.map[n])
        /\ result.ok => bulk.ok
        /\ AllFit(table) => AllFit(new)
        /\ AllFit(table) /\ new.num % kNumCodesPerBlock # 0 => result.ok
    <3>1. /\ end = pos + Len(codes) /\ g = Grown(table, end, junk)
          /\ result = Bulkload(table, n, codes, pos, junk)
          /\ bulk = ColumnBulkload(g.map[n], codes, pos)
          /\ new = result.table
      BY DEF end, g, result, bulk, new
    <3>2. /\ n \in DOMAIN table.map /\ TableOK(table, schema)
          /\ CodesOK(codes) /\ pos \in Nat /\ end <= MaxTuples /\ junk \in Nat
      BY <1>0
    <3> HIDE DEF end, g, result, bulk, new, w
    <3>3. QED
      BY <2>2, <3>1, <3>2, BulkloadTableOK, SMTT(60)
  <2>4. /\ TableOK(g, schema) /\ DOMAIN g.map = DOMAIN table.map
        /\ g.num = new.num /\ g.free_column_ids = table.free_column_ids
        /\ end > table.num => ResizedTo(g, table, end, junk)
        /\ ~(end > table.num) => g = table
    BY <1>0, <2>2, <2>3, GrownOK
  <2>5. ASSUME NEW m \in DOMAIN table.map
        PROVE  g.map[m].id = table.map[m].id /\ g.map[m].type = table.map[m].type
               /\ g.map[m].size = table.map[m].size
    BY <1>0, <1>2, GrownSame
  <2>6. \A m \in DOMAIN table.map : new.map[m].id = table.map[m].id
    BY <1>0, <2>3, <2>5 DEF SameShape
  <2>7. Dense(table) => Dense(new)
    <3> HIDE DEF new
    <3>1. QED
      BY <2>3, <2>6, DenseSame
  <2>8. ASSUME result.ok, CodesHold(table, written, junk)
        PROVE  CodesHold(new, written', junk)
    <3> DEFINE c == g.map[n]
               d == bulk.column
    <3>1. CodesHold(g, w, junk)
      <4>1. CASE end > table.num
        BY <1>0, <2>2, <2>4, <2>8, <4>1, ResizedCodes, Numbers
      <4>2. CASE ~(end > table.num)
        BY <2>4, <2>8, <4>2
      <4>3. QED
        BY <4>1, <4>2
    <3>2. CodesFit(c.type, c.size, codes)
      <4>1. ASSUME NEW i \in 1..Len(codes)
            PROVE  CodeFits(c.type, c.size, codes[i])
        <5> DEFINE code == codes[i]
        <5>1. code \in Nat /\ code < Pow2[schema[n].size]
          BY <1>0 DEF BulkloadCodes
        <5>2. CodeFits(table.map[n].type, table.map[n].size, code)
          <6> HIDE DEF code
          <6>1. QED
            BY <1>0, <5>1, CodeFitsColumn
        <5>3. QED
          BY <1>0, <2>5, <5>2
      <4>2. QED
        BY <1>0, <4>1 DEF CodesFit
    <3>3. ColumnOK(c) /\ c.type = table.map[n].type
      BY <1>0, <2>4, <2>5 DEF TableOK, MapOK
    <3>4. ASSUME ~HasGap(d)
          PROVE  LoadsCodes(d, c, codes, pos, junk)
      <4> HIDE DEF c
      <4>1. bulk = ColumnBulkload(c, codes, pos) /\ bulk.ok /\ SameShape(d, c)
        BY <2>3, <2>8 DEF c
      <4>2. Full(c)
        <5>1. \A i \in 1..(Len(c.blocks) - 1) : i \in 1..Len(c.blocks)
          BY <3>3 DEF ColumnOK
        <5>2. QED
          BY <3>4, <4>1, <5>1 DEF HasGap, Full, SameShape
      <4>3. QED
        BY <1>0, <3>2, <3>3, <4>1, <4>2, BulkloadCodesOK
    <3>5. Replaces(new, g, n, d) /\ new.map[n] = d
      BY <1>0, <2>3, <2>4 DEF Replaces
    <3>6. CASE ~HasGap(d)
      <4>1. CodesHold(new, Overwritten(w, n, codes, pos), junk)
        <5> HIDE DEF new, g, d, w, end, bulk, result
        <5>1. QED
          BY <1>0, <2>4, <3>1, <3>2, <3>3, <3>4, <3>5, <3>6, OverwrittenCodes
      <4>2. QED
        BY <2>1, <3>5, <3>6, <4>1 DEF Loaded
    <3>7. CASE HasGap(d)
      <4>1. written' = Unsure(w, n)
        BY <2>1, <3>5, <3>7 DEF Loaded
      <4>2. CodesHold(new, Unsure(w, n), junk)
        <5> HIDE DEF new, g, d, w, end, bulk, result
        <5>1. QED
          BY <1>0, <2>4, <3>1, <3>5, UnsureCodes
      <4>3. QED
        BY <4>1, <4>2
    <3>8. QED
      BY <3>6, <3>7
  <2> HIDE DEF new, result, bulk, g, end, w
  <2>9. QED
    BY <2>1, <2>3, <2>7, <2>8 DEF TableStep
<1>3. QED
  BY <1>1, <1>2

\* One code is set.
LEMMA SetOneStep ==
  ASSUME Given0, NEW n \in Names, NEW t \in Starts, NEW code \in Codes,
         SetOne(n, t, code)
  PROVE  TableStep(table, table', schema, TRUE, written, written', junk, fault')
<1> DEFINE c == table.map[n]
           d == ColumnSetCode(c, t, code)
           new == [table EXCEPT !.map[n] = d]
<1>0. /\ n \in DOMAIN table.map /\ t \in Nat /\ code \in Nat
      /\ code < Pow2[schema[n].size]
      /\ BlockOf(t) \in DOMAIN c.blocks
      /\ junk \in Nat /\ TableOK(table, schema) /\ table.num \in Nat
  BY BitWeavingAssumption, GivenFacts DEF SetOne
<1>1. /\ table' = new /\ fault' = "none"
      /\ Readable(c, t) => written' = Overwritten(written, n, <<code>>, t)
      /\ ~Readable(c, t) => written' = written
  BY DEF SetOne, Change
<1>2. ColumnOK(c) /\ BlockOf(t) <= Len(c.blocks)
  BY <1>0, LenOfFunction, PlaceOfTuple DEF TableOK, MapOK, ColumnOK
<1>3. SameShape(d, c) /\ SetsCode(d, c, t, code, junk)
  <2>1. CodeFits(c.type, c.size, code)
    BY <1>0, CodeFitsColumn
  <2> HIDE DEF c
  <2>2. QED
    BY <1>0, <1>2, <2>1, SetCodes
<1>4. TableOK(new, schema) /\ Replaces(new, table, n, d)
  <2> HIDE DEF d
  <2>1. QED
    BY <1>0, <1>3, WithColumn
<1> HIDE DEF new, d
<1>5. \A m \in DOMAIN table.map : new.map[m].id = table.map[m].id
  BY <1>3, <1>4 DEF Replaces, SameShape
<1>6. Dense(table) => Dense(new)
  BY <1>4, <1>5, DenseSame DEF Replaces
<1>7. ASSUME AllFit(table)
      PROVE  AllFit(new)
  <2>1. Fits(c, table.num) /\ FormatOK(c.type, c.size)
    BY <1>0, <1>7 DEF AllFit
  <2>2. Fits(d, table.num) /\ FormatOK(d.type, d.size)
    <3>1. FormatOK(d.type, d.size)
      BY <1>3, <2>1 DEF SameShape
    <3> HIDE DEF c
    <3>2. QED
      BY <1>0, <1>2, <1>3, <2>1, <3>1, SameShapeFits
  <2>3. ASSUME NEW m \in DOMAIN new.map
        PROVE  Fits(new.map[m], new.num) /\ FormatOK(new.map[m].type, new.map[m].size)
    <3>1. CASE m = n
      BY <1>4, <2>2, <3>1 DEF Replaces
    <3>2. CASE m # n
      BY <1>4, <1>7, <3>2 DEF Replaces, AllFit
    <3>3. QED
      BY <3>1, <3>2
  <2>4. QED
    BY <2>3 DEF AllFit
<1>8. ASSUME CodesHold(table, written, junk)
      PROVE  CodesHold(new, written', junk)
  <2>1. CASE Readable(c, t)
    <3>1. LoadsCodes(d, c, <<code>>, t, junk)
      <4>1. ASSUME NEW u \in Nat
            PROVE  CodeAt(d, u, junk) =
                     IF u \in t..(t + Len(<<code>>) - 1)
                     THEN Joined(c.type, CodeAt(c, u, junk), <<code>>[u - t + 1])
                     ELSE CodeAt(c, u, junk)
        <5>1. CodeAt(d, u, junk) = IF u = t THEN Joined(c.type, CodeAt(c, u, junk), code)
                                   ELSE CodeAt(c, u, junk)
          BY <1>3, <2>1 DEF SetsCode
        <5>2. /\ u \in t..(t + Len(<<code>>) - 1) <=> u = t
              /\ u = t => u - t + 1 = 1
          BY <1>0
        <5>3. <<code>>[1] = code
          OBVIOUS
        <5>4. QED
          BY <5>1, <5>2, <5>3
      <4>2. QED
        BY <4>1 DEF LoadsCodes
    <3>2. CodesHold(new, Overwritten(written, n, <<code>>, t), junk)
      <4>1. CodesFit(c.type, c.size, <<code>>)
        <5>1. CodeFits(c.type, c.size, code)
          BY <1>0, CodeFitsColumn
        <5> HIDE DEF c
        <5>2. QED
          BY <5>1 DEF CodesFit
      <4>2. QED
        BY <1>0, <1>2, <1>4, <1>8, <3>1, <4>1, OverwrittenCodes
    <3>3. QED
      BY <1>1, <2>1, <3>2
  <2>2. CASE ~Readable(c, t)
    <3>1. ASSUME NEW u \in AllTids
          PROVE  CodeAt(d, u, junk) = CodeAt(c, u, junk)
      <4>1. u \in Nat
        BY TidsAreNumbers
      <4>2. QED
        BY <1>3, <2>2, <4>1 DEF SetsCode
    <3>2. /\ HasCodes(c, written[n], junk) /\ DOMAIN written = DOMAIN table.map
          /\ \A m \in DOMAIN table.map : HasCodes(table.map[m], written[m], junk)
      BY <1>0, <1>8 DEF CodesHold
    <3>3. HasCodes(d, written[n], junk)
      <4> HIDE DEF c
      <4>1. QED
        BY <3>1, <3>2 DEF HasCodes
    <3>4. \A m \in DOMAIN new.map : HasCodes(new.map[m], written[m], junk)
      BY <1>4, <3>2, <3>3 DEF Replaces
    <3>5. QED
      BY <1>1, <1>4, <2>2, <3>2, <3>4 DEF CodesHold, Replaces
  <2>3. QED
    BY <2>1, <2>2
<1>9. QED
  BY <1>1, <1>4, <1>6, <1>7, <1>8 DEF TableStep


-----------------------------------------------------------------------------
(* What the actions do to the vector. *)

\* A vector selects tuples of its table.
LEMMA SelectedIn ==
  ASSUME NEW num \in Nat, NEW v, VectorOK(v, num)
  PROVE  Selected(v) \subseteq Tids(num)
<1> SUFFICES ASSUME NEW x \in Selected(v)
             PROVE  x \in Tids(num)
  OBVIOUS
<1>1. PICK i \in DOMAIN v.blocks :
        \E p \in 0..(v.blocks[i].num - 1) : x = (i - 1) * kNumCodesPerBlock + p
  BY DEF Selected
<1> DEFINE size == v.blocks[i].num
           before == (i - 1) * kNumCodesPerBlock
<1>2. i \in 1..Len(v.blocks) /\ i \in Nat \ {0}
  BY <1>1, VectorLen
<1>3. SizeOK(num, Len(v.blocks), i, size)
  BY <1>2, VectorPart
<1>4. size \in Nat /\ before + size <= num /\ before \in Nat
  <2>1. size \in Nat /\ before + size <= num
    BY <1>3, BitWordsAssumption DEF SizeOK
  <2>2. i - 1 \in Nat /\ kNumCodesPerBlock \in Nat
    BY <1>2, BitWordsAssumption
  <2>3. before \in Nat
    BY <2>2
  <2>4. QED
    BY <2>1, <2>3
<1>5. PICK p \in 0..(size - 1) : x = before + p
  BY <1>1
<1> HIDE DEF size, before
<1>6. QED
  BY <1>4, <1>5 DEF Tids

\* A scan, an inversion or a merge leaves a vector of the table, which has no
\* bit past its end if it had none.
VectorStep(tb, v, new, newChosen, newProbed, newFault) ==
  /\ VectorOK(new, tb.num)
  /\ newChosen \cup newProbed \subseteq Tids(tb.num)
  /\ newFault \in {"none", "assert"}
  /\ AllFit(tb) /\ AllClean(v) => AllClean(new) /\ newFault = "none"

\* What the scans find.
GivenVector == /\ bv # NoVector /\ VectorOK(bv, table.num)
               /\ chosen \cup probed \subseteq Tids(table.num)

\* The ways to combine a scan with the vector.
LEMMA OptsAre == Opts = Opts3
  BY DEF Opts, Opts3

\* A column of the table has the words that a scan writes.
LEMMA ColumnInVector ==
  ASSUME Given0, NEW n \in DOMAIN table.map, AllFit(table),
         NEW v, VectorOK(v, table.num)
  PROVE  /\ WithinVector(table.map[n], v)
         /\ v = bv => WordsExist(table.map[n])
<1> DEFINE c == table.map[n]
<1>1. ColumnOK(c) /\ Fits(c, table.num) /\ table.num \in Nat
  BY GivenFacts DEF TableOK, MapOK, AllFit
<1>2. /\ Len(c.blocks) = Len(v.blocks)
      /\ WithinVector(c, v)
      /\ \A i \in 1..Len(c.blocks) :
           NumWords(c.blocks[i].num) <= NumWords(v.blocks[i].num)
  <2> HIDE DEF c
  <2>1. QED
    BY <1>1, FitsVector
<1>3. DOMAIN c.blocks = 1..Len(c.blocks)
  BY <1>1, LenOfFunction DEF ColumnOK
<1> HIDE DEF c
<1>4. v = bv => WordsExist(c)
  BY <1>2, <1>3 DEF WordsExist
<1>5. QED
  BY <1>2, <1>4 DEF c

\* A scan with literals.
LEMMA ScanLiteralStep ==
  ASSUME Given0, GivenVector, NEW n \in Names, NEW p \in Predicates,
         NEW opt \in Opts, ScanLiteral(n, p, opt)
  PROVE  VectorStep(table, bv, bv', chosen', probed', fault')
<1> DEFINE c == table.map[n]
           w == ColumnScan(c, p, opt, bv)
<1>1. n \in DOMAIN table.map
  BY DEF ScanLiteral
<1>2. /\ ColumnOK(c) /\ table.num \in Nat /\ VectorOK(bv, table.num)
      /\ chosen \cup probed \subseteq Tids(table.num) /\ bv.num = table.num
  BY <1>1, GivenFacts, VectorLen DEF TableOK, MapOK, GivenVector
<1>3. CASE WordsExist(c)
  <2>1. /\ bv' = w /\ chosen' = ChosenByScan(n, p, opt)
        /\ probed' = probed /\ fault' = "none"
    BY <1>3 DEF ScanLiteral, Scanned
  <2>2. VectorOK(w, table.num) /\ (WithinVector(c, bv) => VectorKeeps(w, bv, table.num))
    <3>1. p.kind \in {"literal", "between"} /\ opt \in Opts3
      BY BitWeavingAssumption, OptsAre
    <3> HIDE DEF c
    <3>2. QED
      BY <1>2, <3>1, ColumnScanOK
  <2>3. AllFit(table) /\ AllClean(bv) => AllClean(w)
    BY <1>1, <1>2, <2>2, ColumnInVector DEF VectorKeeps
  <2>4. ChosenByScan(n, p, opt) \subseteq Tids(table.num)
    <3>1. Reached(c, p) \subseteq Tids(table.num)
      BY <1>2 DEF Reached
    <3>2. PICK found, cleared :
            ChosenByScan(n, p, opt) = Choose(opt, Reached(c, p), found, cleared)
      BY DEF ChosenByScan
    <3>3. QED
      BY <1>2, <3>1, <3>2 DEF Choose
  <2> HIDE DEF w
  <2>5. QED
    BY <1>2, <2>1, <2>2, <2>3, <2>4 DEF VectorStep
<1>4. CASE ~WordsExist(c)
  <2>1. /\ bv' = bv /\ chosen' = chosen
        /\ probed' = probed /\ fault' = "assert"
    BY <1>4 DEF ScanLiteral, Scanned
  <2>2. ~AllFit(table)
    BY <1>1, <1>2, <1>4, ColumnInVector
  <2>3. QED
    BY <1>2, <2>1, <2>2 DEF VectorStep
<1>5. QED
  BY <1>3, <1>4

\* A scan of two columns.
LEMMA ScanColumnsStep ==
  ASSUME Given0, GivenVector, NEW n \in Names, NEW m \in Names, NEW cmp,
         NEW opt \in Opts, ScanColumns(n, m, cmp, opt)
  PROVE  VectorStep(table, bv, bv', chosen', probed', fault')
<1> DEFINE c == table.map[n]
           other == table.map[m]
           w == ColumnScanColumn(c, cmp, other, opt, bv)
<1>1. n \in DOMAIN table.map /\ m \in DOMAIN table.map
  BY DEF ScanColumns
<1>2. /\ ColumnOK(c) /\ ColumnOK(other) /\ table.num \in Nat
      /\ VectorOK(bv, table.num)
      /\ chosen \cup probed \subseteq Tids(table.num) /\ bv.num = table.num
  BY <1>1, GivenFacts, VectorLen DEF TableOK, MapOK, GivenVector
<1>3. /\ bv' = w /\ fault' = "none" /\ probed' = probed
      /\ \E reached, found : /\ reached \subseteq Tids(bv.num)
                             /\ chosen' = Choose(opt, reached, found, {})
  BY DEF ScanColumns, Scanned
<1>4. VectorKeeps(w, bv, table.num)
  <2>1. opt \in Opts3
    BY OptsAre
  <2> HIDE DEF c, other
  <2>2. QED
    BY <1>2, <2>1, ColumnScanColumnOK
<1>5. chosen' \cup probed' \subseteq Tids(table.num)
  BY <1>2, <1>3 DEF Choose
<1> HIDE DEF w
<1>6. QED
  BY <1>3, <1>4, <1>5 DEF VectorStep, VectorKeeps

\* Complement.
LEMMA InvertStep ==
  ASSUME Given0, GivenVector, Invert
  PROVE  VectorStep(table, bv, bv', chosen', probed', fault')
<1>1. table.num \in Nat /\ VectorOK(bv, table.num) /\ bv.num = table.num
  BY GivenFacts, VectorLen DEF GivenVector
<1>2. /\ bv' = Complement(bv) /\ fault' = "none" /\ probed' = probed
      /\ chosen' = Tids(bv.num) \ chosen
  BY DEF Invert, Scanned
<1>3. VectorKeeps(Complement(bv), bv, table.num)
  BY <1>1, ComplementVectorOK
<1>4. QED
  BY <1>1, <1>2, <1>3 DEF VectorStep, VectorKeeps, GivenVector

\* GetBit, which sets a bit.
LEMMA ReadBitStep ==
  ASSUME Given0, GivenVector, NEW t \in Probes, NEW bit, ReadBit(t, bit)
  PROVE  VectorStep(table, bv, bv', chosen', probed', fault')
<1>1. /\ table.num \in Nat /\ VectorOK(bv, table.num) /\ bv.num = table.num
      /\ chosen \cup probed \subseteq Tids(table.num) /\ t \in Nat
  BY GivenFacts, VectorLen, BitWeavingAssumption DEF GivenVector
<1>2. /\ bv' = GetBit(bv, t, bit) /\ fault' = "none" /\ t < table.num
      /\ chosen' = chosen /\ probed' = probed \cup {t}
  BY <1>1 DEF ReadBit, Scanned
<1>3. VectorKeeps(GetBit(bv, t, bit), bv, table.num)
  BY <1>1, SetBitVectorOK
<1>4. t \in Tids(table.num)
  BY <1>1, <1>2 DEF Tids
<1>5. QED
  BY <1>1, <1>2, <1>3, <1>4 DEF VectorStep, VectorKeeps

\* And and Or with another scan.
LEMMA MergeStep ==
  ASSUME Given0, GivenVector, NEW n \in Names, NEW p \in Predicates,
         NEW opt \in Opts, Merge(n, p, opt)
  PROVE  VectorStep(table, bv, bv', chosen', probed', fault')
<1> DEFINE c == table.map[n]
           other == ColumnScan(c, p, "kAnd", NewBitVector(table.num))
<1>1. n \in DOMAIN table.map /\ opt \in {"kAnd", "kOr"}
  BY DEF Merge, Opts
<1>2. /\ ColumnOK(c) /\ table.num \in Nat /\ VectorOK(bv, table.num)
      /\ chosen \cup probed \subseteq Tids(table.num) /\ bv.num = table.num
  BY <1>1, GivenFacts, VectorLen DEF TableOK, MapOK, GivenVector
<1>3. /\ bv' = VectorOp(opt, bv, other) /\ fault' = "none" /\ probed' = probed
      /\ chosen' = Combine(opt, chosen, Selected(other))
  BY DEF Merge, Scanned
<1>4. VectorKeeps(VectorOp(opt, bv, other), bv, table.num)
  <2> HIDE DEF other
  <2>1. QED
    BY <1>2, VectorOpOK
<1>5. Selected(other) \subseteq Tids(table.num)
  <2>1. VectorOK(NewBitVector(table.num), table.num)
    BY <1>2, NewVectorOK
  <2>2. p.kind \in {"literal", "between"} /\ "kAnd" \in Opts3
    BY BitWeavingAssumption DEF Opts3
  <2>3. VectorOK(other, table.num)
    <3> DEFINE v == NewBitVector(table.num)
    <3> HIDE DEF c, v
    <3>1. QED
      BY <1>2, <2>1, <2>2, ColumnScanOK DEF v
  <2> HIDE DEF other
  <2>4. QED
    BY <1>2, <2>3, SelectedIn
<1>6. chosen' \cup probed' \subseteq Tids(table.num)
  <2> HIDE DEF other
  <2>1. QED
    BY <1>1, <1>2, <1>3, <1>5 DEF Combine
<1> HIDE DEF other
<1>7. QED
  BY <1>3, <1>4, <1>6 DEF VectorStep, VectorKeeps

-----------------------------------------------------------------------------
(* The iterator. *)

\* A loop visits the members of a set, and no others.
Visits(ids, S) ==
  /\ Len(ids) \in Nat
  /\ \A j \in 1..Len(ids) : ids[j] \in S
  /\ \A x \in S : \E j \in 1..Len(ids) : ids[j] = x

\* So does a walk, and a walk that is taken twice.
LEMMA VisitsOnceOrTwice ==
  ASSUME NEW walk, NEW S, Lists(walk, S), NEW again,
         NEW ids, ids = IF again THEN walk \o walk ELSE walk
  PROVE  Visits(ids, S)
<1> DEFINE k == Len(walk)
<1>1. /\ walk \in Seq(Nat) /\ k \in Nat
      /\ \A i \in 1..k : walk[i] \in S
      /\ \A x \in S : \E i \in 1..k : walk[i] = x
  BY DEF Lists
<1>2. CASE ~again
  BY <1>1, <1>2 DEF Visits
<1>3. CASE again
  <2>1. /\ Len(ids) = k + k
        /\ \A i \in 1..k : ids[i] = walk[i]
        /\ \A i \in 1..k : ids[k + i] = walk[i]
    BY <1>1, <1>3
  <2> HIDE DEF k
  <2>2. ASSUME NEW j \in 1..Len(ids)
        PROVE  ids[j] \in S
    <3>1. CASE j \in 1..k
      BY <1>1, <2>1, <3>1
    <3>2. CASE j \notin 1..k
      <4>1. j - k \in 1..k /\ j = k + (j - k)
        BY <1>1, <2>1, <3>2
      <4>2. QED
        BY <1>1, <2>1, <4>1
    <3>3. QED
      BY <3>1, <3>2
  <2>3. \A i \in 1..k : i \in 1..Len(ids)
    BY <1>1, <2>1
  <2>4. \A x \in S : \E j \in 1..Len(ids) : ids[j] = x
    BY <1>1, <2>1, <2>3
  <2>5. Len(ids) \in Nat
    BY <1>1, <2>1
  <2>6. QED
    BY <2>2, <2>4, <2>5 DEF Visits
<1>4. QED
  BY <1>2, <1>3

\* An iterator that meets no bit past the end walks over the selection.
LEMMA WalkIsSelection ==
  ASSUME NEW num \in Nat, NEW v, VectorOK(v, num),
         NEW walk, walk = Walk(v)
  PROVE  /\ ~(\E i \in DOMAIN walk : walk[i] >= num) => Lists(walk, Selected(v))
         /\ AllClean(v) => ~(\E i \in DOMAIN walk : walk[i] >= num)
<1> DEFINE S == BitsBefore(v, Len(v.blocks))
<1>1. Lists(walk, S)
  BY WalkLists
<1>2. /\ walk \in Seq(Nat) /\ DOMAIN walk = 1..Len(walk)
      /\ \A x \in S : \E i \in DOMAIN walk : walk[i] = x
      /\ \A i \in DOMAIN walk : walk[i] \in S /\ walk[i] \in Nat
  <2> HIDE DEF S
  <2>1. walk \in Seq(Nat) /\ DOMAIN walk = 1..Len(walk)
    BY <1>1 DEF Lists
  <2>2. /\ \A x \in S : \E i \in 1..Len(walk) : walk[i] = x
        /\ \A i \in 1..Len(walk) : walk[i] \in S
    BY <1>1 DEF Lists
  <2>3. \A i \in DOMAIN walk : walk[i] \in Nat
    BY <2>1
  <2>4. QED
    BY <2>1, <2>2, <2>3
<1>3. ASSUME ~(\E i \in DOMAIN walk : walk[i] >= num)
      PROVE  Lists(walk, Selected(v))
  <2>1. \A x \in S : x < num
    BY <1>2, <1>3
  <2>2. \A i \in 1..Len(v.blocks) : NoBitsPast(v.blocks[i])
    BY <2>1, NothingPast
  <2>3. Selected(v) = S
    BY <2>2, SelectedOf
  <2>4. QED
    BY <1>1, <2>3
<1>4. ASSUME AllClean(v), NEW i \in DOMAIN walk
      PROVE  ~(walk[i] >= num)
  <2>1. Selected(v) = S
    BY <1>4, SelectedOf DEF AllClean
  <2>2. walk[i] \in Tids(num)
    BY <1>2, <2>1, SelectedIn
  <2>3. QED
    BY <2>2 DEF Tids
<1>5. QED
  BY <1>3, <1>4

\* A later tuple is not in an earlier block.
LEMMA BlocksAscend ==
  ASSUME NEW t \in Nat, NEW u \in Nat, t < u
  PROVE  BlockOf(t) <= BlockOf(u)
<1>1. u \div kNumCodesPerBlock + 1 \in Nat /\ kNumCodesPerBlock \in Nat \ {0}
  BY DivMod, BitWordsAssumption
<1>2. t < (u \div kNumCodesPerBlock + 1) * kNumCodesPerBlock
  <2>1. /\ BlockOf(u) - 1 = u \div kNumCodesPerBlock
        /\ PlaceOf(u) \in 0..(kNumCodesPerBlock - 1)
        /\ u = (u \div kNumCodesPerBlock) * kNumCodesPerBlock + PlaceOf(u)
    <3>1. u \div kNumCodesPerBlock \in Nat
      BY DivMod, BitWordsAssumption
    <3>2. BlockOf(u) - 1 = u \div kNumCodesPerBlock
      BY <3>1 DEF BlockOf
    <3>3. QED
      BY <3>2, PlaceOfTuple
  <2> DEFINE q == u \div kNumCodesPerBlock
  <2>2. q \in Nat
    BY DivMod, BitWordsAssumption
  <2> HIDE DEF q
  <2>3. (q + 1) * kNumCodesPerBlock = q * kNumCodesPerBlock + kNumCodesPerBlock
        /\ q * kNumCodesPerBlock \in Nat
    BY <1>1, <2>2
  <2>4. t < (q + 1) * kNumCodesPerBlock
    BY <1>1, <2>1, <2>3 DEF q
  <2>5. QED
    BY <2>4 DEF q
<1>3. t \div kNumCodesPerBlock < u \div kNumCodesPerBlock + 1
  BY <1>1, <1>2, DivLess
<1>4. QED
  BY <1>1, <1>3, DivMod DEF BlockOf

\* A loop that sets a code through an iterator.
LEMMA IteratorSetsStep ==
  ASSUME Given0, GivenVector, NEW n \in Names, NEW code \in Codes, NEW again,
         IteratorSets(n, code, again)
  PROVE  /\ TableOK(table', schema) /\ table'.num = table.num
         /\ AllFit(table) => AllFit(table')
         /\ Dense(table) => Dense(table')
         /\ fault' = "none" /\ CodesHold(table, written, junk)
              => CodesHold(table', written', junk)
         /\ fault' \in {"none", "assert", "null"}
         /\ AllClean(bv) => fault' # "assert"
         /\ NullOnlyWhere'
<1> DEFINE c == table.map[n]
           walk == Walk(bv)
           S == Selected(bv)
           past == \E i \in DOMAIN walk : walk[i] >= bv.num
           ids == IF again THEN walk \o walk ELSE walk
           result == IteratorSetCodes(c, NewSeek, ids, code)
           d == result.column
           new == [table EXCEPT !.map[n] = d]
<1>0. /\ n \in DOMAIN table.map /\ code \in Nat /\ code < Pow2[schema[n].size]
      /\ \A t \in S : Readable(c, t)
      /\ bv' = bv /\ rewound' = again
  BY BitWeavingAssumption DEF IteratorSets
<1>1. /\ TableOK(table, schema) /\ table.num \in Nat /\ junk \in Nat
      /\ VectorOK(bv, table.num) /\ bv.num = table.num
      /\ ColumnOK(c)
  BY <1>0, GivenFacts, VectorLen DEF GivenVector, TableOK, MapOK
<1>2. CASE IteratorIsSafe(table) /\ ~past
  <2>1. /\ fault' = IF result.ok THEN "none" ELSE "null"
        /\ table' = new
        /\ written' = [written EXCEPT ![n] =
             [t \in AllTids |-> IF t \in S THEN [code |-> code, sure |-> TRUE]
                                ELSE @[t]]]
    BY <1>2 DEF IteratorSets
  <2>2. Lists(walk, S)
    <3> HIDE DEF walk
    <3>1. walk = Walk(bv) /\ ~(\E i \in DOMAIN walk : walk[i] >= table.num)
      BY <1>1, <1>2 DEF walk
    <3>2. QED
      BY <1>1, <3>1, WalkIsSelection
  <2>3. Visits(ids, S)
    <3> HIDE DEF walk, S
    <3>1. QED
      BY <2>2, VisitsOnceOrTwice
  <2>4. S \subseteq Nat
    BY <1>1, SelectedIn DEF Tids
  <2> HIDE DEF walk, S, ids
  <2>5. IdsOK(c, ids)
    BY <1>0, <2>3, <2>4 DEF Visits, IdsOK
  <2>6. CodeFits(c.type, c.size, code)
    BY <1>0, CodeFitsColumn
  <2>7. LoopOK(result, c, ids, Len(ids), code, junk)
    <3> HIDE DEF c
    <3>1. QED
      BY <1>1, <2>5, <2>6, IteratorSetsOK
  <2>8. /\ SameShape(d, c)
        /\ result.ok => SetsFirst(d, c, ids, Len(ids), code, junk)
        /\ ~result.ok => GoesBack(ids)
    BY <2>7 DEF LoopOK
  <2> HIDE DEF result, d
  <2>9. TableOK(new, schema) /\ Replaces(new, table, n, d)
    BY <1>0, <1>1, <2>8, WithColumn
  <2> HIDE DEF new
  <2>10. \A m \in DOMAIN table.map : new.map[m].id = table.map[m].id
    BY <2>8, <2>9 DEF Replaces, SameShape
  <2>11. Dense(table) => Dense(new)
    BY <2>9, <2>10, DenseSame DEF Replaces
  <2>12. ASSUME AllFit(table)
         PROVE  AllFit(new)
    <3>1. Fits(c, table.num) /\ FormatOK(c.type, c.size)
      BY <1>0, <2>12 DEF AllFit
    <3>2. Fits(d, table.num) /\ FormatOK(d.type, d.size)
      <4>1. FormatOK(d.type, d.size)
        BY <2>8, <3>1 DEF SameShape
      <4> HIDE DEF c
      <4>2. QED
        BY <1>1, <2>8, <3>1, <4>1, SameShapeFits
    <3>3. ASSUME NEW m \in DOMAIN new.map
          PROVE  Fits(new.map[m], new.num)
                 /\ FormatOK(new.map[m].type, new.map[m].size)
      <4>1. CASE m = n
        BY <2>9, <3>2, <4>1 DEF Replaces
      <4>2. CASE m # n
        BY <2>9, <2>12, <4>2 DEF Replaces, AllFit
      <4>3. QED
        BY <4>1, <4>2
    <3>4. QED
      BY <3>3 DEF AllFit
  <2>13. ASSUME result.ok, CodesHold(table, written, junk)
         PROVE  CodesHold(new, written', junk)
    <3> DEFINE old == written[n]
               r == [t \in AllTids |-> IF t \in S THEN [code |-> code, sure |-> TRUE]
                                       ELSE old[t]]
    <3>1. /\ DOMAIN written = DOMAIN table.map
          /\ \A m \in DOMAIN table.map : HasCodes(table.map[m], written[m], junk)
      BY <2>13 DEF CodesHold
    <3>2. /\ DOMAIN written' = DOMAIN table.map
          /\ \A m \in DOMAIN table.map : written'[m] = IF m = n THEN r ELSE written[m]
      BY <2>1, <3>1
    <3>3. ASSUME NEW t \in AllTids
          PROVE  r[t].sure => r[t].code = CodeAt(d, t, junk)
      <4>1. t \in Nat
        BY TidsAreNumbers
      <4>2. CodeAt(d, t, junk) = IF \E j \in 1..Len(ids) : t = ids[j] THEN code
                                 ELSE CodeAt(c, t, junk)
        BY <2>8, <2>13, <4>1 DEF SetsFirst
      <4>3. (\E j \in 1..Len(ids) : t = ids[j]) <=> t \in S
        BY <2>3 DEF Visits
      <4>4. old[t].sure => old[t].code = CodeAt(c, t, junk)
        BY <1>0, <3>1 DEF HasCodes
      <4>5. QED
        BY <4>2, <4>3, <4>4
    <3>4. DOMAIN r = AllTids
      OBVIOUS
    <3> HIDE DEF r
    <3>5. HasCodes(d, r, junk)
      BY <3>3, <3>4 DEF HasCodes
    <3>6. \A m \in DOMAIN table.map : HasCodes(new.map[m], written'[m], junk)
      BY <2>9, <3>1, <3>2, <3>5 DEF Replaces
    <3>7. QED
      BY <2>9, <3>2, <3>6 DEF CodesHold, Replaces
  <2>14. ASSUME ~result.ok
         PROVE  again /\ \E t, u \in S : BlockOf(t) # BlockOf(u)
    <3>1. PICK j \in 1..(Len(ids) - 1) : BlockOf(ids[j + 1]) < BlockOf(ids[j])
      BY <2>8, <2>14 DEF GoesBack
    <3>2. /\ j \in 1..Len(ids) /\ j + 1 \in 1..Len(ids)
          /\ ids[j] \in S /\ ids[j + 1] \in S
          /\ ids[j] \in Nat /\ ids[j + 1] \in Nat
      <4>1. /\ Len(ids) \in Nat
            /\ \A i \in 1..Len(ids) : ids[i] \in S
        BY <2>3 DEF Visits
      <4>2. j \in 1..Len(ids) /\ j + 1 \in 1..Len(ids)
        BY <4>1
      <4>3. QED
        BY <2>4, <4>1, <4>2
    <3>n. BlockOf(ids[j]) \in Nat /\ BlockOf(ids[j + 1]) \in Nat
      BY <3>2, PlaceOfTuple
    <3>3. BlockOf(ids[j]) # BlockOf(ids[j + 1])
      BY <3>1, <3>n
    <3>4. again
      <4>1. SUFFICES ASSUME ~again
                     PROVE  FALSE
        OBVIOUS
      <4>2. ids = walk
        BY <4>1 DEF ids
      <4>3. ids[j] < ids[j + 1]
        BY <2>2, <3>1, <3>2, <4>2 DEF Lists
      <4>4. BlockOf(ids[j]) <= BlockOf(ids[j + 1])
        BY <3>2, <4>3, BlocksAscend
      <4>5. QED
        BY <3>1, <3>n, <4>4
    <3>5. QED
      BY <3>2, <3>3, <3>4
  <2>15. NullOnlyWhere'
    BY <1>0, <2>1, <2>14 DEF NullOnlyWhere, S
  <2>16. new.num = table.num
    BY <2>9 DEF Replaces
  <2>17. QED
    BY <2>1, <2>9, <2>11, <2>12, <2>13, <2>15, <2>16
<1>3. CASE ~(IteratorIsSafe(table) /\ ~past)
  <2>1. /\ fault' = IF IteratorIsSafe(table) THEN "assert" ELSE "null"
        /\ table' = table /\ written' = written
    BY <1>3 DEF IteratorSets
  <2>2. AllClean(bv) => ~past
    <3> HIDE DEF walk
    <3>1. walk = Walk(bv)
      BY DEF walk
    <3>2. QED
      BY <1>1, <3>1, WalkIsSelection
  <2>3. AllClean(bv) => fault' # "assert"
    BY <1>3, <2>1, <2>2
  <2>4. NullOnlyWhere'
    BY <2>1 DEF NullOnlyWhere
  <2>5. QED
    BY <1>1, <2>1, <2>3, <2>4
<1>4. QED
  BY <1>2, <1>3


-----------------------------------------------------------------------------
(* BitWeaving: the table that buildIndex makes. *)

\* The codes of dimension d of a store of rows.
CodesOf(rows, d) == [t \in 1..Cardinality(DOMAIN rows) |-> rows[t - 1][d]]

LoadDimension(m, rows, d, junk0) ==
  IF ~m.ok THEN m ELSE Bulkload(m.table, d, CodesOf(rows, d), 0, junk0)

\* added[d] is the table with d columns, filled[d] what there is when d of them
\* are filled.
BuildRun(added, filled, rows, dims, ctype, sizes, junk0, result) ==
  /\ added[0] = NewTable
  /\ \A d \in 1..dims :
       added[d] = AddColumn(added[d - 1], d - 1, ctype, sizes[d - 1], junk0)
  /\ filled[0] = [ok |-> TRUE, table |-> added[dims]]
  /\ \A d \in 1..dims : filled[d] = LoadDimension(filled[d - 1], rows, d - 1, junk0)
  /\ result = filled[dims]

\* The two loops of buildIndex, step by step.
LEMMA BuildSteps ==
  ASSUME NEW rows, NEW dims \in Nat, NEW ctype, NEW sizes, NEW junk0,
         NEW result, result = BuildIndex(rows, dims, ctype, sizes, junk0)
  PROVE  \E added, filled :
           BuildRun(added, filled, rows, dims, ctype, sizes, junk0, result)
<1> DEFINE Adding(tb, i) == AddColumn(tb, i - 1, ctype, sizes[i - 1], junk0)
           Loading(m, i) == LoadDimension(m, rows, i - 1, junk0)
<1> HIDE DEF Adding, Loading
<1> DEFINE Valadded(f, i) == IF i = 0 THEN NewTable
                        ELSE Adding(f[i - 1], i)
           Isadded(f, n) == f = [i \in 0..n |-> Valadded(f, i)]
           Sadded == {n \in Nat : \E f : Isadded(f, n)}
<1>1. 0 \in Sadded
  <2>1. Isadded([i \in 0..0 |-> NewTable], 0)
    OBVIOUS
  <2>2. QED
    BY <2>1
<1>2. ASSUME NEW n \in Nat, n \in Sadded
      PROVE  n + 1 \in Sadded
  <2>1. PICK f : Isadded(f, n)
    BY <1>2
  <2> DEFINE g == [i \in 0..(n + 1) |-> Valadded(f, i)]
  <2>2. \A i \in 0..n : g[i] = f[i]
    <3> HIDE DEF Valadded
    <3>1. QED
      BY <2>1
  <2>3. \A i \in 0..(n + 1) : Valadded(g, i) = Valadded(f, i)
    <3> HIDE DEF g
    <3>1. QED
      BY <2>2
  <2>4. Isadded(g, n + 1)
    <3> HIDE DEF Valadded
    <3>1. QED
      BY <2>3
  <2> HIDE DEF Isadded, g
  <2>5. QED
    BY <2>4
<1>3. \A n \in Nat : n \in Sadded
  <2> HIDE DEF Sadded
  <2>1. QED
    BY <1>1, <1>2, Induction
<1>4. PICK e : Isadded(e, dims)
  BY <1>3
<1> DEFINE added == CHOOSE added : Isadded(added, dims)
<1>5. Isadded(added, dims)
  BY <1>4, Zenon
<1>6. result = (CHOOSE filled : filled = [i \in 0..dims |->
                  IF i = 0 THEN [ok |-> TRUE, table |-> added[dims]]
                  ELSE Loading(filled[i - 1], i)])[dims]
  <2> USE DEF Adding, Loading
  <2>1. QED
    BY DEF BuildIndex, LoadDimension, CodesOf
<1> HIDE DEF added
<1>7. added[0] = NewTable
      /\ \A i \in 1..dims : added[i] = Adding(added[i - 1], i)
  <2>1. \A i \in 0..dims : added[i] = Valadded(added, i)
    <3> HIDE DEF Valadded
    <3>1. QED
      BY <1>5
  <2>2. Valadded(added, 0) = NewTable
        /\ \A i \in 1..dims : Valadded(added, i) = Adding(added[i - 1], i)
    <3>1. \A i \in 1..dims : i # 0
      OBVIOUS
    <3>2. QED
      BY <3>1, Zenon
  <2> HIDE DEF Valadded
  <2>3. 0 \in 0..dims /\ \A i \in 1..dims : i \in 0..dims
    OBVIOUS
  <2>4. QED
    BY <2>1, <2>2, <2>3
<1> HIDE DEF Valadded, Isadded, Sadded
<1> DEFINE Valloaded(f, i) == IF i = 0 THEN [ok |-> TRUE, table |-> added[dims]]
                        ELSE Loading(f[i - 1], i)
           Isloaded(f, n) == f = [i \in 0..n |-> Valloaded(f, i)]
           Sloaded == {n \in Nat : \E f : Isloaded(f, n)}
<1>8. 0 \in Sloaded
  <2>1. Isloaded([i \in 0..0 |-> [ok |-> TRUE, table |-> added[dims]]], 0)
    OBVIOUS
  <2>2. QED
    BY <2>1
<1>9. ASSUME NEW n \in Nat, n \in Sloaded
      PROVE  n + 1 \in Sloaded
  <2>1. PICK f : Isloaded(f, n)
    BY <1>9
  <2> DEFINE g == [i \in 0..(n + 1) |-> Valloaded(f, i)]
  <2>2. \A i \in 0..n : g[i] = f[i]
    <3> HIDE DEF Valloaded
    <3>1. QED
      BY <2>1
  <2>3. \A i \in 0..(n + 1) : Valloaded(g, i) = Valloaded(f, i)
    <3> HIDE DEF g
    <3>1. QED
      BY <2>2
  <2>4. Isloaded(g, n + 1)
    <3> HIDE DEF Valloaded
    <3>1. QED
      BY <2>3
  <2> HIDE DEF Isloaded, g
  <2>5. QED
    BY <2>4
<1>10. \A n \in Nat : n \in Sloaded
  <2> HIDE DEF Sloaded
  <2>1. QED
    BY <1>8, <1>9, Induction
<1>11. PICK e2 : Isloaded(e2, dims)
  BY <1>10
<1> DEFINE filled == CHOOSE filled : Isloaded(filled, dims)
<1>12. Isloaded(filled, dims)
  BY <1>11, Zenon
<1>13. result = filled[dims]
  BY <1>6
<1> HIDE DEF filled
<1>14. filled[0] = [ok |-> TRUE, table |-> added[dims]]
      /\ \A i \in 1..dims : filled[i] = Loading(filled[i - 1], i)
  <2>1. \A i \in 0..dims : filled[i] = Valloaded(filled, i)
    <3> HIDE DEF Valloaded
    <3>1. QED
      BY <1>12
  <2>2. Valloaded(filled, 0) = [ok |-> TRUE, table |-> added[dims]]
        /\ \A i \in 1..dims : Valloaded(filled, i) = Loading(filled[i - 1], i)
    <3>1. \A i \in 1..dims : i # 0
      OBVIOUS
    <3>2. QED
      BY <3>1, Zenon
  <2> HIDE DEF Valloaded
  <2>3. 0 \in 0..dims /\ \A i \in 1..dims : i \in 0..dims
    OBVIOUS
  <2>4. QED
    BY <2>1, <2>2, <2>3
<1>15. BuildRun(added, filled, rows, dims, ctype, sizes, junk0, result)
  BY <1>7, <1>13, <1>14 DEF BuildRun, Adding, Loading
<1>16. QED
  BY <1>15

\* Dimensions as names: their formats.
Formats(dims, ctype, sizes) ==
  [d \in 0..(dims - 1) |-> [type |-> ctype, size |-> sizes[d]]]

\* What there is after each turn of the second loop.
BuiltOK(m, formats) ==
  /\ TableOK(m.table, formats)
  /\ DOMAIN m.table.map = DOMAIN formats
  /\ m.ok => AllFit(m.table)
  /\ ~m.ok => m.table.num % kNumCodesPerBlock = 0

\* A build ends with a table of at most MaxTuples tuples, and an assertion fails
\* only when they fill the blocks.
LEMMA BuildOK ==
  ASSUME NEW s \in Stores, NEW junk0 \in Nat,
         NEW result,
         result = BuildIndex(s.rows, s.dims, s.ctype, s.code_sizes, junk0)
  PROVE  /\ result.table.num \in 0..MaxTuples
         /\ result.table # NoTable
         /\ ~result.ok => result.table.num % kNumCodesPerBlock = 0
<1> DEFINE dims == s.dims
           rows == s.rows
           formats == Formats(dims, s.ctype, s.code_sizes)
<1>1. /\ dims \in Nat \ {0}
      /\ \A d \in 0..(dims - 1) : FormatOK(s.ctype, s.code_sizes[d])
      /\ \E n \in 1..MaxTuples : rows \in [0..(n - 1) -> [0..(dims - 1) -> Nat]]
  BY BitWeavingAssumption
<1>2. PICK n \in 1..MaxTuples : rows \in [0..(n - 1) -> [0..(dims - 1) -> Nat]]
  BY <1>1
<1>3. Cardinality(DOMAIN rows) = n /\ n \in Nat
  <2>1. n \in Nat /\ n > 0 /\ n - 1 \in Int /\ 0 \in Int /\ DOMAIN rows = 0..(n - 1)
    BY <1>2, Numbers
  <2>2. Cardinality(0..(n - 1)) = IF 0 > n - 1 THEN 0 ELSE (n - 1) - 0 + 1
    BY <2>1, FS_Interval
  <2>3. QED
    BY <2>1, <2>2
<1>4. PICK added, filled :
        BuildRun(added, filled, rows, dims, s.ctype, s.code_sizes, junk0, result)
  BY <1>1, BuildSteps
<1>5. /\ DOMAIN formats = 0..(dims - 1)
      /\ \A d \in 0..(dims - 1) :
           formats[d].type = s.ctype /\ formats[d].size = s.code_sizes[d]
  BY DEF Formats
<1>6. ASSUME NEW d \in 0..(dims - 1)
      PROVE  CodesOK(CodesOf(rows, d)) /\ Len(CodesOf(rows, d)) = n
  <2> DEFINE codes == CodesOf(rows, d)
  <2>1. codes = [t \in 1..n |-> rows[t - 1][d]]
    BY <1>3 DEF CodesOf
  <2>2. codes = [t \in 1..n |-> codes[t]]
    BY <2>1
  <2>3. Len(codes) = n
    <3> HIDE DEF codes
    <3>1. QED
      BY <1>3, <2>2, LenOfFunction
  <2>4. ASSUME NEW t \in 1..n
        PROVE  codes[t] \in Nat
    <3>1. t - 1 \in 0..(n - 1)
      BY <1>3
    <3>2. rows[t - 1] \in [0..(dims - 1) -> Nat]
      BY <1>2, <3>1
    <3>3. QED
      BY <2>1, <3>2
  <2>5. QED
    BY <1>3, <2>3, <2>4 DEF CodesOK
<1> HIDE DEF dims, rows, formats
<1> DEFINE AddedOK(d) == /\ TableOK(added[d], formats)
                         /\ added[d].num = 0
                         /\ DOMAIN added[d].map = 0..(d - 1)
                         /\ AllFit(added[d])
           Adds == {d \in Nat : d <= dims => AddedOK(d)}
<1>7. 0 \in Adds
  <2>1. added[0] = NewTable
    BY <1>4 DEF BuildRun
  <2>2. AllFit(NewTable) /\ DOMAIN NewTable.map = 0..(0 - 1) /\ NewTable.num = 0
    BY DEF NewTable, AllFit
  <2>3. QED
    BY <2>1, <2>2, NewTableOK
<1>8. ASSUME NEW d \in Nat, d \in Adds
      PROVE  d + 1 \in Adds
  <2> SUFFICES ASSUME d + 1 <= dims
               PROVE  AddedOK(d + 1)
    OBVIOUS
  <2> DEFINE tb == added[d]
             new == added[d + 1]
             c == AddedColumn(tb, formats[d].type, formats[d].size, junk0)
  <2>1. /\ TableOK(tb, formats) /\ tb.num = 0 /\ DOMAIN tb.map = 0..(d - 1)
        /\ AllFit(tb)
    BY <1>1, <1>8
  <2>2. d \in 0..(dims - 1) /\ d + 1 \in 1..dims /\ (d + 1) - 1 = d
    BY <1>1
  <2>3. new = AddColumn(tb, d, s.ctype, s.code_sizes[d], junk0)
    BY <1>4, <2>2 DEF BuildRun
  <2>4. new = AddColumn(tb, d, formats[d].type, formats[d].size, junk0)
    BY <1>5, <2>2, <2>3
  <2>5. FormatOK(formats[d].type, formats[d].size) /\ d \in DOMAIN formats
    BY <1>1, <1>5, <2>2
  <2> HIDE DEF tb, new, c
  <2>6. TableOK(new, formats) /\ AddsColumn(new, tb, d, c, formats[d])
    BY <2>1, <2>4, <2>5, AddColumnOK DEF c
  <2>7. d \notin DOMAIN tb.map /\ DOMAIN tb.map \cup {d} = 0..((d + 1) - 1)
    BY <2>1
  <2>8. /\ new.num = 0 /\ DOMAIN new.map = 0..((d + 1) - 1)
        /\ \A m \in DOMAIN tb.map : new.map[m] = tb.map[m]
        /\ new.map[d] = c
        /\ Fits(c, 0) /\ c.type = formats[d].type /\ c.size = formats[d].size
    BY <2>1, <2>6, <2>7 DEF AddsColumn
  <2>9. ASSUME NEW m \in DOMAIN new.map
        PROVE  Fits(new.map[m], new.num) /\ FormatOK(new.map[m].type, new.map[m].size)
    <3>1. CASE m = d
      BY <2>5, <2>8, <3>1
    <3>2. CASE m # d
      BY <2>1, <2>7, <2>8, <3>2 DEF AllFit
    <3>3. QED
      BY <3>1, <3>2
  <2>10. QED
    BY <2>6, <2>8, <2>9 DEF AllFit, new
<1>9. AddedOK(dims)
  <2>1. \A d \in Nat : d \in Adds
    <3> HIDE DEF Adds
    <3>1. QED
      BY <1>7, <1>8, Induction
  <2>2. QED
    BY <1>1, <2>1
<1> DEFINE Loads == {d \in Nat : d <= dims => BuiltOK(filled[d], formats)}
<1>10. 0 \in Loads
  <2>1. filled[0].ok /\ filled[0].table = added[dims]
    BY <1>4 DEF BuildRun
  <2>2. BuiltOK(filled[0], formats)
    BY <1>5, <1>9, <2>1 DEF BuiltOK
  <2>3. QED
    BY <2>2
<1> HIDE DEF AddedOK, Adds
<1>11. ASSUME NEW d \in Nat, d \in Loads
       PROVE  d + 1 \in Loads
  <2> SUFFICES ASSUME d + 1 <= dims
               PROVE  BuiltOK(filled[d + 1], formats)
    OBVIOUS
  <2> DEFINE m == filled[d]
             tb == m.table
             codes == CodesOf(rows, d)
             new == Bulkload(tb, d, codes, 0, junk0)
             g == Grown(tb, n, junk0)
             load == ColumnBulkload(g.map[d], codes, 0)
  <2>1. BuiltOK(m, formats)
    BY <1>1, <1>11
  <2>2. d \in 0..(dims - 1) /\ d + 1 \in 1..dims /\ (d + 1) - 1 = d
    BY <1>1
  <2>3. filled[d + 1] = IF ~m.ok THEN m ELSE new
    BY <1>4, <2>2 DEF BuildRun, LoadDimension
  <2>4. CASE ~m.ok
    BY <2>1, <2>3, <2>4
  <2>5. CASE m.ok
    <3>1. /\ TableOK(tb, formats) /\ d \in DOMAIN tb.map /\ AllFit(tb)
          /\ DOMAIN tb.map = DOMAIN formats
      BY <1>5, <2>1, <2>2, <2>5 DEF BuiltOK
    <3>2. CodesOK(codes) /\ Len(codes) = n /\ n <= MaxTuples
      BY <1>2, <1>6, <2>2, Numbers
    <3>3. \A k \in DOMAIN tb.map : Resizable(tb.map[k], n)
      BY <3>1 DEF AllFit, Resizable
    <3>4. n = 0 + Len(codes)
      BY <1>3, <3>2
    <3> HIDE DEF tb, codes, new, g, load, m
    <3>5. /\ TableOK(new.table, formats)
          /\ DOMAIN new.table.map = DOMAIN tb.map
          /\ AllFit(tb) => AllFit(new.table)
          /\ AllFit(tb) /\ new.table.num % kNumCodesPerBlock # 0 => new.ok
      <4>1. /\ new = Bulkload(tb, d, codes, 0, junk0)
            /\ g = Grown(tb, n, junk0) /\ load = ColumnBulkload(g.map[d], codes, 0)
        BY DEF new, g, load
      <4>2. QED
        BY <3>1, <3>2, <3>3, <3>4, <4>1, BulkloadTableOK
    <3>6. BuiltOK(new, formats)
      BY <3>1, <3>5 DEF BuiltOK
    <3>7. QED
      BY <2>3, <2>5, <3>6
  <2>6. QED
    BY <2>4, <2>5
<1>12. BuiltOK(result, formats)
  <2>1. \A d \in Nat : d \in Loads
    <3> HIDE DEF Loads
    <3>1. QED
      BY <1>10, <1>11, Induction
  <2>2. result = filled[dims]
    BY <1>4 DEF BuildRun
  <2>3. QED
    BY <1>1, <2>1, <2>2
<1>13. result.table # NoTable
  <2> DEFINE tb == result.table
  <2>1. TableOK(tb, formats)
    BY <1>12 DEF BuiltOK
  <2> HIDE DEF tb
  <2>2. QED
    BY <2>1, IsTable DEF tb
<1>14. QED
  BY <1>12, <1>13 DEF BuiltOK, TableOK

-----------------------------------------------------------------------------
(* The inductive invariant. *)

\* What there can be at a time.
Phases ==
  /\ table = NoTable => /\ saving = <<>> /\ fault = "none"
                        /\ bv = NoVector /\ ~loaded
  /\ store # NoStore => /\ table # NoTable /\ saving = <<>>
                        /\ bv = NoVector /\ ~loaded
  /\ saving # <<>> => fault = "none" /\ bv = NoVector /\ ~loaded

\* The shape of the table, of the vector and of the files.
Shapes ==
  /\ schema \in Schemas /\ junk \in Junks
  /\ table # NoTable /\ store = NoStore => TableOK(table, schema)
  /\ bv # NoVector => VectorOK(bv, table.num)
  /\ disk = [meta |-> disk.meta, files |-> disk.files]
  /\ disk.meta \notin {NoFile, Meta} => MetaOK(disk.meta)
  /\ \A n \in DOMAIN disk.files : FileOK(disk.files[n], schema[n])
  /\ saving \in Seq(Names \cup {Meta})
  /\ \A i \in 1..Len(saving) : saving[i] # Meta => saving[i] \in DOMAIN table.map

\* Without an interrupted Save the columns have the size of the table, and the
\* vector has no bits past the end.
Whole ==
  ~torn => /\ table # NoTable /\ store = NoStore => AllFit(table)
           /\ bv # NoVector => AllClean(bv)

\* The ids, as long as none is lost.
Ids == table # NoTable /\ store = NoStore /\ lost = {} => Dense(table)

\* The codes in the table and in the files.
CodesInTable ==
  table # NoTable /\ store = NoStore /\ fault = "none"
    => CodesHold(table, written, junk)
CodesInFiles ==
  \A n \in DOMAIN disk.files :
    n \in DOMAIN stored /\ HasCodes(FileColumn(disk.files[n], 0), stored[n], junk)

\* A column file that is written, and one that is complete.
WrittenFile(n) ==
  n \in DOMAIN disk.files /\ disk.files[n] = ColumnFile(table.map[n])
SavedFile(n) ==
  /\ n \in DOMAIN disk.files /\ disk.files[n] = ColumnFile(saved.map[n])
  /\ Fits(FileColumn(disk.files[n], 0), disk.meta.num)
  /\ FormatOK(disk.files[n].type, disk.files[n].size)

\* What a Save has written so far, and what it leaves.
Saving ==
  saving # <<>> =>
    /\ saved = table
    /\ (\A i \in 1..Len(saving) : saving[i] # Meta) => disk.meta = MetaFile(table)
    /\ \A n \in DOMAIN table.map :
         (\A i \in 1..Len(saving) : saving[i] # n) => WrittenFile(n)
SavedOK ==
  ~torn /\ saving = <<>> /\ disk.meta \notin {NoFile, Meta} =>
    /\ disk.meta.num = saved.num /\ disk.meta.names = DOMAIN saved.map
    /\ \A n \in disk.meta.names : SavedFile(n)

\* What Open has loaded is still on the disk.
StillOnDisk ==
  loaded => /\ disk.meta \notin {NoFile, Meta}
            /\ table = LoadTable(disk.meta, disk.files)

Faults == AssertionsHold /\ NullOnlyWhere

IInv ==
  /\ BwTypeOK /\ Phases /\ Shapes /\ Whole /\ Ids
  /\ CodesInTable /\ CodesInFiles /\ Saving /\ SavedOK /\ StillOnDisk /\ Faults

\* It holds at first.
LEMMA InitIInv == Init => IInv
<1> SUFFICES ASSUME Init PROVE IInv
  OBVIOUS
<1> USE DEF Init
<1>1. BwTypeOK
  BY Numbers DEF BwTypeOK
<1>2. Shapes
  <2>1. disk.files = <<>> /\ DOMAIN disk.files = {} /\ disk.meta = NoFile
    OBVIOUS
  <2>2. saving \in Seq(Names \cup {Meta}) /\ \A i \in 1..Len(saving) : FALSE
    OBVIOUS
  <2>3. QED
    BY <2>1, <2>2 DEF Shapes
<1>3. Phases /\ Whole /\ Ids /\ CodesInTable /\ Saving /\ SavedOK /\ StillOnDisk
  BY DEF Phases, Whole, Ids, CodesInTable, Saving, SavedOK, StillOnDisk
<1>4. CodesInFiles
  BY DEF CodesInFiles
<1>5. Faults
  BY DEF Faults, AssertionsHold, NullOnlyWhere
<1>6. QED
  BY <1>1, <1>2, <1>3, <1>4, <1>5 DEF IInv

\* What holds when the program is ready.
LEMMA WhenReady ==
  ASSUME IInv, Ready
  PROVE  /\ Given0 /\ table # NoTable /\ store = NoStore /\ saving = <<>>
         /\ fault = "none"
         /\ bv # NoVector => GivenVector
  BY DEF IInv, Ready, Shapes, Given0, GivenVector, BwTypeOK

-----------------------------------------------------------------------------
(* Every action keeps it. *)

\* What a change of the table leaves alone.
ChangeFrame ==
  /\ Ready
  /\ changes \in Nat /\ changes < MaxChanges /\ changes' = changes + 1
  /\ fault' \in {"none", "assert"}
  /\ bv' = NoVector /\ chosen' = {} /\ probed' = {} /\ scans' = 0
  /\ loaded' = FALSE
  /\ lost' = {} => lost = {}
  /\ UNCHANGED <<rewound, disk, saving, schema, junk, stored, saved, torn, store, stops>>

\* A change of the table keeps the invariant.
LEMMA ChangeKeeps ==
  ASSUME IInv, ChangeFrame,
         TableStep(table, table', schema, lost' = {}, written, written', junk, fault')
  PROVE  IInv'
<1>1. /\ Given0 /\ table # NoTable /\ store = NoStore /\ saving = <<>>
      /\ fault = "none"
  BY WhenReady DEF ChangeFrame
<1>2. TableOK(table', schema)
  BY DEF TableStep
<1>3. table' # NoTable
  BY <1>2, IsTable
<1>4. BwTypeOK'
  <2>1. table'.num \in 0..MaxTuples
    BY <1>2 DEF TableOK
  <2>2. changes' \in 0..MaxChanges /\ 0 \in 0..MaxScans
    BY Numbers DEF ChangeFrame
  <2>3. QED
    BY <2>1, <2>2 DEF BwTypeOK, ChangeFrame, IInv
<1>5. Phases'
  BY <1>1, <1>3 DEF Phases, ChangeFrame
<1>6. Shapes'
  <2>1. \A i \in 1..Len(<<>>) : FALSE
    OBVIOUS
  <2>2. QED
    BY <1>1, <1>2, <2>1 DEF IInv, Shapes, ChangeFrame
<1>7. Whole'
  BY <1>1 DEF IInv, Whole, ChangeFrame, TableStep
<1>8. Ids'
  BY <1>1 DEF IInv, Ids, ChangeFrame, TableStep
<1>9. CodesInTable'
  BY <1>1 DEF IInv, CodesInTable, ChangeFrame, TableStep
<1>10. CodesInFiles'
  BY DEF IInv, CodesInFiles, ChangeFrame
<1>11. Saving'
  BY <1>1 DEF Saving, ChangeFrame
<1>12. SavedOK'
  BY <1>1 DEF IInv, SavedOK, SavedFile, ChangeFrame
<1>13. StillOnDisk'
  BY DEF StillOnDisk, ChangeFrame
<1>14. Faults'
  BY <1>1 DEF IInv, Whole, Faults, AssertionsHold, NullOnlyWhere, ChangeFrame,
              TableStep
<1>15. QED
  BY <1>4, <1>5, <1>6, <1>7, <1>8, <1>9, <1>10, <1>11, <1>12, <1>13, <1>14 DEF IInv

\* What a change of the vector leaves alone.
LEMMA ScannedKeeps ==
  ASSUME IInv, GivenVector, NEW v, NEW c, NEW q, NEW f, Scanned(v, c, q, f),
         VectorStep(table, bv, bv', chosen', probed', fault')
  PROVE  IInv'
<1>1. /\ Ready /\ scans < MaxScans /\ scans' = scans + 1 /\ bv # NoVector
      /\ UNCHANGED <<table, disk, saving, schema, junk, written, stored, rewound,
                     saved, torn, lost, loaded, store, changes, stops>>
  BY DEF Scanned
<1>2. /\ Given0 /\ table # NoTable /\ store = NoStore /\ saving = <<>>
      /\ fault = "none"
  BY <1>1, WhenReady
<1>3. /\ VectorOK(bv', table.num) /\ chosen' \cup probed' \subseteq Tids(table.num)
      /\ fault' \in {"none", "assert"}
      /\ AllFit(table) /\ AllClean(bv) => AllClean(bv') /\ fault' = "none"
  BY DEF VectorStep
<1>4. BwTypeOK'
  <2>1. bv'.num = table.num
    BY <1>3 DEF VectorOK
  <2>2. scans' \in 0..MaxScans
    BY <1>1, Numbers DEF IInv, BwTypeOK
  <2>3. QED
    BY <1>1, <1>3, <2>1, <2>2 DEF BwTypeOK, IInv
<1>5. Phases'
  BY <1>1, <1>2 DEF IInv, Phases
<1>6. Shapes'
  BY <1>1, <1>3 DEF IInv, Shapes
<1>7. Whole'
  BY <1>1, <1>2, <1>3 DEF IInv, Whole
<1>8. Ids'
  BY <1>1 DEF IInv, Ids
<1>9. CodesInTable'
  BY <1>1, <1>2 DEF IInv, CodesInTable
<1>10. CodesInFiles'
  BY <1>1 DEF IInv, CodesInFiles
<1>11. Saving'
  BY <1>1, <1>2 DEF Saving
<1>12. SavedOK'
  BY <1>1 DEF IInv, SavedOK, SavedFile
<1>13. StillOnDisk'
  BY <1>1 DEF IInv, StillOnDisk
<1>14. Faults'
  BY <1>1, <1>2, <1>3 DEF IInv, Whole, Faults, AssertionsHold, NullOnlyWhere
<1>15. QED
  BY <1>4, <1>5, <1>6, <1>7, <1>8, <1>9, <1>10, <1>11, <1>12, <1>13, <1>14 DEF IInv

\* A new vector.
LEMMA NewVectorKeeps ==
  ASSUME IInv, NewVector
  PROVE  IInv'
<1>1. /\ Ready /\ bv' = NewBitVector(table.num) /\ chosen' = Tids(table.num)
      /\ probed' = {}
      /\ UNCHANGED <<table, disk, saving, fault, schema, junk, written, stored,
                     rewound, saved, torn, lost, loaded, store, changes, scans, stops>>
  BY DEF NewVector
<1>2. /\ Given0 /\ table # NoTable /\ store = NoStore /\ saving = <<>>
      /\ fault = "none" /\ table.num \in Nat
  BY <1>1, WhenReady, GivenFacts
<1>3. VectorOK(bv', table.num) /\ AllClean(bv') /\ bv'.num = table.num
  <2>1. VectorOK(bv', table.num) /\ AllClean(bv')
    BY <1>1, <1>2, NewVectorOK
  <2>2. QED
    BY <2>1 DEF VectorOK
<1>4. BwTypeOK'
  BY <1>1, <1>3 DEF BwTypeOK, IInv
<1>5. Phases'
  BY <1>1, <1>2 DEF IInv, Phases
<1>6. Shapes'
  BY <1>1, <1>3 DEF IInv, Shapes
<1>7. Whole'
  BY <1>1, <1>3 DEF IInv, Whole
<1>8. Ids'
  BY <1>1 DEF IInv, Ids
<1>9. CodesInTable'
  BY <1>1 DEF IInv, CodesInTable
<1>10. CodesInFiles'
  BY <1>1 DEF IInv, CodesInFiles
<1>11. Saving'
  BY <1>1, <1>2 DEF Saving
<1>12. SavedOK'
  BY <1>1 DEF IInv, SavedOK, SavedFile
<1>13. StillOnDisk'
  BY <1>1 DEF IInv, StillOnDisk
<1>14. Faults'
  BY <1>1, <1>2 DEF Faults, AssertionsHold, NullOnlyWhere
<1>15. QED
  BY <1>4, <1>5, <1>6, <1>7, <1>8, <1>9, <1>10, <1>11, <1>12, <1>13, <1>14 DEF IInv

\* Writing through an iterator.
LEMMA IteratorKeeps ==
  ASSUME IInv, NEW n \in Names, NEW code \in Codes, NEW again,
         IteratorSets(n, code, again)
  PROVE  IInv'
<1>1. /\ Ready /\ bv # NoVector /\ changes < MaxChanges /\ changes' = changes + 1
      /\ loaded' = FALSE
      /\ UNCHANGED <<disk, saving, bv, schema, junk, stored, chosen, probed, saved,
                     torn, lost, store, scans, stops>>
  BY DEF IteratorSets
<1>2. /\ Given0 /\ GivenVector /\ table # NoTable /\ store = NoStore
      /\ saving = <<>> /\ fault = "none"
  BY <1>1, WhenReady
<1>3. /\ TableOK(table', schema) /\ table'.num = table.num
      /\ AllFit(table) => AllFit(table')
      /\ Dense(table) => Dense(table')
      /\ fault' = "none" /\ CodesHold(table, written, junk)
           => CodesHold(table', written', junk)
      /\ fault' \in {"none", "assert", "null"}
      /\ AllClean(bv) => fault' # "assert"
      /\ NullOnlyWhere'
  BY <1>2, IteratorSetsStep
<1>4. table' # NoTable
  BY <1>3, IsTable
<1>5. BwTypeOK'
  <2>1. changes' \in 0..MaxChanges
    BY <1>1, Numbers DEF IInv, BwTypeOK
  <2>2. QED
    BY <1>1, <1>2, <1>3, <2>1 DEF BwTypeOK, IInv
<1>6. Phases'
  BY <1>1, <1>2, <1>4 DEF Phases
<1>7. Shapes'
  <2>1. \A i \in 1..Len(<<>>) : FALSE
    OBVIOUS
  <2>2. QED
    BY <1>1, <1>2, <1>3, <2>1 DEF IInv, Shapes
<1>8. Whole'
  BY <1>1, <1>2, <1>3 DEF IInv, Whole
<1>9. Ids'
  BY <1>1, <1>2, <1>3 DEF IInv, Ids
<1>10. CodesInTable'
  BY <1>1, <1>2, <1>3 DEF IInv, CodesInTable
<1>11. CodesInFiles'
  BY <1>1 DEF IInv, CodesInFiles
<1>12. Saving'
  BY <1>1, <1>2 DEF Saving
<1>13. SavedOK'
  BY <1>1 DEF IInv, SavedOK, SavedFile
<1>14. StillOnDisk'
  BY <1>1 DEF StillOnDisk
<1>15. AssertionsHold'
  BY <1>1, <1>2, <1>3 DEF IInv, Whole, AssertionsHold
<1>16. QED
  BY <1>3, <1>5, <1>6, <1>7, <1>8, <1>9, <1>10, <1>11, <1>12, <1>13, <1>14, <1>15
     DEF IInv, Faults

-----------------------------------------------------------------------------
(* Save, file by file. *)

\* The greatest of the names: the one that the most others come before.
LEMMA MaxOfNames == Max(Names) \in Nat /\ \A n \in Names : n <= Max(Names)
<1> DEFINE k == Cardinality(Names)
<1>1. IsFiniteSet(Names) /\ Names # {} /\ Names \subseteq Nat /\ k \in Nat
  BY BitWeavingAssumption, FS_CardinalityType
<1>2. k # 0
  BY <1>1, FS_EmptySet
<1>3. PICK m \in Names : Rank(Names, m) = k - 1
  <2>1. k - 1 \in 0..(k - 1)
    BY <1>1, <1>2
  <2>2. \A x \in 0..(k - 1) : \E n \in Names : Rank(Names, n) = x
    BY RankDense
  <2>3. QED
    BY <2>1, <2>2
<1>4. ASSUME NEW n \in Names, ~(n <= m)
      PROVE  FALSE
  <2>1. n \in Nat /\ m \in Nat /\ m < n
    BY <1>1, <1>4
  <2>2. {x \in Names : x < m} \subseteq {x \in Names : x < n}
    <3>1. \A x \in Names : x \in Nat /\ (x < m => x < n)
      BY <1>1, <2>1
    <3>2. QED
      BY <3>1
  <2>3. IsFiniteSet({x \in Names : x < n})
    BY <1>1, FS_Subset
  <2>4. Rank(Names, m) <= Rank(Names, n)
    BY <2>2, <2>3, FS_Subset DEF Rank
  <2>5. Rank(Names, n) \in 0..(k - 1) /\ Rank(Names, m) # Rank(Names, n)
    BY <2>1, RankDense
  <2>6. QED
    BY <1>1, <1>3, <2>4, <2>5
<1>5. \E x \in Names : \A y \in Names : x >= y
  BY <1>1, <1>4
<1>6. Max(Names) \in Names /\ \A y \in Names : Max(Names) >= y
  BY <1>5 DEF Max
<1>7. QED
  BY <1>1, <1>6

\* The files that a Save writes: all of them.
AllFiles(files, names) ==
  /\ files \in Seq(Names \cup {Meta}) /\ files # <<>>
  /\ \A i \in 1..Len(files) : files[i] # Meta => files[i] \in names
  /\ \E i \in 1..Len(files) : files[i] = Meta
  /\ \A n \in names : \E i \in 1..Len(files) : files[i] = n
\* Save asks for the meta file and for every column.
LEMMA FilesToSave ==
  ASSUME NEW names, names \subseteq Names
  PROVE  AllFiles(<<Meta>> \o Ascending(names, Max(Names) + 1), names)
<1> DEFINE m == Max(Names) + 1
           s == Ascending(names, m)
           k == Len(s)
           files == <<Meta>> \o s
<1>1. m \in Nat /\ names \subseteq Nat /\ \A n \in names : n \in 0..(m - 1)
  BY MaxOfNames, BitWeavingAssumption
<1>2. Lists(s, names)
  <2>1. names \cap 0..(m - 1) = names
    BY <1>1
  <2>2. QED
    BY <1>1, <2>1, AscendingLists
<1>3. files = <<Meta>> \o s
  BY Zenon
<1> HIDE DEF s, m, k, files
<1>4. /\ s \in Seq(Nat) /\ k \in Nat /\ \A i \in 1..k : s[i] \in names
      /\ \A x \in names : \E i \in 1..k : s[i] = x
  BY <1>2, LenProperties DEF Lists, k
<1>5. s \in Seq(Names \cup {Meta}) /\ <<Meta>> \in Seq(Names \cup {Meta})
  BY <1>4, IsASeq DEF k
<1>6. /\ files \in Seq(Names \cup {Meta}) /\ Len(files) = 1 + k
      /\ \A i \in 1..(1 + k) : files[i] = IF i <= 1 THEN Meta ELSE s[i - 1]
  <2>1. Len(<<Meta>>) = 1 /\ <<Meta>>[1] = Meta
    OBVIOUS
  <2>2. \A i \in 1..(1 + k) : i <= 1 => i = 1
    BY <1>4
  <2>3. /\ files \in Seq(Names \cup {Meta}) /\ Len(files) = 1 + k
        /\ \A i \in 1..(1 + k) : files[i] = IF i <= 1 THEN <<Meta>>[i] ELSE s[i - 1]
    <3> DEFINE S == Names \cup {Meta}
               one == <<Meta>>
    <3>1. s \in Seq(S) /\ one \in Seq(S) /\ Len(one) = 1
      BY <1>5, <2>1
    <3>2. files = one \o s
      BY <1>3
    <3>3. /\ files \in Seq(S) /\ Len(files) = 1 + k
          /\ \A i \in 1..(1 + k) : files[i] = IF i <= 1 THEN one[i] ELSE s[i - 1]
      <4> HIDE DEF S, one
      <4>1. /\ one \o s \in Seq(S) /\ Len(one \o s) = Len(one) + Len(s)
            /\ \A i \in 1..(Len(one) + Len(s)) :
                 (one \o s)[i] = IF i <= Len(one) THEN one[i] ELSE s[i - Len(one)]
        BY <3>1, ConcatProperties
      <4>2. Len(one) + Len(s) = 1 + k /\ Len(one) = 1
        BY <3>1 DEF k
      <4>3. QED
        BY <3>2, <4>1, <4>2
    <3>4. QED
      BY <3>3
  <2>4. QED
    BY <2>1, <2>2, <2>3
<1>7. files[1] = Meta /\ 1 \in 1..Len(files) /\ files # <<>>
  BY <1>4, <1>6
<1>8. ASSUME NEW i \in 1..Len(files), files[i] # Meta
      PROVE  files[i] \in names
  <2>1. ~(i <= 1) /\ i - 1 \in 1..k
    BY <1>4, <1>6, <1>8
  <2>2. QED
    BY <1>4, <1>6, <2>1
<1>9. ASSUME NEW n \in names
      PROVE  \E i \in 1..Len(files) : files[i] = n
  <2>1. PICK i \in 1..k : s[i] = n
    BY <1>4
  <2>2. i + 1 \in 1..(1 + k) /\ ~(i + 1 <= 1) /\ (i + 1) - 1 = i
    BY <1>4
  <2>3. files[i + 1] = n
    BY <1>6, <2>1, <2>2
  <2>4. QED
    BY <1>6, <2>2, <2>3
<1>10. AllFiles(files, names)
  BY <1>6, <1>7, <1>8, <1>9 DEF AllFiles
<1>11. QED
  BY <1>10 DEF files, s, m

\* Save is asked for.
LEMMA SaveKeeps ==
  ASSUME IInv, Save
  PROVE  IInv'
<1>1. /\ Ready /\ ~loaded /\ changes < MaxChanges /\ changes' = changes + 1
      /\ saving' = <<Meta>> \o Ascending(DOMAIN table.map, Max(Names) + 1)
      /\ saved' = table
      /\ bv' = NoVector /\ chosen' = {} /\ probed' = {} /\ scans' = 0
      /\ UNCHANGED <<table, disk, fault, schema, junk, written, stored, rewound,
                     torn, lost, loaded, store, stops>>
  BY DEF Save
<1>2. /\ Given0 /\ table # NoTable /\ store = NoStore /\ saving = <<>>
      /\ fault = "none"
  BY <1>1, WhenReady
<1>3. DOMAIN table.map \subseteq Names
  BY <1>2, GivenFacts
<1>4. /\ saving' \in Seq(Names \cup {Meta}) /\ saving' # <<>>
      /\ \A i \in 1..Len(saving') : saving'[i] # Meta => saving'[i] \in DOMAIN table.map
      /\ \E i \in 1..Len(saving') : saving'[i] = Meta
      /\ \A n \in DOMAIN table.map : \E i \in 1..Len(saving') : saving'[i] = n
  <2>1. AllFiles(saving', DOMAIN table.map)
    BY <1>1, <1>3, FilesToSave, Zenon
  <2>2. QED
    BY <2>1 DEF AllFiles
<1>5. BwTypeOK'
  <2>1. changes' \in 0..MaxChanges /\ 0 \in 0..MaxScans
    BY <1>1, Numbers DEF IInv, BwTypeOK
  <2>2. QED
    BY <1>1, <2>1 DEF BwTypeOK, IInv
<1>6. Phases'
  BY <1>1, <1>2 DEF IInv, Phases
<1>7. Shapes'
  BY <1>1, <1>4 DEF IInv, Shapes
<1>8. Whole'
  BY <1>1 DEF IInv, Whole
<1>9. Ids'
  BY <1>1 DEF IInv, Ids
<1>10. CodesInTable'
  BY <1>1, <1>2 DEF IInv, CodesInTable
<1>11. CodesInFiles'
  BY <1>1 DEF IInv, CodesInFiles
<1>12. Saving'
  BY <1>1, <1>4 DEF Saving
<1>13. SavedOK'
  BY <1>4 DEF SavedOK
<1>14. StillOnDisk'
  BY <1>1 DEF StillOnDisk
<1>15. Faults'
  BY <1>1, <1>2 DEF Faults, AssertionsHold, NullOnlyWhere
<1>16. QED
  BY <1>5, <1>6, <1>7, <1>8, <1>9, <1>10, <1>11, <1>12, <1>13, <1>14, <1>15 DEF IInv

\* What is still to be written, when one file is.
RestOf(rest, files) ==
  /\ rest \in Seq(Names \cup {Meta})
  /\ \A i \in 1..Len(rest) : \E j \in 1..Len(files) : rest[i] = files[j]
  /\ \A x : (\A i \in 1..Len(rest) : rest[i] # x) =>
        x = Head(files) \/ \A i \in 1..Len(files) : files[i] # x
  /\ \E i \in 1..Len(files) : files[i] = Head(files)
\* The head of the files is the one that is written.
LEMMA RestToSave ==
  ASSUME NEW files \in Seq(Names \cup {Meta}), files # <<>>
  PROVE  RestOf(Tail(files), files)
<1> DEFINE S == Names \cup {Meta}
           k == Len(files)
           rest == Tail(files)
<1>1. /\ rest \in Seq(S) /\ Len(rest) = k - 1 /\ k \in Nat \ {0}
      /\ \A i \in 1..(k - 1) : rest[i] = files[i + 1]
      /\ Head(files) = files[1]
  OBVIOUS
<1> HIDE DEF S, k, rest
<1>2. ASSUME NEW i \in 1..Len(rest)
      PROVE  \E j \in 1..k : rest[i] = files[j]
  <2>1. i + 1 \in 1..k /\ rest[i] = files[i + 1]
    BY <1>1
  <2>2. QED
    BY <2>1
<1>3. ASSUME NEW x, \A i \in 1..Len(rest) : rest[i] # x, x # Head(files)
      PROVE  \A i \in 1..k : files[i] # x
  <2> SUFFICES ASSUME NEW i \in 1..k PROVE files[i] # x
    OBVIOUS
  <2>1. CASE i = 1
    BY <1>1, <1>3, <2>1
  <2>2. CASE i # 1
    <3>1. i - 1 \in 1..(k - 1) /\ (i - 1) + 1 = i
      BY <1>1, <2>2
    <3>2. rest[i - 1] = files[i]
      BY <1>1, <3>1
    <3>3. QED
      BY <1>1, <1>3, <3>1, <3>2
  <2>3. QED
    BY <2>1, <2>2
<1>4. 1 \in 1..k
  BY <1>1
<1>5. QED
  BY <1>1, <1>2, <1>3, <1>4 DEF k, rest, S, RestOf

\* What holds in the middle of a Save.
LEMMA WhileSaving ==
  ASSUME IInv, saving # <<>>
  PROVE  /\ Given0 /\ table # NoTable /\ store = NoStore /\ fault = "none"
         /\ bv = NoVector /\ ~loaded
         /\ saving \in Seq(Names \cup {Meta})
         /\ \A i \in 1..Len(saving) : saving[i] # Meta => saving[i] \in DOMAIN table.map
         /\ CodesHold(table, written, junk) /\ DOMAIN written = DOMAIN table.map
         /\ DOMAIN table.map \subseteq Names /\ Meta \notin DOMAIN table.map
         /\ \A n \in DOMAIN table.map :
              /\ ColumnOK(table.map[n]) /\ FormatOf(table.map[n], schema[n])
              /\ HasCodes(table.map[n], written[n], junk)
<1>1. /\ table # NoTable /\ store = NoStore /\ fault = "none"
      /\ bv = NoVector /\ ~loaded
  BY DEF IInv, Phases
<1>2. /\ Given0 /\ saving \in Seq(Names \cup {Meta})
      /\ \A i \in 1..Len(saving) : saving[i] # Meta => saving[i] \in DOMAIN table.map
  BY <1>1 DEF IInv, Shapes, Given0
<1>3. /\ DOMAIN table.map \subseteq Names
      /\ \A n \in DOMAIN table.map :
           ColumnOK(table.map[n]) /\ FormatOf(table.map[n], schema[n])
  BY <1>2, GivenFacts DEF Given0, TableOK, MapOK
<1>4. Meta \notin Names
  BY BitWeavingAssumption
<1>5. CodesHold(table, written, junk)
  BY <1>1 DEF IInv, CodesInTable
<1>6. QED
  BY <1>1, <1>2, <1>3, <1>4, <1>5 DEF CodesHold

\* The meta file of a table.
LEMMA MetaFileOK ==
  ASSUME Given0
  PROVE  /\ MetaOK(MetaFile(table)) /\ MetaFile(table).num = table.num
         /\ MetaFile(table).names = DOMAIN table.map
<1>1. table.num \in 0..MaxTuples /\ DOMAIN table.map \subseteq Names
  BY GivenFacts DEF Given0, TableOK
<1>2. QED
  BY <1>1 DEF MetaOK, MetaFile

\* The last file completes the Save.
SavedIn(d) ==
  /\ d.meta.num = table.num /\ d.meta.names = DOMAIN table.map
  /\ \A n \in d.meta.names :
       /\ n \in DOMAIN d.files /\ d.files[n] = ColumnFile(table.map[n])
       /\ Fits(FileColumn(d.files[n], 0), d.meta.num)
       /\ FormatOK(d.files[n].type, d.files[n].size)
\* The directory is then what the Save was asked to write.
LEMMA LastFile ==
  ASSUME NEW d, AllFit(table), d.meta = MetaFile(table),
         \A n \in DOMAIN table.map :
           /\ n \in DOMAIN d.files /\ d.files[n] = ColumnFile(table.map[n])
           /\ ColumnOK(table.map[n]) /\ FormatOf(table.map[n], schema[n])
  PROVE  SavedIn(d)
<1>1. d.meta.num = table.num /\ d.meta.names = DOMAIN table.map
  BY DEF MetaFile
<1>2. ASSUME NEW n \in DOMAIN table.map
      PROVE  /\ Fits(FileColumn(d.files[n], 0), table.num)
             /\ FormatOK(d.files[n].type, d.files[n].size)
  <2> DEFINE c == table.map[n]
             f == d.files[n]
             format == schema[n]
  <2>1. /\ ColumnOK(c) /\ FormatOf(c, format) /\ f = ColumnFile(c)
        /\ Fits(c, table.num) /\ FormatOK(c.type, c.size)
    BY DEF AllFit
  <2> HIDE DEF c, f, format
  <2>2. Fits(FileColumn(f, 0), table.num) /\ f.type = c.type /\ f.size = c.size
    BY <2>1, ColumnFileOK
  <2>3. FormatOK(f.type, f.size)
    BY <2>1, <2>2
  <2>4. QED
    BY <2>2, <2>3 DEF f
<1>3. QED
  BY <1>1, <1>2 DEF SavedIn

\* One file is written, the others stay.
SavesOne(h) ==
  /\ disk' = [meta |-> disk'.meta, files |-> disk'.files]
  /\ h = Meta => disk'.meta = MetaFile(table)
  /\ h # Meta => disk'.meta = disk.meta
  /\ \A n \in DOMAIN disk'.files :
       \/ /\ n \in DOMAIN table.map /\ n \in DOMAIN stored'
          /\ disk'.files[n] = ColumnFile(table.map[n]) /\ stored'[n] = written[n]
       \/ /\ n \in DOMAIN disk.files /\ n \in DOMAIN stored'
          /\ disk'.files[n] = disk.files[n] /\ stored'[n] = stored[n]
  /\ \A n \in DOMAIN table.map : n = h \/ WrittenFile(n) =>
       n \in DOMAIN disk'.files /\ disk'.files[n] = ColumnFile(table.map[n])

\* A step of Save does that.
LEMMA SavesOneFile ==
  ASSUME IInv, SaveNext
  PROVE  SavesOne(Head(saving))
<1> DEFINE h == Head(saving)
           f == ColumnFile(table.map[h])
<1>1. /\ saving # <<>> /\ disk = [meta |-> disk.meta, files |-> disk.files]
      /\ \A n \in DOMAIN disk.files : n \in DOMAIN stored
  BY DEF SaveNext, IInv, Shapes, CodesInFiles
<1>2. /\ \A i \in 1..Len(saving) : saving[i] # Meta => saving[i] \in DOMAIN table.map
      /\ \E i \in 1..Len(saving) : saving[i] = h
      /\ Meta \notin DOMAIN table.map
  BY <1>1, WhileSaving, RestToSave DEF RestOf
<1>3. CASE h = Meta
  <2>1. disk' = [disk EXCEPT !.meta = MetaFile(table)] /\ stored' = stored
    BY <1>3 DEF SaveNext
  <2>2. disk' = [meta |-> MetaFile(table), files |-> disk.files]
    BY <1>1, <2>1
  <2>3. disk'.meta = MetaFile(table) /\ disk'.files = disk.files
    BY <2>2
  <2>4. QED
    BY <1>1, <1>2, <1>3, <2>1, <2>2, <2>3 DEF SavesOne, WrittenFile
<1>4. CASE h # Meta
  <2>1. /\ disk' = [disk EXCEPT !.files = Insert(@, h, f)]
        /\ stored' = Insert(stored, h, written[h])
    BY <1>4 DEF SaveNext
  <2>2. h \in DOMAIN table.map
    BY <1>2, <1>4
  <2>3. disk' = [meta |-> disk.meta, files |-> Insert(disk.files, h, f)]
    BY <1>1, <2>1
  <2>4. disk'.meta = disk.meta /\ disk'.files = Insert(disk.files, h, f)
    BY <2>3
  <2> HIDE DEF h
  <2>5. /\ DOMAIN disk'.files = DOMAIN disk.files \cup {h}
        /\ disk'.files[h] = f
        /\ \A n \in DOMAIN disk.files : n # h => disk'.files[n] = disk.files[n]
    BY <2>4 DEF Insert
  <2>6. /\ DOMAIN stored' = DOMAIN stored \cup {h}
        /\ stored'[h] = written[h]
        /\ \A n \in DOMAIN stored : n # h => stored'[n] = stored[n]
    BY <2>1 DEF Insert
  <2>7. ASSUME NEW n \in DOMAIN disk'.files
        PROVE  \/ /\ n \in DOMAIN table.map /\ n \in DOMAIN stored'
                  /\ disk'.files[n] = ColumnFile(table.map[n])
                  /\ stored'[n] = written[n]
               \/ /\ n \in DOMAIN disk.files /\ n \in DOMAIN stored'
                  /\ disk'.files[n] = disk.files[n] /\ stored'[n] = stored[n]
    <3>1. CASE n = h
      BY <2>2, <2>5, <2>6, <3>1
    <3>2. CASE n # h
      BY <1>1, <2>5, <2>6, <2>7, <3>2
    <3>3. QED
      BY <3>1, <3>2
  <2>8. ASSUME NEW n \in DOMAIN table.map, n = h \/ WrittenFile(n)
        PROVE  /\ n \in DOMAIN disk'.files
               /\ disk'.files[n] = ColumnFile(table.map[n])
    <3>1. CASE n = h
      BY <2>5, <3>1
    <3>2. CASE n # h
      BY <1>1, <2>5, <2>8, <3>2 DEF WrittenFile
    <3>3. QED
      BY <3>1, <3>2
  <2>9. disk' = [meta |-> disk'.meta, files |-> disk'.files]
    BY <2>3, <2>4
  <2>10. QED
    BY <1>4, <2>4, <2>7, <2>8, <2>9 DEF SavesOne, h
<1>5. QED
  BY <1>3, <1>4

\* A step of Save keeps the invariant.
LEMMA SaveNextKeeps ==
  ASSUME IInv, SaveNext
  PROVE  IInv'
<1> DEFINE h == Head(saving)
<1>1. /\ saving # <<>> /\ saving' = Tail(saving) /\ table # NoTable
      /\ UNCHANGED <<table, bv, fault, schema, junk, written, chosen, probed,
                     rewound, saved, torn, lost, loaded, store, changes, scans,
                     stops>>
  BY DEF SaveNext
<1>2. /\ Given0 /\ store = NoStore /\ fault = "none" /\ bv = NoVector /\ ~loaded
      /\ saving \in Seq(Names \cup {Meta})
      /\ \A i \in 1..Len(saving) : saving[i] # Meta => saving[i] \in DOMAIN table.map
      /\ CodesHold(table, written, junk) /\ DOMAIN written = DOMAIN table.map
      /\ DOMAIN table.map \subseteq Names /\ Meta \notin DOMAIN table.map
      /\ \A n \in DOMAIN table.map :
           /\ ColumnOK(table.map[n]) /\ FormatOf(table.map[n], schema[n])
           /\ HasCodes(table.map[n], written[n], junk)
  BY <1>1, WhileSaving
<1>3. /\ disk' = [meta |-> disk'.meta, files |-> disk'.files]
      /\ h = Meta => disk'.meta = MetaFile(table)
      /\ h # Meta => disk'.meta = disk.meta
      /\ \A n \in DOMAIN disk'.files :
           \/ /\ n \in DOMAIN table.map /\ n \in DOMAIN stored'
              /\ disk'.files[n] = ColumnFile(table.map[n])
              /\ stored'[n] = written[n]
           \/ /\ n \in DOMAIN disk.files /\ n \in DOMAIN stored'
              /\ disk'.files[n] = disk.files[n] /\ stored'[n] = stored[n]
      /\ \A n \in DOMAIN table.map : n = h \/ WrittenFile(n) =>
           n \in DOMAIN disk'.files /\ disk'.files[n] = ColumnFile(table.map[n])
  BY SavesOneFile DEF SavesOne
<1>4. /\ saving' \in Seq(Names \cup {Meta})
      /\ \A i \in 1..Len(saving') : \E j \in 1..Len(saving) : saving'[i] = saving[j]
      /\ \A x : (\A i \in 1..Len(saving') : saving'[i] # x) =>
            x = h \/ \A i \in 1..Len(saving) : saving[i] # x
  <2>1. RestOf(saving', saving)
    BY <1>1, <1>2, RestToSave, Zenon
  <2>2. QED
    BY <2>1 DEF RestOf
<1> HIDE DEF h
<1>5. BwTypeOK'
  BY <1>1 DEF BwTypeOK, IInv
<1>6. Phases'
  BY <1>1, <1>2 DEF IInv, Phases
<1>7. Shapes'
  <2>1. disk'.meta \notin {NoFile, Meta} => MetaOK(disk'.meta)
    <3>1. MetaOK(MetaFile(table))
      BY <1>2, MetaFileOK
    <3>2. disk.meta \notin {NoFile, Meta} => MetaOK(disk.meta)
      BY DEF IInv, Shapes
    <3>3. QED
      BY <1>3, <3>1, <3>2
  <2>2. ASSUME NEW n \in DOMAIN disk'.files
        PROVE  FileOK(disk'.files[n], schema[n])
    <3>1. ASSUME n \in DOMAIN table.map, disk'.files[n] = ColumnFile(table.map[n])
          PROVE  FileOK(disk'.files[n], schema[n])
      <4> DEFINE c == table.map[n]
                 format == schema[n]
      <4>1. ColumnOK(c) /\ FormatOf(c, format)
        BY <1>2, <3>1
      <4> HIDE DEF c, format
      <4>2. FileOK(ColumnFile(c), format)
        BY <4>1, ColumnFileOK
      <4>3. QED
        BY <3>1, <4>2 DEF c, format
    <3>2. ASSUME n \in DOMAIN disk.files, disk'.files[n] = disk.files[n]
          PROVE  FileOK(disk'.files[n], schema[n])
      BY <3>2 DEF IInv, Shapes
    <3>3. QED
      BY <1>3, <2>2, <3>1, <3>2
  <2>3. \A i \in 1..Len(saving') : saving'[i] # Meta => saving'[i] \in DOMAIN table.map
    BY <1>2, <1>4
  <2>4. /\ schema \in Schemas /\ junk \in Junks
        /\ table # NoTable /\ store = NoStore => TableOK(table, schema)
        /\ bv # NoVector => VectorOK(bv, table.num)
    BY DEF IInv, Shapes
  <2>5. QED
    BY <1>1, <1>3, <1>4, <2>1, <2>2, <2>3, <2>4 DEF Shapes
<1>8. Whole'
  BY <1>1 DEF IInv, Whole
<1>9. Ids'
  BY <1>1 DEF IInv, Ids
<1>10. CodesInTable'
  BY <1>1 DEF IInv, CodesInTable
<1>11. CodesInFiles'
  <2> SUFFICES ASSUME NEW n \in DOMAIN disk'.files
               PROVE  /\ n \in DOMAIN stored'
                      /\ HasCodes(FileColumn(disk'.files[n], 0), stored'[n], junk)
    BY <1>1 DEF CodesInFiles
  <2>1. ASSUME n \in DOMAIN table.map, disk'.files[n] = ColumnFile(table.map[n]),
               stored'[n] = written[n]
        PROVE  HasCodes(FileColumn(disk'.files[n], 0), stored'[n], junk)
    <3> DEFINE c == table.map[n]
               format == schema[n]
               codes == written[n]
    <3>1. ColumnOK(c) /\ FormatOf(c, format) /\ HasCodes(c, codes, junk)
      BY <1>2, <2>1
    <3> HIDE DEF c, format, codes
    <3>2. \A t, junk0 : CodeAt(FileColumn(ColumnFile(c), 0), t, junk0) = CodeAt(c, t, junk0)
      BY <3>1, ColumnFileOK
    <3>3. HasCodes(FileColumn(ColumnFile(c), 0), codes, junk)
      BY <3>1, <3>2 DEF HasCodes
    <3>4. QED
      BY <2>1, <3>3 DEF c, codes
  <2>2. ASSUME n \in DOMAIN disk.files, disk'.files[n] = disk.files[n],
               stored'[n] = stored[n]
        PROVE  HasCodes(FileColumn(disk'.files[n], 0), stored'[n], junk)
    BY <2>2 DEF IInv, CodesInFiles
  <2>3. QED
    BY <1>3, <2>1, <2>2
<1>12. /\ saved = table
       /\ (\A i \in 1..Len(saving) : saving[i] # Meta) => disk.meta = MetaFile(table)
       /\ \A n \in DOMAIN table.map :
            (\A i \in 1..Len(saving) : saving[i] # n) => WrittenFile(n)
  BY <1>1 DEF IInv, Saving
<1>13. /\ (\A i \in 1..Len(saving') : saving'[i] # Meta) => disk'.meta = MetaFile(table)
       /\ \A n \in DOMAIN table.map :
            (\A i \in 1..Len(saving') : saving'[i] # n) =>
              n \in DOMAIN disk'.files /\ disk'.files[n] = ColumnFile(table.map[n])
  BY <1>3, <1>4, <1>12
<1>14. Saving'
  BY <1>1, <1>12, <1>13 DEF Saving, WrittenFile
<1>15. SavedOK'
  <2> DEFINE d == disk'
  <2> SUFFICES ASSUME ~torn, saving' = <<>> PROVE SavedIn(d)
    BY <1>1, <1>12 DEF SavedOK, SavedFile, SavedIn
  <2>1. \A i \in 1..Len(saving') : FALSE
    OBVIOUS
  <2>2. /\ d.meta = MetaFile(table)
        /\ \A n \in DOMAIN table.map :
             /\ n \in DOMAIN d.files /\ d.files[n] = ColumnFile(table.map[n])
             /\ ColumnOK(table.map[n]) /\ FormatOf(table.map[n], schema[n])
    BY <1>2, <1>13, <2>1
  <2>3. AllFit(table)
    BY <1>1, <1>2 DEF IInv, Whole
  <2> HIDE DEF d
  <2>4. QED
    BY <2>2, <2>3, LastFile
<1>16. StillOnDisk'
  BY <1>1, <1>2 DEF StillOnDisk
<1>17. Faults'
  BY <1>1, <1>2 DEF Faults, AssertionsHold, NullOnlyWhere
<1>18. QED
  BY <1>5, <1>6, <1>7, <1>8, <1>9, <1>10, <1>11, <1>14, <1>15, <1>16, <1>17 DEF IInv

\* What an end of the program does to the variables.
EndFrame ==
  /\ table # NoTable /\ store = NoStore /\ stops < MaxStops /\ stops' = stops + 1
  /\ torn' = (torn \/ saving # <<>>)
  /\ table' = NoTable /\ bv' = NoVector /\ saving' = <<>> /\ fault' = "none"
  /\ written' = <<>> /\ chosen' = {} /\ probed' = {} /\ scans' = 0 /\ lost' = {}
  /\ loaded' = FALSE
  /\ UNCHANGED <<schema, junk, saved, store, changes>>
\* What it leaves of the directory.
EndFiles ==
  /\ disk' = [meta |-> disk'.meta, files |-> disk'.files]
  /\ disk'.meta \in {disk.meta, Meta}
  /\ \A n \in DOMAIN disk'.files :
       /\ FileOK(disk'.files[n], schema[n])
       /\ n \in DOMAIN stored'
       /\ HasCodes(FileColumn(disk'.files[n], 0), stored'[n], junk)
  /\ saving = <<>> => disk' = disk /\ stored' = stored

\* An end that leaves such files keeps the invariant.
LEMMA EndKeeps ==
  ASSUME IInv, EndFrame, EndFiles
  PROVE  IInv'
<1> USE DEF EndFrame
<1>1. BwTypeOK'
  <2>1. stops' \in 0..MaxStops /\ 0 \in 0..MaxScans
    BY Numbers DEF IInv, BwTypeOK
  <2>2. QED
    BY <2>1 DEF BwTypeOK, IInv
<1>2. Phases'
  BY DEF Phases
<1>3. Shapes'
  <2>1. \A i \in 1..Len(<<>>) : FALSE
    OBVIOUS
  <2>2. disk'.meta \notin {NoFile, Meta} => MetaOK(disk'.meta)
    BY DEF EndFiles, IInv, Shapes
  <2>3. <<>> \in Seq(Names \cup {Meta})
    OBVIOUS
  <2>4. QED
    BY <2>1, <2>2, <2>3 DEF EndFiles, IInv, Shapes
<1>4. Whole' /\ Ids' /\ CodesInTable' /\ Saving' /\ StillOnDisk'
  BY DEF Whole, Ids, CodesInTable, Saving, StillOnDisk
<1>5. CodesInFiles'
  BY DEF EndFiles, CodesInFiles
<1>6. SavedOK'
  <2>1. CASE torn \/ saving # <<>>
    BY <2>1 DEF SavedOK
  <2>2. CASE ~torn /\ saving = <<>>
    <3>1. disk' = disk /\ saved' = saved
      BY <2>2 DEF EndFiles
    <3>2. QED
      BY <2>2, <3>1 DEF IInv, SavedOK, SavedFile
  <2>3. QED
    BY <2>1, <2>2
<1>7. Faults'
  BY DEF Faults, AssertionsHold, NullOnlyWhere
<1>8. QED
  BY <1>1, <1>2, <1>3, <1>4, <1>5, <1>6, <1>7 DEF IInv

\* Ended is such an end.
LEMMA EndedFrame ==
  ASSUME NEW d, NEW s, Ended(d, s)
  PROVE  EndFrame /\ disk' = d /\ stored' = s
  BY DEF Ended, EndFrame

\* The files on the disk.
LEMMA FilesHold ==
  ASSUME IInv
  PROVE  /\ disk = [meta |-> disk.meta, files |-> disk.files]
         /\ \A n \in DOMAIN disk.files :
              /\ FileOK(disk.files[n], schema[n]) /\ n \in DOMAIN stored
              /\ HasCodes(FileColumn(disk.files[n], 0), stored[n], junk)
  BY DEF IInv, Shapes, CodesInFiles

\* A stop between two files.
LEMMA StopKeeps ==
  ASSUME IInv, Stop
  PROVE  IInv'
<1>1. EndFrame /\ disk' = disk /\ stored' = stored
  BY EndedFrame DEF Stop
<1>2. EndFiles
  BY <1>1, FilesHold DEF EndFiles
<1>3. QED
  BY <1>1, <1>2, EndKeeps

\* A stop that leaves an empty file.
LEMMA StopInFileKeeps ==
  ASSUME IInv, StopInFile
  PROVE  IInv'
<1> DEFINE h == Head(saving)
<1>1. /\ EndFrame /\ saving # <<>> /\ stored' = stored
      /\ disk' = IF h = Meta THEN [disk EXCEPT !.meta = Meta]
                 ELSE [disk EXCEPT !.files = Erase(@, h)]
  BY EndedFrame DEF StopInFile
<1> HIDE DEF h
<1>2. /\ disk' = [meta |-> disk'.meta, files |-> disk'.files]
      /\ disk'.meta \in {disk.meta, Meta}
      /\ DOMAIN disk'.files \subseteq DOMAIN disk.files
      /\ \A n \in DOMAIN disk'.files : disk'.files[n] = disk.files[n]
  <2>1. CASE h = Meta
    <3>1. disk' = [meta |-> Meta, files |-> disk.files]
      BY <1>1, <2>1, FilesHold
    <3>2. QED
      BY <3>1
  <2>2. CASE h # Meta
    <3>1. disk' = [meta |-> disk.meta, files |-> Erase(disk.files, h)]
      BY <1>1, <2>2, FilesHold
    <3>2. disk'.meta = disk.meta /\ disk'.files = Erase(disk.files, h)
      BY <3>1
    <3>3. QED
      BY <3>1, <3>2 DEF Erase
  <2>3. QED
    BY <2>1, <2>2
<1>3. EndFiles
  BY <1>1, <1>2, FilesHold DEF EndFiles
<1>4. QED
  BY <1>1, <1>3, EndKeeps

\* The codes of a column file that is cut off.
CodesLeft(codes, type, whole) ==
  [t \in AllTids |->
     CASE BlockOf(t) - whole < 1 -> codes[t]
       [] BlockOf(t) - whole = 1 -> [code |-> codes[t].code, sure |-> FALSE]
       [] BlockOf(t) - whole > 1 -> Blank(type)[t]]
LEMMA CutCodes ==
  ASSUME NEW c, ColumnOK(c), NEW format, FormatOf(c, format), NEW codes,
         HasCodes(c, codes, junk), junk \in Nat,
         NEW whole \in Nat, whole < Len(c.blocks), NEW kept,
         NEW f, f = CutFile(ColumnFile(c), whole, kept, junk),
         NEW left, left = CodesLeft(codes, c.type, whole)
  PROVE  FileOK(f, format) /\ HasCodes(FileColumn(f, 0), left, junk)
<1>1. /\ FileOK(f, format)
      /\ \A t \in Nat :
           /\ BlockOf(t) <= whole => CodeAt(FileColumn(f, 0), t, junk) = CodeAt(c, t, junk)
           /\ BlockOf(t) > whole + 1
                => CodeAt(FileColumn(f, 0), t, junk) = Unwritten(c.type, junk)
  BY CutFileOK
<1>2. ASSUME NEW t \in AllTids, left[t].sure
      PROVE  left[t].code = CodeAt(FileColumn(f, 0), t, junk)
  <2> DEFINE after == BlockOf(t) - whole
             blank == Blank(c.type)[t]
             unsure == [code |-> codes[t].code, sure |-> FALSE]
  <2>1. t \in Nat /\ BlockOf(t) \in Nat \ {0} /\ after \in Int
    BY TidsAreNumbers, PlaceOfTuple
  <2>2. left[t] = CASE after < 1 -> codes[t]
                    [] after = 1 -> unsure
                    [] after > 1 -> blank
    BY DEF CodesLeft
  <2>3. ~unsure.sure /\ blank.code = Unwritten(c.type, junk)
    BY BlankCodes
  <2>4. /\ after < 1 => BlockOf(t) <= whole
        /\ after > 1 => BlockOf(t) > whole + 1
    BY <2>1
  <2> HIDE DEF after, blank, unsure
  <2>5. CASE after < 1
    <3>1. left[t] = codes[t]
      BY <2>1, <2>2, <2>5
    <3>2. codes[t].sure => codes[t].code = CodeAt(c, t, junk)
      BY DEF HasCodes
    <3>3. QED
      BY <1>1, <1>2, <2>1, <2>4, <2>5, <3>1, <3>2
  <2>6. CASE after = 1
    <3>1. left[t] = unsure
      BY <2>1, <2>2, <2>6
    <3>2. QED
      BY <1>2, <2>3, <3>1
  <2>7. CASE after > 1
    <3>1. left[t] = blank
      BY <2>1, <2>2, <2>7
    <3>2. QED
      BY <1>1, <2>1, <2>3, <2>4, <2>7, <3>1
  <2>8. QED
    BY <2>1, <2>5, <2>6, <2>7
<1>3. DOMAIN left = AllTids
  BY DEF CodesLeft
<1>4. QED
  BY <1>1, <1>2, <1>3 DEF HasCodes

\* A stop that leaves a file cut off.
LEMMA StopInColumnKeeps ==
  ASSUME IInv, NEW cut \in Cuts, StopInColumn(cut)
  PROVE  IInv'
<1> DEFINE h == Head(saving)
           c == table.map[h]
           format == schema[h]
           codes == written[h]
           whole == cut.whole
           kept == cut.kept
           f == CutFile(ColumnFile(c), whole, kept, junk)
           left == CodesLeft(codes, c.type, whole)
<1>1. /\ saving # <<>> /\ h # Meta /\ whole < Len(c.blocks)
      /\ Ended([disk EXCEPT !.files = Insert(@, h, f)], Insert(stored, h, left))
  BY DEF StopInColumn, CodesLeft
<1>2. /\ EndFrame /\ disk' = [disk EXCEPT !.files = Insert(@, h, f)]
      /\ stored' = Insert(stored, h, left)
  <2> HIDE DEF h, f, left
  <2>1. QED
    BY <1>1, EndedFrame
<1>3. h \in DOMAIN table.map
  <2>1. /\ saving \in Seq(Names \cup {Meta})
        /\ \A i \in 1..Len(saving) : saving[i] # Meta => saving[i] \in DOMAIN table.map
    BY <1>1, WhileSaving
  <2>2. h = saving[1] /\ 1 \in 1..Len(saving)
    BY <1>1, <2>1
  <2>3. QED
    BY <1>1, <2>1, <2>2
<1>4. FileOK(f, format) /\ HasCodes(FileColumn(f, 0), left, junk)
  <2>1. ColumnOK(c) /\ FormatOf(c, format) /\ HasCodes(c, codes, junk) /\ junk \in Nat
    BY <1>1, <1>3, WhileSaving, GivenFacts
  <2>2. whole \in Nat
    BY BitWeavingAssumption
  <2>3. /\ f = CutFile(ColumnFile(c), whole, kept, junk)
        /\ left = CodesLeft(codes, c.type, whole)
    OBVIOUS
  <2>4. whole < Len(c.blocks)
    BY <1>1
  <2> HIDE DEF h, c, format, codes, whole, kept, f, left
  <2>5. QED
    BY <2>1, <2>2, <2>3, <2>4, CutCodes
<1> HIDE DEF h, c, format, codes, whole, kept, f, left
<1>5. disk' = [meta |-> disk.meta, files |-> Insert(disk.files, h, f)]
  BY <1>2, FilesHold
<1>6. /\ disk'.meta = disk.meta /\ disk'.files = Insert(disk.files, h, f)
      /\ disk' = [meta |-> disk'.meta, files |-> disk'.files]
  BY <1>5
<1>7. /\ DOMAIN disk'.files = DOMAIN disk.files \cup {h} /\ disk'.files[h] = f
      /\ \A n \in DOMAIN disk.files : n # h => disk'.files[n] = disk.files[n]
  BY <1>6 DEF Insert
<1>8. /\ DOMAIN stored' = DOMAIN stored \cup {h} /\ stored'[h] = left
      /\ \A n \in DOMAIN stored : n # h => stored'[n] = stored[n]
  BY <1>2 DEF Insert
<1>9. ASSUME NEW n \in DOMAIN disk'.files
      PROVE  /\ FileOK(disk'.files[n], schema[n])
             /\ n \in DOMAIN stored'
             /\ HasCodes(FileColumn(disk'.files[n], 0), stored'[n], junk)
  <2>1. CASE n = h
    BY <1>4, <1>7, <1>8, <2>1 DEF format
  <2>2. CASE n # h
    BY <1>7, <1>8, <1>9, <2>2, FilesHold
  <2>3. QED
    BY <2>1, <2>2
<1>10. EndFiles
  BY <1>1, <1>6, <1>9 DEF EndFiles
<1>11. QED
  BY <1>2, <1>10, EndKeeps

-----------------------------------------------------------------------------
(* Open. *)

\* A new table.
LEMMA NewTableHolds ==
  /\ AllFit(NewTable) /\ Dense(NewTable) /\ CodesHold(NewTable, <<>>, junk)
  /\ NewTable # NoTable /\ NewTable.num \in 0..MaxTuples
<1>1. /\ NewTable.num = 0 /\ DOMAIN NewTable.map = {}
      /\ NewTable.free_column_ids = <<>>
  BY DEF NewTable
<1>2. Dense(NewTable)
  BY <1>1, DenseLoad
<1>3. NewTable # NoTable
  BY NewTableOK, IsTable
<1>4. 0 \in 0..MaxTuples
  BY Numbers
<1>5. QED
  BY <1>1, <1>2, <1>3, <1>4 DEF AllFit, CodesHold

\* Open of an empty directory.
LEMMA OpenNewKeeps ==
  ASSUME IInv, table = NoTable, store = NoStore,
         table' = NewTable, disk' = [meta |-> NoFile, files |-> <<>>],
         written' = <<>>, stored' = <<>>, saved' = NoFile,
         torn' = FALSE, loaded' = FALSE,
         UNCHANGED <<saving, bv, fault, schema, junk, chosen, probed, rewound, lost,
                     store, changes, scans, stops>>
  PROVE  IInv'
<1>1. saving = <<>> /\ fault = "none" /\ bv = NoVector
  BY DEF IInv, Phases
<1>2. disk'.meta = NoFile /\ disk'.files = <<>> /\ DOMAIN disk'.files = {}
  OBVIOUS
<1>3. /\ AllFit(NewTable) /\ Dense(NewTable) /\ CodesHold(NewTable, <<>>, junk)
      /\ NewTable # NoTable /\ NewTable.num \in 0..MaxTuples
  BY NewTableHolds
<1>4. BwTypeOK'
  BY <1>1, <1>3 DEF BwTypeOK, IInv
<1>5. Phases'
  BY <1>1, <1>3 DEF Phases
<1>6. Shapes'
  <2>1. \A i \in 1..Len(<<>>) : FALSE
    OBVIOUS
  <2>2. TableOK(NewTable, schema)
    BY NewTableOK
  <2>3. schema \in Schemas /\ junk \in Junks /\ saving \in Seq(Names \cup {Meta})
    BY DEF IInv, Shapes
  <2>4. QED
    BY <1>1, <1>2, <2>1, <2>2, <2>3 DEF Shapes
<1>7. Whole' /\ Ids' /\ CodesInTable'
  BY <1>1, <1>3 DEF Whole, Ids, CodesInTable
<1>8. CodesInFiles'
  BY <1>2 DEF CodesInFiles
<1>9. Saving' /\ SavedOK' /\ StillOnDisk' /\ Faults'
  BY <1>1, <1>2 DEF Saving, SavedOK, StillOnDisk, Faults, AssertionsHold, NullOnlyWhere
<1>10. QED
  BY <1>4, <1>5, <1>6, <1>7, <1>8, <1>9 DEF IInv

\* Open of a directory with an empty meta file: the table is new, the files stay.
LEMMA OpenEmptyKeeps ==
  ASSUME IInv, table = NoTable, store = NoStore, disk.meta = Meta,
         table' = NewTable, written' = <<>>, loaded' = FALSE,
         UNCHANGED <<disk, stored, saved, torn, saving, bv, fault, schema, junk,
                     chosen, probed, rewound, lost, store, changes, scans, stops>>
  PROVE  IInv'
<1>1. saving = <<>> /\ fault = "none" /\ bv = NoVector
  BY DEF IInv, Phases
<1>2. /\ AllFit(NewTable) /\ Dense(NewTable) /\ CodesHold(NewTable, <<>>, junk)
      /\ NewTable # NoTable /\ NewTable.num \in 0..MaxTuples
  BY NewTableHolds
<1>3. BwTypeOK'
  BY <1>1, <1>2 DEF BwTypeOK, IInv
<1>4. Phases'
  BY <1>1, <1>2 DEF Phases
<1>5. Shapes'
  <2>1. \A i \in 1..Len(<<>>) : FALSE
    OBVIOUS
  <2>2. TableOK(NewTable, schema)
    BY NewTableOK
  <2>3. /\ schema \in Schemas /\ junk \in Junks /\ saving \in Seq(Names \cup {Meta})
        /\ disk = [meta |-> disk.meta, files |-> disk.files]
        /\ \A n \in DOMAIN disk.files : FileOK(disk.files[n], schema[n])
    BY DEF IInv, Shapes
  <2>4. QED
    BY <1>1, <2>1, <2>2, <2>3 DEF Shapes
<1>6. Whole' /\ Ids' /\ CodesInTable'
  BY <1>1, <1>2 DEF Whole, Ids, CodesInTable
<1>7. CodesInFiles'
  BY DEF IInv, CodesInFiles
<1>8. Saving' /\ SavedOK' /\ StillOnDisk' /\ Faults'
  BY <1>1 DEF Saving, SavedOK, StillOnDisk, Faults, AssertionsHold, NullOnlyWhere
<1>9. QED
  BY <1>3, <1>4, <1>5, <1>6, <1>7, <1>8 DEF IInv

\* A column that is loaded without its file has no blocks.
LEMMA MissingCodes ==
  ASSUME NEW id \in Nat
  PROVE  HasCodes(NewColumn(id, "kNaive", 0), Blank("kNaive"), junk)
<1> DEFINE c == NewColumn(id, "kNaive", 0)
<1>1. Len(c.blocks) = 0 /\ c.type = "kNaive"
  BY NewColumnOK DEF NewColumn
<1> HIDE DEF c
<1>2. ASSUME NEW t \in AllTids
      PROVE  Blank("kNaive")[t].code = CodeAt(c, t, junk)
  <2>1. ~(BlockOf(t) <= Len(c.blocks))
    BY <1>1, TidsAreNumbers, PlaceOfTuple
  <2>2. CodeAt(c, t, junk) = Unwritten("kNaive", junk)
    BY <1>1, <2>1 DEF CodeAt
  <2>3. QED
    BY <2>2, BlankCodes
<1>3. DOMAIN Blank("kNaive") = AllTids
  BY DEF Blank
<1>4. QED
  BY <1>2, <1>3 DEF HasCodes, c

\* What can be loaded.
CanLoad ==
  /\ IInv /\ table = NoTable /\ store = NoStore
  /\ disk.meta \notin {NoFile, Meta}

\* The table that Open loads.
LEMMA LoadedTable ==
  ASSUME CanLoad, NEW new, new = LoadTable(disk.meta, disk.files)
  PROVE  /\ TableOK(new, schema) /\ new.num = disk.meta.num
         /\ new.num \in 0..MaxTuples /\ new # NoTable
         /\ DOMAIN new.map = disk.meta.names /\ disk.meta.names \subseteq Names
         /\ \A n \in disk.meta.names :
              /\ Rank(disk.meta.names, n) \in Nat
              /\ n \in DOMAIN disk.files =>
                   new.map[n] = FileColumn(disk.files[n], Rank(disk.meta.names, n))
              /\ n \notin DOMAIN disk.files =>
                   new.map[n] = NewColumn(Rank(disk.meta.names, n), "kNaive", 0)
         /\ Dense(new)
<1> DEFINE meta == disk.meta
           files == disk.files
           names == meta.names
<1>1. MetaOK(meta) /\ \A n \in DOMAIN files : FileOK(files[n], schema[n])
  BY DEF CanLoad, IInv, Shapes
<1>2. DOMAIN schema = Names
  BY BitWeavingAssumption DEF CanLoad, IInv, Shapes
<1>3. new = LoadTable(meta, files) /\ names \subseteq Names
  BY <1>1 DEF MetaOK
<1> HIDE DEF meta, files
<1>4. /\ TableOK(new, schema)
      /\ new.num = meta.num /\ new.free_column_ids = <<>>
      /\ DOMAIN new.map = meta.names
      /\ \A n \in meta.names :
           new.map[n] = IF n \in DOMAIN files
                        THEN FileColumn(files[n], Rank(meta.names, n))
                        ELSE NewColumn(Rank(meta.names, n), "kNaive", 0)
  BY <1>1, <1>2, <1>3, LoadTableOK
<1>5. \A n \in names : Rank(names, n) \in Nat
  BY <1>3, RankIsNumber
<1>6. \A n \in names : new.map[n].id = Rank(names, n)
  <2> SUFFICES ASSUME NEW n \in names PROVE new.map[n].id = Rank(names, n)
    OBVIOUS
  <2>1. /\ FileColumn(files[n], Rank(names, n)).id = Rank(names, n)
        /\ NewColumn(Rank(names, n), "kNaive", 0).id = Rank(names, n)
    BY DEF FileColumn, NewColumn
  <2>2. \/ new.map[n] = FileColumn(files[n], Rank(names, n))
        \/ new.map[n] = NewColumn(Rank(names, n), "kNaive", 0)
    BY <1>4
  <2>3. QED
    BY <2>1, <2>2
<1> HIDE DEF names
<1>7. Dense(new)
  <2>1. DOMAIN new.map = names
    BY <1>4 DEF names
  <2>2. QED
    BY <1>3, <1>4, <1>6, <2>1, DenseLoad
<1>8. new # NoTable /\ new.num \in 0..MaxTuples
  BY <1>4, IsTable DEF TableOK
<1>9. \A n \in meta.names :
        /\ n \in DOMAIN files => new.map[n] = FileColumn(files[n], Rank(meta.names, n))
        /\ n \notin DOMAIN files =>
             new.map[n] = NewColumn(Rank(meta.names, n), "kNaive", 0)
  BY <1>4
<1>10. QED
  BY <1>3, <1>4, <1>5, <1>7, <1>8, <1>9 DEF names, meta, files

\* The codes of a file are those of the column that is loaded from it.
LEMMA LoadedFile ==
  ASSUME NEW f, NEW id \in Nat, NEW c, c = FileColumn(f, id)
  PROVE  /\ c.type = f.type /\ c.size = f.size
         /\ \A num : Fits(FileColumn(f, 0), num) => Fits(c, num)
         /\ \A codes : HasCodes(FileColumn(f, 0), codes, junk) => HasCodes(c, codes, junk)
<1> DEFINE b == FileColumn(f, 0)
<1>1. /\ c = [id |-> id, type |-> b.type, size |-> b.size, blocks |-> b.blocks]
      /\ c.type = f.type /\ c.size = f.size
  BY DEF FileColumn
<1> HIDE DEF b
<1>2. /\ \A num : Fits(b, num) => Fits(c, num)
      /\ \A t, junk0 : CodeAt(c, t, junk0) = CodeAt(b, t, junk0)
  BY <1>1, OtherId
<1>3. \A codes : HasCodes(b, codes, junk) => HasCodes(c, codes, junk)
  BY <1>2 DEF HasCodes
<1>4. QED
  BY <1>1, <1>2, <1>3 DEF b

\* It has the codes that are recorded for the files.
LEMMA LoadedCodes ==
  ASSUME CanLoad, NEW new, new = LoadTable(disk.meta, disk.files), NEW w,
         w = [n \in disk.meta.names |->
                IF n \in DOMAIN disk.files THEN stored[n] ELSE Blank("kNaive")]
  PROVE  CodesHold(new, w, junk)
<1>1. /\ DOMAIN new.map = disk.meta.names
      /\ \A n \in disk.meta.names :
           /\ Rank(disk.meta.names, n) \in Nat
           /\ n \in DOMAIN disk.files =>
                new.map[n] = FileColumn(disk.files[n], Rank(disk.meta.names, n))
           /\ n \notin DOMAIN disk.files =>
                new.map[n] = NewColumn(Rank(disk.meta.names, n), "kNaive", 0)
  BY LoadedTable
<1>2. DOMAIN w = disk.meta.names
  OBVIOUS
<1>3. ASSUME NEW n \in disk.meta.names
      PROVE  HasCodes(new.map[n], w[n], junk)
  <2> DEFINE id == Rank(disk.meta.names, n)
             f == disk.files[n]
             c == new.map[n]
  <2>1. CASE n \in DOMAIN disk.files
    <3>1. w[n] = stored[n] /\ c = FileColumn(f, id) /\ id \in Nat
      BY <1>1, <2>1
    <3>2. HasCodes(FileColumn(f, 0), stored[n], junk)
      BY <2>1 DEF CanLoad, IInv, CodesInFiles
    <3> HIDE DEF id, f, c
    <3>3. HasCodes(c, stored[n], junk)
      BY <3>1, <3>2, LoadedFile
    <3>4. QED
      BY <3>1, <3>3 DEF c
  <2>2. CASE n \notin DOMAIN disk.files
    <3>1. w[n] = Blank("kNaive") /\ c = NewColumn(id, "kNaive", 0) /\ id \in Nat
      BY <1>1, <2>2
    <3> HIDE DEF id, c
    <3>2. QED
      BY <3>1, MissingCodes DEF c
  <2>3. QED
    BY <2>1, <2>2
<1>4. QED
  BY <1>1, <1>2, <1>3 DEF CodesHold

\* Its columns have its size, unless a Save was interrupted.
LEMMA LoadedFits ==
  ASSUME CanLoad, ~torn, NEW new, new = LoadTable(disk.meta, disk.files)
  PROVE  AllFit(new)
<1>1. /\ DOMAIN new.map = disk.meta.names /\ new.num = disk.meta.num
      /\ \A n \in disk.meta.names :
           /\ Rank(disk.meta.names, n) \in Nat
           /\ n \in DOMAIN disk.files =>
                new.map[n] = FileColumn(disk.files[n], Rank(disk.meta.names, n))
  BY LoadedTable
<1>2. \A n \in disk.meta.names : SavedFile(n)
  BY DEF CanLoad, IInv, Phases, SavedOK
<1>3. ASSUME NEW n \in disk.meta.names
      PROVE  /\ Fits(new.map[n], new.num)
             /\ FormatOK(new.map[n].type, new.map[n].size)
  <2> DEFINE id == Rank(disk.meta.names, n)
             f == disk.files[n]
             c == new.map[n]
  <2>1. /\ c = FileColumn(f, id) /\ id \in Nat
        /\ Fits(FileColumn(f, 0), new.num) /\ FormatOK(f.type, f.size)
    BY <1>1, <1>2 DEF SavedFile
  <2> HIDE DEF id, f, c
  <2>2. Fits(c, new.num) /\ c.type = f.type /\ c.size = f.size
    BY <2>1, LoadedFile
  <2>3. FormatOK(c.type, c.size)
    BY <2>1, <2>2
  <2>4. QED
    BY <2>2, <2>3 DEF c
<1>4. QED
  BY <1>1, <1>3 DEF AllFit

\* Open of a directory with a table.
LEMMA OpenLoadKeeps ==
  ASSUME IInv, table = NoTable, store = NoStore,
         disk.meta \notin {NoFile, Meta},
         table' = LoadTable(disk.meta, disk.files),
         written' = [n \in disk.meta.names |->
                       IF n \in DOMAIN disk.files THEN stored[n] ELSE Blank("kNaive")],
         loaded' = TRUE,
         UNCHANGED <<disk, stored, saved, torn, saving, bv, fault, schema, junk,
                     chosen, probed, rewound, lost, store, changes, scans, stops>>
  PROVE  IInv'
<1> DEFINE new == table'
           w == written'
<1>1. saving = <<>> /\ fault = "none" /\ bv = NoVector
  BY DEF IInv, Phases
<1>2. CanLoad /\ new = LoadTable(disk.meta, disk.files)
      /\ w = [n \in disk.meta.names |->
                IF n \in DOMAIN disk.files THEN stored[n] ELSE Blank("kNaive")]
  BY DEF CanLoad
<1>3. /\ TableOK(new, schema) /\ new.num \in 0..MaxTuples /\ new # NoTable
      /\ Dense(new)
      /\ CodesHold(new, w, junk)
      /\ ~torn => AllFit(new)
  <2> HIDE DEF new, w
  <2>1. /\ TableOK(new, schema) /\ new.num \in 0..MaxTuples /\ new # NoTable
        /\ Dense(new)
    BY <1>2, LoadedTable
  <2>2. CodesHold(new, w, junk)
    BY <1>2, LoadedCodes
  <2>3. ~torn => AllFit(new)
    BY <1>2, LoadedFits
  <2>4. QED
    BY <2>1, <2>2, <2>3
<1>4. BwTypeOK'
  BY <1>1, <1>3 DEF BwTypeOK, IInv
<1>5. Phases'
  BY <1>1, <1>3 DEF Phases
<1>6. Shapes'
  <2>1. \A i \in 1..Len(<<>>) : FALSE
    OBVIOUS
  <2>2. /\ schema \in Schemas /\ junk \in Junks /\ saving \in Seq(Names \cup {Meta})
        /\ disk = [meta |-> disk.meta, files |-> disk.files]
        /\ disk.meta \notin {NoFile, Meta} => MetaOK(disk.meta)
        /\ \A n \in DOMAIN disk.files : FileOK(disk.files[n], schema[n])
    BY DEF IInv, Shapes
  <2>3. QED
    BY <1>1, <1>3, <2>1, <2>2 DEF Shapes
<1>7. Whole' /\ Ids' /\ CodesInTable'
  BY <1>1, <1>3 DEF Whole, Ids, CodesInTable
<1>8. CodesInFiles'
  BY DEF IInv, CodesInFiles
<1>9. SavedOK'
  BY DEF IInv, SavedOK, SavedFile
<1>10. Saving' /\ StillOnDisk' /\ Faults'
  BY <1>1 DEF Saving, StillOnDisk, Faults, AssertionsHold, NullOnlyWhere
<1>11. QED
  BY <1>4, <1>5, <1>6, <1>7, <1>8, <1>9, <1>10 DEF IInv

\* Open.
LEMMA OpenKeeps ==
  ASSUME IInv, NEW delete_exist_files, Open(delete_exist_files)
  PROVE  IInv'
<1>1. /\ table = NoTable /\ store = NoStore
      /\ UNCHANGED <<saving, bv, fault, schema, junk, chosen, probed, rewound, lost,
                     store, changes, scans, stops>>
  BY DEF Open
<1>2. CASE delete_exist_files \/ disk.meta = NoFile
  <2>1. /\ table' = NewTable /\ disk' = [meta |-> NoFile, files |-> <<>>]
        /\ written' = <<>> /\ stored' = <<>> /\ saved' = NoFile
        /\ torn' = FALSE /\ loaded' = FALSE
    BY <1>2 DEF Open
  <2>2. QED
    BY <1>1, <2>1, OpenNewKeeps
<1>3. CASE ~(delete_exist_files \/ disk.meta = NoFile) /\ disk.meta = Meta
  <2>1. /\ table' = NewTable /\ written' = <<>> /\ loaded' = FALSE
        /\ UNCHANGED <<disk, stored, saved, torn>>
    BY <1>3 DEF Open
  <2>2. QED
    BY <1>1, <1>3, <2>1, OpenEmptyKeeps
<1>4. CASE ~(delete_exist_files \/ disk.meta = NoFile) /\ disk.meta # Meta
  <2>1. /\ table' = LoadTable(disk.meta, disk.files)
        /\ written' = [n \in disk.meta.names |->
                         IF n \in DOMAIN disk.files THEN stored[n] ELSE Blank("kNaive")]
        /\ loaded' = TRUE
        /\ UNCHANGED <<disk, stored, saved, torn>>
    BY <1>4 DEF Open
  <2>2. disk.meta \notin {NoFile, Meta}
    BY <1>4
  <2>3. QED
    BY <1>1, <2>1, <2>2, OpenLoadKeeps
<1>5. QED
  BY <1>2, <1>3, <1>4

\* The index, in a program of its own.
LEMMA BuildKeeps ==
  ASSUME IInv, NEW s \in Stores, Build(s)
  PROVE  IInv'
<1> DEFINE result == BuildIndex(s.rows, s.dims, s.ctype, s.code_sizes, junk)
<1>1. /\ table = NoTable /\ store = NoStore /\ store' = s
      /\ table' = result.table /\ fault' = IF result.ok THEN "none" ELSE "assert"
      /\ UNCHANGED <<disk, saving, bv, schema, junk, written, stored, chosen, probed,
                     rewound, saved, torn, lost, loaded, changes, scans, stops>>
  BY DEF Build
<1>2. saving = <<>> /\ bv = NoVector /\ ~loaded
  BY <1>1 DEF IInv, Phases
<1>3. junk \in Nat
  BY BitWeavingAssumption DEF IInv, Shapes
<1> HIDE DEF result
<1>4. /\ result.table.num \in 0..MaxTuples /\ result.table # NoTable
      /\ ~result.ok => result.table.num % kNumCodesPerBlock = 0
  BY <1>3, BuildOK DEF result
<1>5. store' # NoStore
  BY <1>1, BitWeavingAssumption
<1>6. BwTypeOK'
  <2>1. fault' \in {"none", "assert"}
    BY <1>1
  <2>2. QED
    BY <1>1, <1>2, <1>4, <2>1 DEF BwTypeOK, IInv
<1>7. Phases'
  BY <1>1, <1>2, <1>4, <1>5 DEF Phases
<1>8. Shapes'
  <2>1. \A i \in 1..Len(<<>>) : FALSE
    OBVIOUS
  <2>2. /\ schema \in Schemas /\ junk \in Junks /\ saving \in Seq(Names \cup {Meta})
        /\ disk = [meta |-> disk.meta, files |-> disk.files]
        /\ disk.meta \notin {NoFile, Meta} => MetaOK(disk.meta)
        /\ \A n \in DOMAIN disk.files : FileOK(disk.files[n], schema[n])
    BY DEF IInv, Shapes
  <2>3. QED
    BY <1>1, <1>2, <1>5, <2>1, <2>2 DEF Shapes
<1>9. Whole' /\ Ids' /\ CodesInTable'
  BY <1>1, <1>2, <1>5 DEF Whole, Ids, CodesInTable
<1>10. CodesInFiles'
  BY <1>1 DEF IInv, CodesInFiles
<1>11. SavedOK'
  BY <1>1 DEF IInv, SavedOK, SavedFile
<1>12. Saving' /\ StillOnDisk'
  BY <1>1, <1>2 DEF Saving, StillOnDisk
<1>13. Faults'
  BY <1>1, <1>4 DEF Faults, AssertionsHold, NullOnlyWhere
<1>14. QED
  BY <1>6, <1>7, <1>8, <1>9, <1>10, <1>11, <1>12, <1>13 DEF IInv

-----------------------------------------------------------------------------
\* A change of the table, with what it does to the ids that are lost.
LEMMA ChangeHasFrame ==
  ASSUME IInv, NEW t, NEW w, NEW ok, Ready, Change(t, w, ok), lost' = {} => lost = {}
  PROVE  ChangeFrame
<1>1. changes \in Nat
  BY Numbers DEF IInv, BwTypeOK
<1>2. fault' \in {"none", "assert"}
  BY DEF Change
<1>3. QED
  BY <1>1, <1>2 DEF Change, ChangeFrame

\* A change of the table that loses no id.
LEMMA ChangeWithoutLoss ==
  ASSUME IInv, NEW t, NEW w, NEW ok, Ready, Change(t, w, ok), lost' = lost,
         TableStep(table, table', schema, TRUE, written, written', junk, fault')
  PROVE  IInv'
<1>1. ChangeFrame
  BY ChangeHasFrame
<1>2. TableStep(table, table', schema, lost' = {}, written, written', junk, fault')
  BY DEF TableStep
<1>3. QED
  BY <1>1, <1>2, ChangeKeeps

\* AddColumn, which may lose an id.
LEMMA AddNameKeeps ==
  ASSUME IInv, NEW n \in Names, AddName(n)
  PROVE  IInv'
<1>1. Given0 /\ Ready
  BY WhenReady DEF AddName
<1>2. \E t, w : Change(t, w, TRUE)
  BY DEF AddName
<1>3. lost' = {} => lost = {}
  BY DEF AddName
<1>4. ChangeFrame
  BY <1>1, <1>2, <1>3, ChangeHasFrame
<1>5. QED
  BY <1>1, <1>4, AddNameStep, ChangeKeeps

\* RemoveColumn.
LEMMA RemoveNameKeeps ==
  ASSUME IInv, NEW n \in Names, RemoveName(n)
  PROVE  IInv'
<1>1. Given0 /\ Ready /\ lost' = lost
  BY WhenReady DEF RemoveName
<1>2. \E t, w, ok : Change(t, w, ok)
  BY DEF RemoveName
<1>3. QED
  BY <1>1, <1>2, RemoveNameStep, ChangeWithoutLoss

\* Resize.
LEMMA ResizeKeeps ==
  ASSUME IInv, NEW num \in Sizes, Resize(num)
  PROVE  IInv'
<1>1. Given0 /\ Ready /\ lost' = lost
  BY WhenReady DEF Resize
<1>2. \E t, w, ok : Change(t, w, ok)
  BY DEF Resize
<1>3. QED
  BY <1>1, <1>2, ResizeStep, ChangeWithoutLoss

\* Bulkload.
LEMMA BulkloadKeeps ==
  ASSUME IInv, NEW n \in Names, NEW codes \in Batches, NEW pos \in Starts,
         BulkloadCodes(n, codes, pos)
  PROVE  IInv'
<1>1. Given0 /\ Ready /\ lost' = lost
  BY WhenReady DEF BulkloadCodes
<1>2. \E t, w, ok : Change(t, w, ok)
  BY DEF BulkloadCodes
<1>3. QED
  BY <1>1, <1>2, BulkloadStep, ChangeWithoutLoss

\* SetCode.
LEMMA SetOneKeeps ==
  ASSUME IInv, NEW n \in Names, NEW t \in Starts, NEW code \in Codes,
         SetOne(n, t, code)
  PROVE  IInv'
<1>1. Given0 /\ Ready /\ lost' = lost
  BY WhenReady DEF SetOne
<1>2. \E new, w, ok : Change(new, w, ok)
  BY DEF SetOne
<1>3. QED
  BY <1>1, <1>2, SetOneStep, ChangeWithoutLoss

\* What a scan, an inversion, a merge or a read of a bit finds.
LEMMA WhenScanned ==
  ASSUME IInv, NEW v, NEW c, NEW q, NEW f, Scanned(v, c, q, f)
  PROVE  Given0 /\ GivenVector
  BY WhenReady DEF Scanned

\* A scan with literals.
LEMMA ScanLiteralKeeps ==
  ASSUME IInv, NEW n \in Names, NEW p \in Predicates, NEW opt \in Opts,
         ScanLiteral(n, p, opt)
  PROVE  IInv'
<1>1. \E v, c, q, f : Scanned(v, c, q, f)
  BY DEF ScanLiteral
<1>2. Given0 /\ GivenVector
  BY <1>1, WhenScanned
<1>3. VectorStep(table, bv, bv', chosen', probed', fault')
  BY <1>2, ScanLiteralStep
<1>4. QED
  BY <1>1, <1>2, <1>3, ScannedKeeps

\* A scan of two columns.
LEMMA ScanColumnsKeeps ==
  ASSUME IInv, NEW n \in Names, NEW m \in Names, NEW cmp \in Comparators,
         NEW opt \in Opts, ScanColumns(n, m, cmp, opt)
  PROVE  IInv'
<1>1. \E v, c, q, f : Scanned(v, c, q, f)
  BY DEF ScanColumns
<1>2. Given0 /\ GivenVector
  BY <1>1, WhenScanned
<1>3. VectorStep(table, bv, bv', chosen', probed', fault')
  BY <1>2, ScanColumnsStep
<1>4. QED
  BY <1>1, <1>2, <1>3, ScannedKeeps

\* Complement.
LEMMA InvertKeeps ==
  ASSUME IInv, Invert
  PROVE  IInv'
<1>1. \E v, c, q, f : Scanned(v, c, q, f)
  BY DEF Invert
<1>2. Given0 /\ GivenVector
  BY <1>1, WhenScanned
<1>3. VectorStep(table, bv, bv', chosen', probed', fault')
  BY <1>2, InvertStep
<1>4. QED
  BY <1>1, <1>2, <1>3, ScannedKeeps

\* GetBit.
LEMMA ReadBitKeeps ==
  ASSUME IInv, NEW t \in Probes, NEW bit \in BOOLEAN, ReadBit(t, bit)
  PROVE  IInv'
<1>1. \E v, c, q, f : Scanned(v, c, q, f)
  BY DEF ReadBit
<1>2. Given0 /\ GivenVector
  BY <1>1, WhenScanned
<1>3. VectorStep(table, bv, bv', chosen', probed', fault')
  BY <1>2, ReadBitStep
<1>4. QED
  BY <1>1, <1>2, <1>3, ScannedKeeps

\* And and Or with another scan.
LEMMA MergeKeeps ==
  ASSUME IInv, NEW n \in Names, NEW p \in Predicates, NEW opt \in Opts,
         Merge(n, p, opt)
  PROVE  IInv'
<1>1. \E v, c, q, f : Scanned(v, c, q, f)
  BY DEF Merge
<1>2. Given0 /\ GivenVector
  BY <1>1, WhenScanned
<1>3. VectorStep(table, bv, bv', chosen', probed', fault')
  BY <1>2, MergeStep
<1>4. QED
  BY <1>1, <1>2, <1>3, ScannedKeeps

\* A step in which nothing happens.
LEMMA StutterKeeps ==
  ASSUME IInv, UNCHANGED vars
  PROVE  IInv'
<1>1. UNCHANGED <<table, disk, saving, bv, fault, schema, junk, written, stored,
                  chosen, probed, rewound, saved, torn, lost, loaded, store,
                  changes, scans, stops>>
  BY DEF vars, libraryVars, recordVars
<1>2. BwTypeOK' /\ Phases' /\ Shapes' /\ Whole' /\ Ids' /\ CodesInTable' /\ CodesInFiles'
  BY <1>1 DEF IInv, BwTypeOK, Phases, Shapes, Whole, Ids, CodesInTable, CodesInFiles
<1>3. Saving' /\ SavedOK' /\ StillOnDisk' /\ Faults'
  BY <1>1 DEF IInv, Saving, WrittenFile, SavedOK, SavedFile, StillOnDisk, Faults,
              AssertionsHold, NullOnlyWhere
<1>4. QED
  BY <1>2, <1>3 DEF IInv

\* Every step keeps the invariant.
LEMMA NextIInv == IInv /\ [Next]_vars => IInv'
<1> SUFFICES ASSUME IInv, [Next]_vars PROVE IInv'
  OBVIOUS
<1>1. ASSUME NEW b \in BOOLEAN, Open(b) PROVE IInv'
  BY <1>1, OpenKeeps
<1>2. ASSUME NEW n \in Names, AddName(n) \/ RemoveName(n) PROVE IInv'
  BY <1>2, AddNameKeeps, RemoveNameKeeps
<1>3. ASSUME NEW num \in Sizes, Resize(num) PROVE IInv'
  BY <1>3, ResizeKeeps
<1>4. ASSUME NEW n \in Names, NEW codes \in Batches, NEW pos \in Starts,
             BulkloadCodes(n, codes, pos)
      PROVE  IInv'
  BY <1>4, BulkloadKeeps
<1>5. ASSUME NEW n \in Names, NEW t \in Starts, NEW code \in Codes, SetOne(n, t, code)
      PROVE  IInv'
  BY <1>5, SetOneKeeps
<1>6. ASSUME NewVector PROVE IInv'
  BY <1>6, NewVectorKeeps
<1>7. ASSUME NEW n \in Names, NEW p \in Predicates, NEW opt \in Opts,
             ScanLiteral(n, p, opt)
      PROVE  IInv'
  BY <1>7, ScanLiteralKeeps
<1>8. ASSUME NEW n \in Names, NEW m \in Names, NEW cmp \in Comparators,
             NEW opt \in Opts, ScanColumns(n, m, cmp, opt)
      PROVE  IInv'
  BY <1>8, ScanColumnsKeeps
<1>9. ASSUME Invert PROVE IInv'
  BY <1>9, InvertKeeps
<1>10. ASSUME NEW t \in Probes, NEW bit \in BOOLEAN, ReadBit(t, bit) PROVE IInv'
  BY <1>10, ReadBitKeeps
<1>11. ASSUME NEW n \in Names, NEW p \in Predicates, NEW opt \in Opts,
              Merge(n, p, opt)
       PROVE  IInv'
  BY <1>11, MergeKeeps
<1>12. ASSUME NEW n \in Names, NEW code \in Codes, NEW again \in BOOLEAN,
              IteratorSets(n, code, again)
       PROVE  IInv'
  BY <1>12, IteratorKeeps
<1>13. ASSUME Save \/ SaveNext PROVE IInv'
  BY <1>13, SaveKeeps, SaveNextKeeps
<1>14. ASSUME Stop \/ StopInFile \/ \E cut \in Cuts : StopInColumn(cut) PROVE IInv'
  BY <1>14, StopKeeps, StopInFileKeeps, StopInColumnKeeps
<1>15. ASSUME NEW s \in Stores, Build(s) PROVE IInv'
  BY <1>15, BuildKeeps
<1>16. ASSUME UNCHANGED vars PROVE IInv'
  BY <1>16, StutterKeeps
<1>17. QED
  BY <1>1, <1>2, <1>3, <1>4, <1>5, <1>6, <1>7, <1>8, <1>9, <1>10, <1>11, <1>12,
     <1>13, <1>14, <1>15, <1>16 DEF Next

-----------------------------------------------------------------------------
(* The theorems. *)

\* The inductive invariant holds of every behaviour.
THEOREM Invariant == Spec => []IInv
  BY InitIInv, NextIInv, PTL DEF Spec

\* The values of the variables: the vector is as long as the table.
THEOREM TypeCorrect == Spec => []BwTypeOK
<1>1. IInv => BwTypeOK
  BY DEF IInv
<1>2. QED
  BY <1>1, Invariant, PTL

\* The assertions of Column, of the scans and of the iterator hold, except for
\* blocks that are exactly full and after an interrupted Save.
THEOREM AssertionsAlwaysHold == Spec => []AssertionsHold
<1>1. IInv => AssertionsHold
  BY DEF IInv, Faults
<1>2. QED
  BY <1>1, Invariant, PTL

\* An iterator dies only for a free or lost id, or when its walk begins again and
\* the last and the first tuple are in different blocks: no walk forward dies,
\* whatever blocks, segments and words it skips.
THEOREM IteratorDiesOnlyWhere == Spec => []NullOnlyWhere
<1>1. IInv => NullOnlyWhere
  BY DEF IInv, Faults
<1>2. QED
  BY <1>1, Invariant, PTL

\* A place in a block is its own place.
LEMMA PlaceOfPlace ==
  ASSUME NEW t \in Nat
  PROVE  PlaceOf(PlaceOf(t)) = PlaceOf(t)
<1> DEFINE C == kNumCodesPerBlock
<1>1. C \in Nat \ {0} /\ PlaceOf(t) \in 0..(C - 1)
  BY BitWordsAssumption, PlaceOfTuple
<1>2. \A p \in 0..(C - 1) : p % C = p
  BY <1>1
<1>3. QED
  BY <1>1, <1>2 DEF PlaceOf

\* Each readable tuple of each column has the code that was last written to it,
\* by whichever operation, also after resizes, through an iterator, and after
\* the table is saved and opened; unless SetCode or Bulkload have written to a
\* BitWeaving/H tuple that had a code, the code comes from the block in which a
\* column file was cut off, or codes were loaded over a gap that such a file has
\* left.
THEOREM ReadsWhatWasLastWritten == Spec => []ReadsWhatWasWritten
<1>1. ASSUME IInv PROVE ReadsWhatWasWritten
  <2> SUFFICES ASSUME Alive, NEW n \in DOMAIN table.map, NEW t \in Tids(table.num),
                      Readable(table.map[n], t), written[n][t].sure
               PROVE  ColumnGetCode(table.map[n], t) = written[n][t].code
    BY DEF ReadsWhatWasWritten
  <2> DEFINE c == table.map[n]
             codes == written[n]
  <2>1. TableOK(table, schema) /\ CodesHold(table, written, junk)
    BY <1>1 DEF Alive, IInv, Shapes, CodesInTable
  <2>2. HasCodes(c, codes, junk) /\ ColumnOK(c) /\ Readable(c, t)
    BY <2>1 DEF CodesHold, TableOK, MapOK
  <2>3. table.num \in 0..MaxTuples
    BY <2>1 DEF TableOK
  <2> HIDE DEF c, codes
  <2>4. t \in AllTids
    BY <2>3, Numbers DEF Tids, AllTids
  <2>5. BlockOf(t) <= Len(c.blocks)
    BY <2>2 DEF Readable, ColumnOK
  <2>6. codes[t].sure => codes[t].code = ColumnGetCode(c, t)
    BY <2>2, <2>4, <2>5 DEF HasCodes, CodeAt
  <2>7. QED
    BY <2>6 DEF c, codes
<1>2. QED
  BY <1>1, Invariant, PTL

\* The walk of an iterator on a vector that is scanned, inverted, merged and read
\* in any order visits each selected tuple once, in their order, and toTids finds
\* the same places of the same blocks, unless the table comes from an interrupted
\* Save.
THEOREM WalksVisitTheSelection == Spec => []WalkVisitsTheSelection
<1>1. ASSUME IInv PROVE WalkVisitsTheSelection
  <2> DEFINE walk == Walk(bv)
  <2> SUFFICES ASSUME Alive, bv # NoVector, ~torn
               PROVE  /\ Range(walk) = Selected(bv)
                      /\ \A i \in 1..(Len(walk) - 1) : walk[i] < walk[i + 1]
                      /\ PlacesOf(toTids(bv)) = PlacesOf(walk)
    BY DEF WalkVisitsTheSelection
  <2>1. TableOK(table, schema) /\ VectorOK(bv, table.num) /\ AllClean(bv)
    BY <1>1 DEF Alive, IInv, Shapes, Whole
  <2>2. table.num \in Nat
    BY <2>1, Numbers DEF TableOK
  <2> HIDE DEF walk
  <2>3. \A i \in 1..Len(bv.blocks) : NoBitsPast(bv.blocks[i])
    BY <2>1 DEF AllClean
  <2>4. /\ Range(walk) = Selected(bv)
        /\ \A i \in 1..(Len(walk) - 1) : walk[i] < walk[i + 1]
        /\ toTids(bv) = [i \in DOMAIN walk |-> PlaceOf(walk[i])]
    BY <2>1, <2>2, <2>3, WalkOfVector DEF walk
  <2>5. walk \in Seq(Nat)
    BY <2>1, <2>2, WalkLists DEF walk, Lists
  <2>6. \A i \in DOMAIN walk : PlaceOf(PlaceOf(walk[i])) = PlaceOf(walk[i])
    BY <2>5, PlaceOfPlace
  <2>7. PlacesOf(toTids(bv)) = PlacesOf(walk)
    BY <2>4, <2>6 DEF PlacesOf
  <2>8. QED
    BY <2>4, <2>7 DEF walk
<1>2. QED
  BY <1>1, Invariant, PTL

\* The ids of the columns and the free ids are the numbers below the maximum,
\* each once, so that an iterator can be made when no id is free, as long as no
\* refused AddColumn has lost one.
THEOREM IdsStayDense == Spec => []IdsAreDense
<1>1. ASSUME IInv PROVE IdsAreDense
  <2> DEFINE ids == {table.map[n].id : n \in DOMAIN table.map}
             free == {table.free_column_ids[i] : i \in DOMAIN table.free_column_ids}
             max == GetMaxColumnId(table)
  <2> SUFFICES ASSUME Alive, lost = {}
               PROVE  ids \cup free = 0..(max - 1) /\ (IteratorIsSafe(table) <=> free = {})
    BY DEF IdsAreDense
  <2>1. TableOK(table, schema) /\ Dense(table)
    BY <1>1 DEF Alive, IInv, Shapes, Ids
  <2>2. /\ max \in Nat
        /\ DOMAIN table.free_column_ids = 1..Len(table.free_column_ids)
        /\ \A n \in DOMAIN table.map : table.map[n].id \in Nat
        /\ \A i \in 1..Len(table.free_column_ids) : table.free_column_ids[i] \in Nat
    BY <2>1, MaxIdOf
  <2>3. /\ \A n \in DOMAIN table.map, i \in 1..Len(table.free_column_ids) :
             table.map[n].id # table.free_column_ids[i]
        /\ \A n \in DOMAIN table.map : table.map[n].id < max
        /\ \A i \in 1..Len(table.free_column_ids) : table.free_column_ids[i] < max
        /\ \A id \in 0..(max - 1) :
             \/ \E n \in DOMAIN table.map : table.map[n].id = id
             \/ \E i \in 1..Len(table.free_column_ids) : table.free_column_ids[i] = id
    BY <2>1 DEF Dense
  <2> HIDE DEF max
  <2>4. ids \cup free \subseteq 0..(max - 1)
    <3>1. \A n \in DOMAIN table.map : table.map[n].id \in 0..(max - 1)
      BY <2>2, <2>3
    <3>2. \A i \in 1..Len(table.free_column_ids) : table.free_column_ids[i] \in 0..(max - 1)
      BY <2>2, <2>3
    <3>3. QED
      BY <2>2, <3>1, <3>2
  <2>5. 0..(max - 1) \subseteq ids \cup free
    BY <2>2, <2>3
  <2>6. IteratorIsSafe(table) <=> \A id \in 0..(max - 1) : id \in ids
    BY DEF IteratorIsSafe, HasColumn, max
  <2>7. \A id \in free : id \notin ids /\ id \in 0..(max - 1)
    BY <2>2, <2>3, <2>4
  <2>8. QED
    BY <2>4, <2>5, <2>6, <2>7
<1>2. QED
  BY <1>1, Invariant, PTL

\* What Open has loaded is the table that the last Save was asked to write, its
\* size, its columns, their formats and their codes, unless the program has
\* stopped during that Save or an earlier one.
THEOREM OpenLoadsWhatWasSaved == Spec => []OpenLoadsTheLastSave
<1>1. ASSUME IInv PROVE OpenLoadsTheLastSave
  <2> DEFINE meta == disk.meta
             files == disk.files
             names == meta.names
  <2> SUFFICES ASSUME loaded, ~torn
               PROVE  /\ table.num = saved.num /\ DOMAIN table.map = DOMAIN saved.map
                      /\ \A n \in DOMAIN table.map :
                           /\ table.map[n].type = saved.map[n].type
                           /\ table.map[n].size = saved.map[n].size
                           /\ Len(table.map[n].blocks) = CEIL(table.num, kNumCodesPerBlock)
                           /\ \A t \in Tids(table.num) :
                                ColumnGetCode(table.map[n], t)
                                  = ColumnGetCode(saved.map[n], t)
    BY DEF OpenLoadsTheLastSave
  <2>1. /\ saving = <<>> /\ store = NoStore /\ table # NoTable
        /\ meta \notin {NoFile, Meta} /\ table = LoadTable(meta, files)
    BY <1>1 DEF IInv, Phases, StillOnDisk
  <2>2. /\ meta.num = saved.num /\ names = DOMAIN saved.map
        /\ \A n \in names : SavedFile(n)
    BY <1>1, <2>1 DEF IInv, SavedOK
  <2>3. /\ MetaOK(meta) /\ \A n \in DOMAIN files : FileOK(files[n], schema[n])
    BY <1>1, <2>1 DEF IInv, Shapes
  <2>4. DOMAIN schema = Names /\ names \subseteq Names
    BY <1>1, <2>3, BitWeavingAssumption DEF IInv, Shapes, MetaOK
  <2>5. /\ table.num = meta.num /\ DOMAIN table.map = names
        /\ \A n \in names :
             table.map[n] = IF n \in DOMAIN files
                            THEN FileColumn(files[n], Rank(names, n))
                            ELSE NewColumn(Rank(names, n), "kNaive", 0)
    <3> DEFINE new == table
    <3>1. new = LoadTable(meta, files)
      BY <2>1
    <3> HIDE DEF meta, files, new
    <3>2. /\ new.num = meta.num /\ DOMAIN new.map = meta.names
          /\ \A n \in meta.names :
               new.map[n] = IF n \in DOMAIN files
                            THEN FileColumn(files[n], Rank(meta.names, n))
                            ELSE NewColumn(Rank(meta.names, n), "kNaive", 0)
      BY <2>3, <2>4, <3>1, LoadTableOK
    <3>3. QED
      BY <3>2 DEF new
  <2>6. ASSUME NEW n \in names
        PROVE  /\ table.map[n].type = saved.map[n].type
               /\ table.map[n].size = saved.map[n].size
               /\ Len(table.map[n].blocks) = CEIL(table.num, kNumCodesPerBlock)
               /\ \A t \in Tids(table.num) :
                    ColumnGetCode(table.map[n], t) = ColumnGetCode(saved.map[n], t)
    <3> DEFINE c == table.map[n]
               s == saved.map[n]
               f == files[n]
               id == Rank(names, n)
    <3>1. n \in DOMAIN files /\ f = ColumnFile(s) /\ Fits(FileColumn(f, 0), meta.num)
      BY <2>2 DEF SavedFile
    <3>2. c = FileColumn(f, id) /\ id \in Nat
      BY <2>4, <2>5, <3>1, RankIsNumber
    <3> HIDE DEF c, s, f, id
    <3>3. c.type = s.type /\ c.size = s.size /\ c.blocks = s.blocks
      BY <3>1, <3>2 DEF FileColumn, ColumnFile
    <3>4. Fits(c, meta.num)
      BY <3>1, <3>2, LoadedFile
    <3>5. Len(c.blocks) = CEIL(meta.num, kNumCodesPerBlock)
      BY <3>4 DEF Fits
    <3>6. \A t : ColumnGetCode(c, t) = ColumnGetCode(s, t)
      BY <3>3 DEF ColumnGetCode
    <3>7. QED
      BY <2>5, <3>3, <3>5, <3>6 DEF c, s
  <2>7. QED
    BY <2>2, <2>5, <2>6
<1>2. QED
  BY <1>1, Invariant, PTL
=============================================================================
