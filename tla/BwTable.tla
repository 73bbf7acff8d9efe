------------------------------ MODULE BwTable ------------------------------
(***************************************************************************)
(* Table (bitweaving-lib/src/table.cpp): columns by name, each with an id  *)
(* that iterators index by, and the queue of the ids that removed columns  *)
(* have left.  Names are numbers, so that they have the order of the map.  *)
(***************************************************************************)
EXTENDS BwColumn

NewTable == [num |-> 0, map |-> <<>>, free_column_ids |-> <<>>]

\* A map as a function whose domain grows and shrinks.
Insert(map, name, value) ==
  [n \in DOMAIN map \cup {name} |-> IF n = name THEN value ELSE map[n]]
Erase(map, name) == [n \in DOMAIN map \ {name} |-> map[n]]

TableResize(table, num, junk) ==
  IF table.num = num THEN table
  ELSE [table EXCEPT !.num = num,
          !.map = [n \in DOMAIN @ |-> ColumnResize(@[n], num, junk)]]

\* The id is taken from the queue before the name is looked up: when the name
\* is in use, the id that was at the head of the queue is lost.
AddColumn(table, name, type, size, junk) ==
  LET free == table.free_column_ids
      id == IF free = <<>> THEN Cardinality(DOMAIN table.map) ELSE Head(free)
      taken == [table EXCEPT !.free_column_ids =
                  IF free = <<>> THEN <<>> ELSE Tail(free)]
  IN  IF name \in DOMAIN table.map THEN taken
      ELSE [taken EXCEPT !.map = Insert(@, name,
              ColumnResize(NewColumn(id, type, size), table.num, junk))]

\* Variant: the id is not given back.
RemoveColumnOnly(table, name) ==
  IF name \notin DOMAIN table.map THEN table
  ELSE [table EXCEPT !.map = Erase(@, name)]

RemoveColumn(table, name) ==
  IF name \notin DOMAIN table.map THEN table
  ELSE [table EXCEPT !.map = Erase(@, name),
          !.free_column_ids = Append(@, table.map[name].id)]

GetMaxColumnId(table) ==
  Cardinality(DOMAIN table.map) + Len(table.free_column_ids)

\* GetColumn(id) is NULL when no column has the id.
HasColumn(table, id) == \E n \in DOMAIN table.map : table.map[n].id = id

\* Column::Bulkload grows the table first.  ok is that the assertions hold:
\* the column has the blocks of the table, and the codes have room in them.
Bulkload(table, name, codes, pos, junk) ==
  LET end == pos + Len(codes)
      grown == IF end > table.num THEN TableResize(table, end, junk) ELSE table
      loaded == ColumnBulkload(grown.map[name], codes, pos)
  IN  [ok |-> /\ CEIL(table.num, kNumCodesPerBlock)
                   = Len(table.map[name].blocks)
              /\ loaded.ok,
       table |-> [grown EXCEPT !.map[name] = loaded.column]]
-----------------------------------------------------------------------------
\* The files of a table: what a column file holds is all of the column but its
\* id, and the meta file holds the number of tuples and the names.
ColumnFile(column) ==
  [type |-> column.type, size |-> column.size, blocks |-> column.blocks]
\* Variant: the number of columns in place of that of the tuples.
MetaFileColumns(table) ==
  [num |-> Cardinality(DOMAIN table.map), names |-> DOMAIN table.map]

MetaFile(table) == [num |-> table.num, names |-> DOMAIN table.map]

\* A block of which only the first words have been read: the others are as
\* those of a new block.  The groups of a BitWeaving/V block have one length.
FirstWords(block, fresh, kept) ==
  [block EXCEPT !.data =
     IF block.type = "kBitWeavingV"
     THEN [group \in DOMAIN @ |->
             [w \in DOMAIN @[group] |->
                IF group * VSegments * kNumBitsPerGroup + w < kept
                THEN @[group][w] ELSE fresh.data[group][w]]]
     ELSE [w \in DOMAIN @ |-> IF w < kept THEN @[w] ELSE fresh.data[w]]]

\* What Load makes of a column file that ends inside a block: whole blocks are
\* as they were saved, of the next one its length and the kept words, and the
\* rest of the blocks, whose number the file begins with, are new and empty.
CutFile(file, whole, kept, junk) ==
  LET fresh == CreateColumnBlock(file.type, file.size, junk)
  IN  [file EXCEPT !.blocks =
         [i \in DOMAIN @ |->
            CASE i <= whole     -> @[i]
              [] i = whole + 1 -> FirstWords(@[i], fresh, kept)
              [] i > whole + 1 -> fresh]]

\* Load of a new table: the ids are the places of the names in the meta file.
\* The status of a column's Load is ignored; without a file that can be read
\* the column stays as Column(table, id) made it.
LoadTable(meta, files) ==
  [num |-> meta.num,
   free_column_ids |-> <<>>,
   map |-> [n \in meta.names |->
     LET id == Cardinality({m \in meta.names : m < n})
     IN  IF n \in DOMAIN files
         THEN [id |-> id, type |-> files[n].type, size |-> files[n].size,
               blocks |-> files[n].blocks]
         ELSE NewColumn(id, "kNaive", 0)]]
=============================================================================
