----------------------------- MODULE BitWeaving -----------------------------
(***************************************************************************)
(* A program that works with a table of the BitWeaving library: it adds    *)
(* and removes columns, loads and sets codes, scans into a bit vector and  *)
(* writes through an iterator, saves the table file by file, may stop at   *)
(* any point and open the table again; or it builds BitWeaving, the index  *)
(* of this repository, on a store.  The variables below the line only      *)
(* record what was done, for the properties to compare with.               *)
(***************************************************************************)
EXTENDS BitWeavingIndex, TLC

CONSTANTS Names,       \* numbers that stand for the names, in their order
          Schemas,     \* the types and sizes a name may be given
          Junks,       \* what the memory of a naive block may hold
          Batches,     \* sequences of codes to load
          Starts,      \* where a batch is loaded
          Sizes,       \* what a table is resized to
          Codes,       \* codes that are set one by one
          Probes,      \* tuples whose bit GetBit is asked for
          Predicates,  \* conditions with literals
          Comparators, \* for the scans of two columns
          Stores,      \* what the index is built on: rows, ctype, code_sizes
          Queries,     \* queries of the index
          Cuts,        \* where a column file can end: whole blocks, kept words
          Meta,        \* meta.dat
          NoFile, NoVector, NoStore, NOT_FOUND,
          MaxTuples,   \* bound on the tuples of a table
          MaxChanges,  \* bound on the changes to a table
          MaxScanned,  \* bound on the changes to a table that is scanned
          MaxScans,    \* bound on the scans into a vector
          MaxStops     \* bound on the times the program stops

\* The codes are unsigned numbers; the program keeps to the bound MaxTuples.
ASSUME BitWeavingAssumption ==
  /\ IsFiniteSet(Names) /\ Names # {} /\ Names \subseteq Nat \ {0}
  /\ \A s \in Schemas : /\ DOMAIN s = Names
                         /\ \A n \in Names : FormatOK(s[n].type, s[n].size)
  /\ Junks \subseteq Nat /\ Codes \subseteq Nat /\ Starts \subseteq Nat
  /\ Probes \subseteq Nat
  /\ \A codes \in Batches : codes \in Seq(Nat)
  /\ {MaxTuples, MaxChanges, MaxScanned, MaxScans, MaxStops} \subseteq Nat
  /\ Sizes \subseteq 0..MaxTuples
  /\ Cuts \subseteq [whole : Nat, kept : Nat]
  /\ \A p \in Predicates : p.kind \in {"literal", "between"}
  /\ \A s \in Stores :
       /\ s.dims \in Nat \ {0}
       /\ \A d \in 0..(s.dims - 1) : FormatOK(s.ctype, s.code_sizes[d])
       /\ \E n \in 1..MaxTuples :
            s.rows \in [0..(n - 1) -> [0..(s.dims - 1) -> Nat]]
  /\ Meta \notin Names /\ NoStore \notin Stores

\* What there is when no table is open, which no record of a table is.
NoTable == <<>>

VARIABLES table,    \* the table, or NoTable
          disk,     \* its directory: the meta file, and column files by name
          saving,   \* the files a Save has still to write, meta.dat first
          bv,       \* a bit vector, or NoVector
          fault     \* "none", or how the program died: "assert" or "null"
VARIABLES schema, junk,  \* the choices of this behaviour
          written,  \* the code last written to each tuple, by column, and
                    \* whether it is sure that the tuple reads so
          stored,   \* the same for the column files
          chosen,   \* the tuples that the vector should select
          probed,   \* the tuples whose bit GetBit was asked for
          rewound,  \* the iterator has begun its walk again
          saved,    \* the table that the last Save was asked to write
          torn,     \* the program has stopped during a Save, since when the
                    \* directory has not been cleared
          lost,     \* ids that a refused AddColumn has lost
          loaded,   \* the table is as Open has loaded it
          store,    \* what the index was built on, or NoStore
          changes, scans, stops

libraryVars == <<table, disk, saving, bv, fault>>
recordVars == <<schema, junk, written, stored, chosen, probed, rewound, saved,
                torn, lost, loaded, store, changes, scans, stops>>
vars == <<libraryVars, recordVars>>

Tids(num) == 0..(num - 1)
AllTids == Tids(MaxTuples)
-----------------------------------------------------------------------------
(* What the codes and the selection should be. *)

\* What a tuple has in a block that nothing has been written to.
Blank(type) ==
  [t \in AllTids |-> [code |-> IF type = "kNaive" THEN junk ELSE 0,
                      sure |-> TRUE]]

\* SetCode and Bulkload write a code.  A BitWeaving/H column is only sure to
\* have it when the tuple had no code before.
Put(type, old, code) ==
  [code |-> code,
   sure |-> type # "kBitWeavingH" \/ (old.sure /\ old.code = 0)]

\* A resize keeps the codes of the blocks it keeps, those past the end too.
Resized(w, num) ==
  [n \in DOMAIN w |->
     [t \in AllTids |-> IF BlockOf(t) > CEIL(num, kNumCodesPerBlock)
                        THEN Blank(table.map[n].type)[t] ELSE w[n][t]]]

Overwritten(w, n, codes, pos) ==
  [w EXCEPT ![n] = [t \in AllTids |->
     IF t \in pos..(pos + Len(codes) - 1)
     THEN Put(table.map[n].type, @[t], codes[t - pos + 1]) ELSE @[t]]]

Unsure(w, n) ==
  [w EXCEPT ![n] = [t \in AllTids |-> [code |-> @[t].code, sure |-> FALSE]]]

\* Codes that are loaded over a gap go to the blocks after it.
Loaded(column, w, n, codes, pos) ==
  IF HasGap(column) THEN Unsure(w, n) ELSE Overwritten(w, n, codes, pos)

\* A block of a column refuses a scan of the BitWeaving formats when a literal
\* does not fit the codes or when its length is not that of the vector's.
Overflows(column, p) ==
  \/ p.literal >= Pow2[column.size]
  \/ p.kind = "between" /\ p.literal2 >= Pow2[column.size]
Refuses(column, p, b) ==
  /\ column.type # "kNaive"
  /\ b \in DOMAIN column.blocks
  /\ column.blocks[b].num # bv.blocks[b].num \/ Overflows(column, p)

\* The tuples of the blocks before the first one that refuses.
Reached(column, p) ==
  {t \in Tids(bv.num) : \A b \in 1..BlockOf(t) : ~Refuses(column, p, b)}

Meets(code, p) ==
  CASE p.kind = "literal" -> Compare(p.cmp, code, p.literal)
    [] p.kind = "between" -> p.literal <= code /\ code <= p.literal2

\* The selection after a scan that reaches some tuples and finds some of them.
\* Words of a naive column past its codes are cleared, whatever opt is.
Choose(opt, reached, found, cleared) ==
  (chosen \ reached) \cup (Combine(opt, chosen, found) \cap (reached \ cleared))

Cleared(column) ==
  {t \in Tids(bv.num) : /\ column.type = "kNaive"
                        /\ BlockOf(t) \in DOMAIN column.blocks
                        /\ WordAt(PlaceOf(t))
                             >= NumWords(column.blocks[BlockOf(t)].num)}

ChosenByScan(n, p, opt) ==
  LET column == table.map[n]
  IN  Choose(opt, Reached(column, p),
             {t \in Tids(bv.num) : /\ Readable(column, t)
                                   /\ Meets(ColumnGetCode(column, t), p)},
             Cleared(column))
-----------------------------------------------------------------------------
Init ==
  /\ table = NoTable
  /\ disk = [meta |-> NoFile, files |-> <<>>]
  /\ saving = <<>>
  /\ bv = NoVector
  /\ fault = "none"
  /\ schema \in Schemas
  /\ junk \in Junks
  /\ written = <<>> /\ stored = <<>> /\ chosen = {} /\ probed = {}
  /\ rewound = FALSE
  /\ saved = NoFile /\ torn = FALSE /\ lost = {} /\ loaded = FALSE
  /\ store = NoStore
  /\ changes = 0 /\ scans = 0 /\ stops = 0

\* The program runs, has the table open and is not in the middle of a Save.
Ready == table # NoTable /\ saving = <<>> /\ fault = "none" /\ store = NoStore

\* A change of the table: vectors made before are not used any more.
Change(newTable, newWritten, ok) ==
  /\ changes < MaxChanges
  /\ changes' = changes + 1
  /\ table' = newTable
  /\ written' = newWritten
  /\ fault' = IF ok THEN "none" ELSE "assert"
  /\ bv' = NoVector
  /\ chosen' = {} /\ probed' = {}
  /\ scans' = 0
  /\ loaded' = FALSE
  /\ UNCHANGED <<rewound, disk, saving, schema, junk, stored, saved, torn, store, stops>>

\* A column that was loaded without its file cannot make blocks: its code size
\* is 0, which CreateColumnBlock asserts it is not.
CanGrow(num) ==
  \A n \in DOMAIN table.map :
    table.map[n].size > 0
      \/ CEIL(num, kNumCodesPerBlock) <= Len(table.map[n].blocks)

AddName(n) ==
  /\ Ready
  /\ LET new == AddColumn(table, n, schema[n].type, schema[n].size, junk)
         refused == n \in DOMAIN table.map
     IN  /\ Change(new, IF refused THEN written
                        ELSE Insert(written, n, Blank(schema[n].type)), TRUE)
         /\ lost' = IF refused /\ table.free_column_ids # <<>>
                    THEN lost \cup {Head(table.free_column_ids)} ELSE lost

RemoveName(n) ==
  /\ Ready /\ n \in DOMAIN table.map
  /\ Change(RemoveColumn(table, n), Erase(written, n), TRUE)
  /\ UNCHANGED lost

Resize(num) ==
  /\ Ready /\ num # table.num
  /\ Change(IF CanGrow(num) THEN TableResize(table, num, junk) ELSE table,
            Resized(written, num), CanGrow(num))
  /\ UNCHANGED lost

BulkloadCodes(n, codes, pos) ==
  /\ Ready /\ n \in DOMAIN table.map
  /\ \A i \in DOMAIN codes : codes[i] < Pow2[schema[n].size]
  /\ LET end == pos + Len(codes)
         grows == end > table.num
         result == Bulkload(table, n, codes, pos, junk)
     IN  /\ end <= MaxTuples
         /\ IF grows /\ ~CanGrow(end)
            THEN Change(table, written, FALSE)
            ELSE Change(result.table,
                        Loaded(result.table.map[n],
                               IF grows THEN Resized(written, end) ELSE written,
                               n, codes, pos), result.ok)
  /\ UNCHANGED lost

SetOne(n, t, code) ==
  /\ Ready /\ n \in DOMAIN table.map
  /\ code < Pow2[schema[n].size]
  /\ BlockOf(t) \in DOMAIN table.map[n].blocks
  /\ Change([table EXCEPT !.map[n] = ColumnSetCode(@, t, code)],
            IF Readable(table.map[n], t)
            THEN Overwritten(written, n, <<code>>, t) ELSE written, TRUE)
  /\ UNCHANGED lost
-----------------------------------------------------------------------------
\* What happens to the vector changes nothing else.
Scanned(newBv, newChosen, newProbed, newFault) ==
  /\ bv # NoVector /\ Ready
  /\ scans < MaxScans
  /\ scans' = scans + 1
  /\ bv' = newBv
  /\ chosen' = newChosen
  /\ probed' = newProbed
  /\ fault' = newFault
  /\ UNCHANGED <<table, disk, saving, schema, junk, written, stored, rewound,
                 saved, torn, lost, loaded, store, changes, stops>>

NewVector ==
  /\ Ready /\ bv = NoVector /\ table.num > 0 /\ changes <= MaxScanned
  /\ bv' = NewBitVector(table.num)
  /\ chosen' = Tids(table.num) /\ probed' = {}
  /\ UNCHANGED <<table, disk, saving, fault, schema, junk, written, stored,
                 rewound, saved, torn, lost, loaded, store, changes, scans, stops>>

\* A naive block writes the words of all its codes: SetWordUnit asserts that
\* the block of the vector has them.
WordsExist(column) ==
  \A b \in DOMAIN column.blocks \cap DOMAIN bv.blocks :
    column.type = "kNaive"
      => NumWords(column.blocks[b].num) <= NumWords(bv.blocks[b].num)

ScanLiteral(n, p, opt) ==
  /\ bv # NoVector /\ n \in DOMAIN table.map
  /\ IF WordsExist(table.map[n])
     THEN Scanned(ColumnScan(table.map[n], p, opt, bv),
                  ChosenByScan(n, p, opt), probed, "none")
     ELSE Scanned(bv, chosen, probed, "assert")

\* Two columns of one table have the same blocks, unless one was loaded from
\* an interrupted Save: such a comparison reads codes that are not there.
ScanColumns(n, m, cmp, opt) ==
  /\ bv # NoVector
  /\ {n, m} \subseteq DOMAIN table.map
  /\ LET mine == table.map[n]
         other == table.map[m]
         refuses(b) == \/ mine.blocks[b].num # bv.blocks[b].num
                       \/ /\ mine.type # "kNaive"
                          /\ <<mine.type, mine.size>> # <<other.type, other.size>>
         reached == {t \in Tids(bv.num) : \A b \in 1..BlockOf(t) : ~refuses(b)}
     IN  /\ DOMAIN mine.blocks = DOMAIN bv.blocks
         /\ DOMAIN other.blocks = DOMAIN bv.blocks
         /\ \A b \in DOMAIN bv.blocks : mine.blocks[b].num = other.blocks[b].num
         /\ Scanned(ColumnScanColumn(mine, cmp, other, opt, bv),
              Choose(opt, reached,
                     {t \in reached : Compare(cmp, ColumnGetCode(mine, t),
                                              ColumnGetCode(other, t))},
                     {}),
              probed, "none")

Invert == Scanned(Complement(bv), Tids(bv.num) \ chosen, probed, "none")

\* GetBit, for which the caller's bit happens to be bit: it is not to change
\* the selection.
ReadBit(t, bit) ==
  /\ bv # NoVector /\ t < bv.num
  /\ Scanned(GetBit(bv, t, bit), chosen, probed \cup {t}, "none")

\* And and Or with the result of a scan into another vector.
Merge(n, p, opt) ==
  /\ bv # NoVector /\ n \in DOMAIN table.map
  /\ WordsExist(table.map[n]) /\ opt # "kSet"
  /\ LET other == ColumnScan(table.map[n], p, "kAnd", NewBitVector(table.num))
     IN  Scanned(VectorOp(opt, bv, other),
                 Combine(opt, chosen, Selected(other)), probed, "none")

\* An iterator on the vector, a loop that sets the code of every tuple, and
\* the same once more after Begin, which leaves the column iterator where the
\* first loop has left it.  The iterator asserts that it meets no bit past the
\* end of the vector.
IteratorSets(n, code, again) ==
  /\ Ready /\ bv # NoVector /\ changes < MaxChanges
  /\ n \in DOMAIN table.map /\ code < Pow2[schema[n].size]
  /\ LET selected == Selected(bv)
         walk == Walk(bv)
         past == \E i \in DOMAIN walk : walk[i] >= bv.num
         ids == IF again THEN walk \o walk ELSE walk
         result == IteratorSetCodes(table.map[n], NewSeek, ids, code)
     IN  /\ \A t \in selected : Readable(table.map[n], t)
         /\ IF IteratorIsSafe(table) /\ ~past
            THEN /\ fault' = IF result.ok THEN "none" ELSE "null"
                 /\ table' = [table EXCEPT !.map[n] = result.column]
                 /\ written' = [written EXCEPT ![n] =
                      [t \in AllTids |-> IF t \in selected
                                         THEN [code |-> code, sure |-> TRUE]
                                         ELSE @[t]]]
            ELSE /\ fault' = IF IteratorIsSafe(table) THEN "assert" ELSE "null"
                 /\ UNCHANGED <<table, written>>
  /\ rewound' = again
  /\ changes' = changes + 1
  /\ loaded' = FALSE
  /\ UNCHANGED <<disk, saving, bv, schema, junk, stored, chosen, probed, saved,
                 torn, lost, store, scans, stops>>
-----------------------------------------------------------------------------
\* Save is asked for: meta.dat is first, then the columns in their order.
Save ==
  /\ Ready /\ ~loaded /\ changes < MaxChanges
  /\ changes' = changes + 1
  /\ saving' = <<Meta>> \o Ascending(DOMAIN table.map, Max(Names) + 1)
  /\ saved' = table
  /\ bv' = NoVector /\ chosen' = {} /\ probed' = {} /\ scans' = 0
  /\ UNCHANGED <<table, disk, fault, schema, junk, written, stored, rewound,
                 torn, lost, loaded, store, stops>>

\* A step of Save writes one file.
SaveNext ==
  /\ saving # <<>> /\ table # NoTable
  /\ IF Head(saving) = Meta
     THEN /\ disk' = [disk EXCEPT !.meta = MetaFile(table)]
          /\ UNCHANGED stored
     ELSE /\ disk' = [disk EXCEPT !.files = Insert(@, Head(saving),
                                      ColumnFile(table.map[Head(saving)]))]
          /\ stored' = Insert(stored, Head(saving), written[Head(saving)])
  /\ saving' = Tail(saving)
  /\ UNCHANGED <<table, bv, fault, schema, junk, written, chosen, probed,
                 rewound, saved, torn, lost, loaded, store, changes, scans,
                 stops>>

\* The program ends, is killed or has died: the table is lost, the files stay.
Ended(newDisk, newStored) ==
  /\ table # NoTable /\ store = NoStore
  /\ stops < MaxStops
  /\ stops' = stops + 1
  /\ disk' = newDisk /\ stored' = newStored
  /\ torn' = (torn \/ saving # <<>>)
  /\ table' = NoTable /\ bv' = NoVector /\ saving' = <<>> /\ fault' = "none"
  /\ written' = <<>> /\ chosen' = {} /\ probed' = {} /\ rewound' = FALSE
  /\ scans' = 0 /\ lost' = {} /\ loaded' = FALSE
  /\ UNCHANGED <<schema, junk, saved, store, changes>>

Stop == Ended(disk, stored)

\* Opening a file for writing has emptied it, and what it is given goes to the
\* buffer of the stream first, which all of meta.dat fits.  An empty column
\* file is like none.
StopInFile ==
  /\ saving # <<>>
  /\ Ended(IF Head(saving) = Meta THEN [disk EXCEPT !.meta = Meta]
           ELSE [disk EXCEPT !.files = Erase(@, Head(saving))], stored)

\* The blocks of a column are larger than the buffer: what fills it is written
\* before the flush, and the file ends inside a block.
StopInColumn(cut) ==
  /\ saving # <<>> /\ Head(saving) # Meta
  /\ LET n == Head(saving)
         column == table.map[n]
         after(t) == BlockOf(t) - cut.whole
     IN  /\ cut.whole < Len(column.blocks)
         /\ Ended([disk EXCEPT !.files =
                      Insert(@, n, CutFile(ColumnFile(column), cut.whole,
                                           cut.kept, junk))],
                  Insert(stored, n, [t \in AllTids |->
                    CASE after(t) < 1 -> written[n][t]
                      [] after(t) = 1 -> [code |-> written[n][t].code, sure |-> FALSE]
                      [] after(t) > 1 -> Blank(column.type)[t]]))

\* Open: an empty directory is a new table; so is one with an empty meta file,
\* but Open returns an error.  delete_exist_files clears the directory first.
Open(delete_exist_files) ==
  /\ table = NoTable /\ store = NoStore
  /\ IF delete_exist_files \/ disk.meta = NoFile
     THEN /\ table' = NewTable
          /\ disk' = [meta |-> NoFile, files |-> <<>>]
          /\ written' = <<>> /\ stored' = <<>> /\ saved' = NoFile
          /\ torn' = FALSE /\ loaded' = FALSE
     ELSE IF disk.meta = Meta
     THEN /\ table' = NewTable /\ written' = <<>> /\ loaded' = FALSE
          /\ UNCHANGED <<disk, stored, saved, torn>>
     ELSE /\ table' = LoadTable(disk.meta, disk.files)
          /\ written' = [n \in disk.meta.names |->
               IF n \in DOMAIN disk.files THEN stored[n] ELSE Blank("kNaive")]
          /\ loaded' = TRUE
          /\ UNCHANGED <<disk, stored, saved, torn>>
  /\ UNCHANGED <<saving, bv, fault, schema, junk, chosen, probed, rewound, lost,
                 store, changes, scans, stops>>
-----------------------------------------------------------------------------
\* BitWeaving(s, ctype, sizes)->buildIndex(), in a program of its own.
Build(s) ==
  /\ table = NoTable /\ disk.meta = NoFile /\ store = NoStore /\ stops = 0
  /\ LET result == BuildIndex(s.rows, s.dims, s.ctype, s.code_sizes, junk)
     IN  table' = result.table /\ fault' = IF result.ok THEN "none" ELSE "assert"
  /\ store' = s
  /\ UNCHANGED <<disk, saving, bv, schema, junk, written, stored, chosen, probed,
                 rewound, saved, torn, lost, loaded, changes, scans, stops>>

Opts == {"kSet", "kAnd", "kOr"}

Next ==
  \/ \E b \in BOOLEAN : Open(b)
  \/ \E n \in Names : AddName(n) \/ RemoveName(n)
  \/ \E num \in Sizes : Resize(num)
  \/ \E n \in Names, codes \in Batches, pos \in Starts :
       BulkloadCodes(n, codes, pos)
  \/ \E n \in Names, t \in Starts, code \in Codes : SetOne(n, t, code)
  \/ NewVector
  \/ \E n \in Names, p \in Predicates, opt \in Opts : ScanLiteral(n, p, opt)
  \/ \E n, m \in Names, cmp \in Comparators, opt \in Opts :
       ScanColumns(n, m, cmp, opt)
  \/ Invert
  \/ \E t \in Probes, bit \in BOOLEAN : ReadBit(t, bit)
  \/ \E n \in Names, p \in Predicates, opt \in Opts : Merge(n, p, opt)
  \/ \E n \in Names, code \in Codes, again \in BOOLEAN :
       IteratorSets(n, code, again)
  \/ Save \/ SaveNext
  \/ Stop \/ StopInFile
  \/ \E cut \in Cuts : StopInColumn(cut)
  \/ \E s \in Stores : Build(s)

Spec == Init /\ [][Next]_vars
-----------------------------------------------------------------------------
Alive == table # NoTable /\ fault = "none" /\ store = NoStore

BwTypeOK ==
  /\ table = NoTable \/ (table.num \in 0..MaxTuples)
  /\ fault \in {"none", "assert", "null"}
  /\ bv = NoVector \/ (bv.num = table.num
                         /\ chosen \cup probed \subseteq Tids(bv.num))
  /\ changes \in 0..MaxChanges /\ scans \in 0..MaxScans /\ stops \in 0..MaxStops

\* Each readable tuple of each column has the code that was last written to it
\* in whichever way, also after resizes that drop and add blocks, through an
\* iterator, and after the table is saved and opened; unless SetCode or Bulkload
\* have written to a BitWeaving/H tuple that had a code, the code comes from the
\* block in which a column file was cut off, or codes were loaded over a gap that
\* such a file has left.
ReadsWhatWasWritten ==
  Alive => \A n \in DOMAIN table.map : \A t \in Tids(table.num) :
    Readable(table.map[n], t) /\ written[n][t].sure
      => ColumnGetCode(table.map[n], t) = written[n][t].code

\* Any sequence of scans, with literals or columns of any format, of inversions
\* and merges leaves exactly the selection that the conditions define on the
\* codes, but for the bits that GetBit was asked for, and no bit past the end
\* that CountOnes would count.
ScansSelectWhatTheyShould ==
  Alive /\ bv # NoVector
    => /\ Selected(bv) \ probed = chosen \ probed
       /\ ~torn => CountOnes(bv) = Cardinality(Selected(bv))

\* The walk of an iterator on the vector visits each selected tuple once, in
\* order, and toTids finds the same places of the same blocks; unless the table
\* comes from an interrupted Save, where a scan can leave bits past the end.
WalkVisitsTheSelection ==
  Alive /\ bv # NoVector /\ ~torn
    => LET walk == Walk(bv)
       IN  /\ Range(walk) = Selected(bv)
           /\ \A i \in 1..(Len(walk) - 1) : walk[i] < walk[i + 1]
           /\ PlacesOf(toTids(bv)) = PlacesOf(walk)

\* The ids of the columns and the free ids are the numbers below the maximum,
\* each once, unless a refused AddColumn has lost an id: an iterator can only
\* be made when no id is free.
IdsAreDense ==
  Alive /\ lost = {}
    => LET ids == {table.map[n].id : n \in DOMAIN table.map}
           free == {table.free_column_ids[i] :
                      i \in DOMAIN table.free_column_ids}
       IN  /\ ids \cup free = 0..(GetMaxColumnId(table) - 1)
           /\ IteratorIsSafe(table) <=> free = {}

\* What Open has loaded is the table that the last Save was asked to write, its
\* size, its columns, their formats and their codes, unless the program has
\* stopped during that Save or an earlier one.
OpenLoadsTheLastSave ==
  loaded /\ ~torn =>
    /\ table.num = saved.num
    /\ DOMAIN table.map = DOMAIN saved.map
    /\ \A n \in DOMAIN table.map :
         /\ table.map[n].type = saved.map[n].type
         /\ table.map[n].size = saved.map[n].size
         /\ Len(table.map[n].blocks) = CEIL(table.num, kNumCodesPerBlock)
         /\ \A t \in Tids(table.num) :
              ColumnGetCode(table.map[n], t) = ColumnGetCode(saved.map[n], t)

\* The assertions of Column, of the scans and of the iterator hold unless a
\* table of exactly full blocks is loaded (its last block then has length 0) or
\* one is used that comes from an interrupted Save.
AssertionsHold ==
  fault = "assert" => \/ torn
                      \/ table.num % kNumCodesPerBlock = 0

\* An iterator dies only for a free or lost id, or when its walk begins again
\* and the last and the first tuple are in different blocks: no walk forward
\* dies, whatever blocks, segments and words it skips.
NullOnlyWhere ==
  fault = "null" => \/ ~IteratorIsSafe(table)
                    \/ /\ rewound
                       /\ \E t, u \in Selected(bv) : BlockOf(t) # BlockOf(u)

\* The index answers a point with the first row that is equal to it, whatever
\* its columns refuse.  For other queries a BitWeaving column ignores a bound
\* that does not fit its codes, with the whole condition it belongs to, and the
\* TIDs are compared by their places in their blocks.
Considered(q, d) ==
  /\ q.columns[d]
  /\ \/ store.ctype = "kNaive"
     \/ q.lower[d] < Pow2[store.code_sizes[d]] /\ q.upper[d] < Pow2[store.code_sizes[d]]
Accepted(q) ==
  SelectSeq([i \in 1..Cardinality(DOMAIN store.rows) |-> i - 1],
            LAMBDA t : \A d \in 0..(store.dims - 1) : Considered(q, d) =>
              q.lower[d] <= store.rows[t][d] /\ store.rows[t][d] <= q.upper[d])
Equals(point) ==
  {t \in DOMAIN store.rows : store.rows[t] = point}
IndexAnswersAsAScan ==
  store # NoStore /\ fault = "none" => \A q \in Queries :
    CASE q.op = "exact" ->
           IndexExactMatch(table, store.rows, q.lower, NOT_FOUND)
             = IF Equals(q.lower) = {} THEN NOT_FOUND ELSE Min(Equals(q.lower))
      [] q.op = "window" ->
           PlacesOf(IndexWindowQuery(table, q.lower, q.upper))
             = PlacesOf(Accepted(q))
      [] q.op = "partial" ->
           PlacesOf(IndexPartialMatch(table, q.lower, q.upper, q.columns))
             = PlacesOf(Accepted(q))
=============================================================================
