---------------------------- MODULE DomainManager ----------------------------
(***************************************************************************)
(* The memory-governed builder of column domains (class DomainManager in   *)
(* src/src/core/model/table/column_domain.cpp, with DomainPartition,       *)
(* ColumnDomain and BlockDatasetStream).                                   *)
(*                                                                         *)
(* Tables are read one after the other.  Rows come from an external        *)
(* dataset stream: each read yields a well-formed row (malformed ones are  *)
(* skipped inside TryStoreNextRow and leave no trace) or ends the stream.  *)
(* Rows are packed into blocks of at most BlockCapacity characters; a      *)
(* non-empty value is one character.  Between batches the governor         *)
(* refreshes mem_usage_, estimates how many blocks fit, and while none     *)
(* fits swaps first a finalized domain, then the current table's tail      *)
(* partitions.  Memory is measured in abstract units: an in-memory         *)
(* partition costs ValueCost per value, a swapped one nothing.  Unsigned   *)
(* size_t arithmetic is taken modulo 2^WordBits.                           *)
(***************************************************************************)
EXTENDS Integers, FiniteSets, Sequences, SequencesExt

CONSTANTS
    TableCount,       \* number of input streams
    ColCount,         \* columns per table
    Values,           \* the non-empty cell values (Empty is 0)
    MaxRows,          \* bound on the rows one stream yields
    MemLimit,         \* mem_limit_ in units
    BlockCapacity,    \* block_capacity_ in characters
    MaxBytesPerChar,  \* DomainPartition::kMaximumBytesPerChar
    ValueCost,        \* units one in-memory value costs (GetMemoryUsage)
    WordBits          \* width of size_t

ASSUME Values \subseteq Nat \ {0}
ASSUME \A k \in {TableCount, ColCount, MaxRows, MemLimit, BlockCapacity,
                 MaxBytesPerChar, ValueCost, WordBits} : k \in Nat \ {0}

Empty == 0
Word == 2 ^ WordBits
Tables == 1 .. TableCount
Cols == 0 .. (ColCount - 1)
Row == [Cols -> Values \cup {Empty}]
NoRow == [c \in Cols |-> -1]   \* cur_row_ cleared

\* A DomainPartition: in-memory values, or the swap file it was written
\* to, and its partition_id (with the table and column, its file's name).
Part == [vals : SUBSET Values, swapped : BOOLEAN, file : Seq(Values), id : Nat]
NewPart(id) == [vals |-> {}, swapped |-> FALSE, file |-> <<>>, id |-> id]

VARIABLES
    t,         \* table being read (TableCount + 1 once all are read)
    rows,      \* rows the current stream has yielded
    pending,   \* BlockDatasetStream::cur_row_
    block,     \* BlockData: block[c] is the ColumnData of column c
    blockSize, \* characters in the block being built
    raw,       \* raw_domains_: per column, its list of partitions
    domains,   \* domains_: [table, col, parts, mem] (mem: ColumnDomain::mem_usage_)
    memUsage,  \* mem_usage_
    processed, \* processed_block_count_
    count,     \* block_count in CreateDomain
    left,      \* block_count in ProcessNext (its own copy)
    cand,      \* swap_candidate_ (1-based: next domain to swap)
    seen,      \* history: seen[tb][c] is every value the input gave column c
    pc

vars == <<t, rows, pending, block, blockSize, raw, domains, memUsage,
          processed, count, left, cand, seen, pc>>

-----------------------------------------------------------------------------
(* DomainPartition and ColumnDomain                                        *)

\* DomainPartition::GetMemoryUsage.
PartMem(p) == IF p.swapped THEN 0 ELSE Cardinality(p.vals) * ValueCost

\* DomainPartition::TrySwap: write the sorted values, one per line, and
\* release them; an empty or already swapped partition is left alone.
CanSwap(p) == p.vals # {} /\ ~p.swapped
Swapped(p) ==
    IF CanSwap(p)
    THEN [p EXCEPT !.vals = {}, !.swapped = TRUE, !.file = SetToSortSeq(p.vals, <)]
    ELSE p

\* What a reader of the partition yields: the file's lines, or the values.
Content(p) == IF p.swapped THEN Range(p.file) ELSE p.vals

\* DomainPartition::IsEmpty.
IsEmpty(p) == p.vals = {} /\ ~p.swapped

\* ColumnDomain::RefreshMemoryUsage over a list of partitions.
ListMem(ps) == FoldSeq(LAMBDA p, acc : PartMem(p) + acc, 0, ps)

\* The ColumnDomain constructor: the partitions and their usage.
NewDomain(tb, c, ps) == [table |-> tb, col |-> c, parts |-> ps, mem |-> ListMem(ps)]

\* ColumnDomain::Swap: TrySwap every partition, then refresh the usage.
DomainSwap(d) == NewDomain(d.table, d.col, [i \in DOMAIN d.parts |-> Swapped(d.parts[i])])

-----------------------------------------------------------------------------
(* Memory governor                                                         *)

\* RefreshMemUsage: only the last partition of a raw domain is counted.
Refreshed(rw, ds) ==
    FoldSet(LAMBDA c, acc : PartMem(Last(rw[c])) + acc, 0, Cols)
    + FoldSeq(LAMBDA d, acc : d.mem + acc, 0, ds)

\* GetApproximateBlockCount, with size_t wrap-around; -1 is the SIGFPE of
\* a division by a zero per-block usage.
ApproxBlockCount(mem, done) ==
    IF done = 0
    THEN LET approx == MaxBytesPerChar * BlockCapacity
         IN  IF MemLimit \div approx > 1 THEN MemLimit \div approx ELSE 1
    ELSE LET perBlock == mem \div done
         IN  IF perBlock = 0 THEN -1
             ELSE ((MemLimit - mem) % Word) \div perBlock

\* After the estimate: ingest, swap, or crash.
AfterEstimate(n) ==
    /\ count' = n
    /\ pc' = CASE n > 0 -> "ingest" [] n = 0 -> "swap" [] OTHER -> "fpe"
    /\ left' = IF n > 0 THEN n ELSE left

\* The loop of CreateDomain: processed += block_count; then
\* GetNumberOfBlocks refreshes the usage and estimates.
GetNumberOfBlocks ==
    /\ pc = "count"
    /\ LET done == (processed + count) % Word
           mem == Refreshed(raw, domains)
       IN  /\ processed' = done
           /\ memUsage' = mem
           /\ AfterEstimate(ApproxBlockCount(mem, done))
    /\ UNCHANGED <<t, rows, pending, block, blockSize, raw, domains,
                   cand, seen>>

\* Mutant: SwapNext spilling a domain without subtracting its usage.
SwapNextDomainKeepUsage ==
    /\ pc = "swap"
    /\ cand <= Len(domains)
    /\ domains' = [domains EXCEPT ![cand] = DomainSwap(@)]
    /\ AfterEstimate(ApproxBlockCount(memUsage, processed))
    /\ cand' = cand + 1
    /\ UNCHANGED <<t, rows, pending, block, blockSize, raw, memUsage,
                   processed, seen>>

\* SwapNext, first branch: spill the next finalized domain.
SwapNextDomain ==
    /\ pc = "swap"
    /\ cand <= Len(domains)
    /\ domains' = [domains EXCEPT ![cand] = DomainSwap(@)]
    /\ LET mem == (memUsage - domains[cand].mem) % Word
       IN  /\ memUsage' = mem
           /\ AfterEstimate(ApproxBlockCount(mem, processed))
    /\ cand' = cand + 1
    /\ UNCHANGED <<t, rows, pending, block, blockSize, raw, processed, seen>>

\* Mutant: spilling the tails without opening a new partition behind them.
SwapNextTailNoNewPart ==
    /\ pc = "swap"
    /\ cand = Len(domains) + 1
    /\ LET rw == [c \in Cols |-> [raw[c] EXCEPT ![Len(raw[c])] = Swapped(@)]]
           mem == Refreshed(rw, domains)
       IN  /\ raw' = rw
           /\ memUsage' = mem
           /\ AfterEstimate(ApproxBlockCount(mem, 0))
    /\ processed' = 0
    /\ UNCHANGED <<t, rows, pending, block, blockSize, domains, cand, seen>>

\* Mutant: the new tail takes the swapped tail's partition_id, not id + 1.
SwapNextTailSameId ==
    /\ pc = "swap"
    /\ cand = Len(domains) + 1
    /\ LET rw == [c \in Cols |->
                    IF CanSwap(Last(raw[c]))
                    THEN Append([raw[c] EXCEPT ![Len(raw[c])] = Swapped(@)],
                                NewPart(Last(raw[c]).id))
                    ELSE raw[c]]
           mem == Refreshed(rw, domains)
       IN  /\ raw' = rw
           /\ memUsage' = mem
           /\ AfterEstimate(ApproxBlockCount(mem, 0))
    /\ processed' = 0
    /\ UNCHANGED <<t, rows, pending, block, blockSize, domains, cand, seen>>

\* Mutant: the tail branch without resetting processed_block_count_.
SwapNextTailKeepCount ==
    /\ pc = "swap"
    /\ cand = Len(domains) + 1
    /\ LET rw == [c \in Cols |->
                    IF CanSwap(Last(raw[c]))
                    THEN Append([raw[c] EXCEPT ![Len(raw[c])] = Swapped(@)],
                                NewPart(Last(raw[c]).id + 1))
                    ELSE raw[c]]
           mem == Refreshed(rw, domains)
       IN  /\ raw' = rw
           /\ memUsage' = mem
           /\ AfterEstimate(ApproxBlockCount(mem, processed))
    /\ UNCHANGED <<t, rows, pending, block, blockSize, domains, processed,
                   cand, seen>>

\* SwapNext, second branch: spill every tail partition of the current table
\* and open a new tail behind each one spilled; then restart the estimate.
SwapNextTail ==
    /\ pc = "swap"
    /\ cand = Len(domains) + 1
    /\ LET rw == [c \in Cols |->
                    IF CanSwap(Last(raw[c]))
                    THEN Append([raw[c] EXCEPT ![Len(raw[c])] = Swapped(@)],
                                NewPart(Last(raw[c]).id + 1))
                    ELSE raw[c]]
           mem == Refreshed(rw, domains)
       IN  /\ raw' = rw
           /\ memUsage' = mem
           /\ AfterEstimate(ApproxBlockCount(mem, 0))
    /\ processed' = 0
    /\ UNCHANGED <<t, rows, pending, block, blockSize, domains, cand, seen>>

-----------------------------------------------------------------------------
(* BlockData: per column, the cells' characters back to back and the      *)
(* offset where each cell starts                                           *)

ColumnData == [buf : Seq(Values), offs : Seq(Nat)]
NewBlock == [c \in Cols |-> [buf |-> <<>>, offs |-> <<>>]]

\* The std::string of a cell: no character, or its one character.
Cell(v) == IF v = Empty THEN <<>> ELSE <<v>>

\* ColumnData::Insert: record where the cell starts, then copy it.
ColumnInsert(cd, v) == [buf |-> cd.buf \o Cell(v), offs |-> Append(cd.offs, Len(cd.buf))]

\* BlockData::InsertRow: every cell of the row into its column.
InsertRow(b, r) == [c \in Cols |-> ColumnInsert(b[c], r[c])]

\* Mutant: the last view ends where it starts (buffer_.size() forgotten).
ViewEndLastEmpty(cd, i) == IF i < Len(cd.offs) THEN cd.offs[i + 1] ELSE cd.offs[i]

\* ColumnIterator::ConstructView for the i-th offset: up to the next
\* offset, or to the end of the buffer for the last one.
ViewEnd(cd, i) == IF i < Len(cd.offs) THEN cd.offs[i + 1] ELSE Len(cd.buf)
View(cd, i) == SubSeq(cd.buf, cd.offs[i] + 1, ViewEnd(cd, i))

\* ProcessNext's store_column: walk the column with TryMoveToNext from
\* the first offset and Insert every view; Insert drops the empty ones.
StoredValues(cd) == {View(cd, i)[1] : i \in {j \in DOMAIN cd.offs : View(cd, j) # <<>>}}

-----------------------------------------------------------------------------
(* BlockDatasetStream and ProcessNext                                      *)

RowSize(r) == Cardinality({c \in Cols : r[c] # Empty})

\* TryStoreNextRow: the next well-formed row, or the end of the stream.
NextRow(r) ==
    \/ rows < MaxRows /\ r \in Row /\ rows' = rows + 1
    \/ r = NoRow /\ UNCHANGED rows

\* Mutant: ProcessNext's loop without its block_count != 0 test.
AddRowIgnoreCount ==
    /\ \/ pc = "ingest"
       \/ pc = "block" /\ blockSize + RowSize(pending) <= BlockCapacity
    /\ pending # NoRow
    /\ block' = InsertRow(block, pending)
    /\ blockSize' = blockSize + RowSize(pending)
    /\ seen' = [seen EXCEPT ![t] = [c \in Cols |->
                    IF pending[c] = Empty THEN @[c] ELSE @[c] \cup {pending[c]}]]
    /\ \E r \in Row \cup {NoRow} : NextRow(r) /\ pending' = r
    /\ pc' = "block"
    /\ UNCHANGED <<t, raw, domains, memUsage, processed, count, left, cand>>

\* One turn of GetNextBlock's loop: take cur_row_ into the block (always
\* when the block is empty) and read the next row.
AddRow ==
    /\ \/ pc = "ingest" /\ left # 0
       \/ pc = "block" /\ blockSize + RowSize(pending) <= BlockCapacity
    /\ pending # NoRow
    /\ block' = InsertRow(block, pending)
    /\ blockSize' = blockSize + RowSize(pending)
    /\ seen' = [seen EXCEPT ![t] = [c \in Cols |->
                    IF pending[c] = Empty THEN @[c] ELSE @[c] \cup {pending[c]}]]
    /\ \E r \in Row \cup {NoRow} : NextRow(r) /\ pending' = r
    /\ pc' = "block"
    /\ UNCHANGED <<t, raw, domains, memUsage, processed, count, left, cand>>

\* The block is closed (the next row does not fit, or the stream ended)
\* and every column's values are inserted into its tail partition.
StoreBlock ==
    /\ pc = "block"
    /\ pending = NoRow \/ blockSize + RowSize(pending) > BlockCapacity
    /\ raw' = [c \in Cols |-> [raw[c] EXCEPT ![Len(raw[c])].vals = @ \cup StoredValues(block[c])]]
    /\ block' = NewBlock
    /\ blockSize' = 0
    /\ left' = left - 1
    /\ pc' = "ingest"
    /\ UNCHANGED <<t, rows, pending, domains, memUsage, processed, count, cand, seen>>

\* ProcessNext returns: account again while rows remain, else finish.
EndBatch ==
    /\ pc = "ingest"
    /\ left = 0 \/ pending = NoRow
    /\ pc' = IF pending # NoRow THEN "count" ELSE "finish"
    /\ UNCHANGED <<t, rows, pending, block, blockSize, raw, domains,
                   memUsage, processed, count, left, cand, seen>>

-----------------------------------------------------------------------------
(* CreateDomain                                                            *)

\* RawDomainsInit and the BlockDatasetStream constructor's first read.
StartTable ==
    /\ pc = "start"
    /\ raw' = [c \in Cols |-> <<NewPart(0)>>]
    /\ processed' = 0
    /\ count' = 0
    /\ rows = 0 /\ \E r \in Row \cup {NoRow} : NextRow(r) /\ pending' = r
    /\ pc' = "count"
    /\ UNCHANGED <<t, block, blockSize, domains, memUsage, left, cand, seen>>

\* Move every column whose first partition is not empty into domains_.
FinishTable ==
    /\ pc = "finish"
    /\ LET kept == SelectSeq([c \in 1 .. ColCount |-> c - 1],
                             LAMBDA c : ~IsEmpty(raw[c][1]))
       IN  domains' = domains \o
                [i \in 1 .. Len(kept) |-> NewDomain(t, kept[i], raw[kept[i]])]
    /\ raw' = [c \in Cols |-> <<>>]
    /\ t' = t + 1
    /\ pc' = IF t < TableCount THEN "start" ELSE "done"
    /\ rows' = 0
    /\ UNCHANGED <<pending, block, blockSize, memUsage, processed,
                   count, left, cand, seen>>

Init ==
    /\ t = 1
    /\ rows = 0
    /\ pending = NoRow
    /\ block = NewBlock
    /\ blockSize = 0
    /\ raw = [c \in Cols |-> <<>>]
    /\ domains = <<>>
    /\ memUsage = 0
    /\ processed = 0
    /\ count = 0
    /\ left = 0
    /\ cand = 1
    /\ seen = [tb \in Tables |-> [c \in Cols |-> {}]]
    /\ pc = "start"

Next ==
    \/ StartTable \/ GetNumberOfBlocks \/ SwapNextDomain \/ SwapNextTail
    \/ AddRow \/ StoreBlock \/ EndBatch \/ FinishTable

\* Domain creation is one thread's loop, which keeps running until done.
Spec == Init /\ [][Next]_vars /\ WF_vars(Next)

-----------------------------------------------------------------------------
(* Properties                                                              *)

\* The memory actually held: every in-memory partition of the current table
\* and of the finalized domains, whatever the caches say.
ListMemOf(ps) == FoldSeq(LAMBDA p, acc : PartMem(p) + acc, 0, ps)
HeldMem ==
    FoldSet(LAMBDA c, acc : ListMemOf(raw[c]) + acc, 0, Cols)
    + FoldSeq(LAMBDA d, acc : ListMemOf(d.parts) + acc, 0, domains)

\* The values a list of partitions gives its readers.
ListContent(ps) == UNION {Content(ps[i]) : i \in DOMAIN ps}

\* The columns of the finished tables that hold a non-empty value, in
\* (table, column) order: the attributes Spider will number 0, 1, ...
ExpectedColumns ==
    SetToSortSeq({<<tb, c>> \in Tables \X Cols : tb < t /\ seen[tb][c] # {}},
                 LAMBDA x, y : x[1] < y[1] \/ (x[1] = y[1] /\ x[2] < y[2]))

TypeOK ==
    /\ t \in 1 .. (TableCount + 1)
    /\ rows \in 0 .. MaxRows
    /\ pending \in Row \cup {NoRow}
    /\ block \in [Cols -> ColumnData]
    /\ raw \in [Cols -> Seq(Part)]
    /\ \A i \in DOMAIN domains : domains[i].parts \in Seq(Part) \ {<<>>}
    /\ {memUsage, processed, count, left} \subseteq 0 .. (Word - 1)
    /\ cand \in 1 .. (Len(domains) + 1)
    /\ pc \in {"start", "count", "swap", "ingest", "block", "finish", "done", "fpe"}

\* Between blocks, nothing the input gave is lost by swapping or moving:
\* the current table's partitions (memory or swap file) hold exactly the
\* values read for each column, and the finalized domains are exactly the
\* non-empty columns of the finished tables, in order, each holding the
\* values read for it.
DomainsHoldInput ==
    pc \notin {"block", "finish"} =>
        /\ \A c \in Cols : t <= TableCount /\ raw[c] # <<>> =>
                ListContent(raw[c]) = seen[t][c]
        /\ [i \in DOMAIN domains |-> <<domains[i].table, domains[i].col>>]
               = ExpectedColumns
        /\ \A i \in DOMAIN domains :
               ListContent(domains[i].parts) = seen[domains[i].table][domains[i].col]

\* Every block-count estimate (GetApproximateBlockCount in GetNumberOfBlocks
\* and after each SwapNext) is taken on a mem_usage_ equal to the memory
\* actually held, although RefreshMemUsage reads only tail partitions and
\* cached domain usages and SwapNext subtracts a stale cached usage.
EstimateOnHeldMem ==
    [][pc' \in {"ingest", "swap", "fpe"} /\ pc \in {"count", "swap"}
         => memUsage' = HeldMem']_vars

\* Where a partition lives: slot <<0, c, i>> is the i-th partition of the
\* current table's column c, <<k, 0, i>> the i-th of finalized domain k.
Slots ==
    UNION {{<<0, c, i>> : i \in DOMAIN raw[c]} : c \in Cols}
    \cup UNION {{<<k, 0, i>> : i \in DOMAIN domains[k].parts} : k \in DOMAIN domains}
PartAt(s) == IF s[1] = 0 THEN raw[s[2]][s[3]] ELSE domains[s[1]].parts[s[3]]

\* TrySwap's file name tmp/<table>.<column>.<partition_id>, as a triple.
PathAt(s) ==
    IF s[1] = 0 THEN <<t, s[2], PartAt(s).id>>
    ELSE <<domains[s[1]].table, domains[s[1]].col, PartAt(s).id>>

\* TrySwap opens its file by name and a partition's destructor removes it,
\* so no two live swapped partitions of the DomainManager may share a file
\* name: across tables, columns, tail swaps and moves into domains_ the
\* (table, column, partition_id) of every swapped partition is unique.
UniqueSwapPaths ==
    \A s1, s2 \in {s \in Slots : PartAt(s).swapped} :
        PathAt(s1) = PathAt(s2) => s1 = s2

\* Domain creation ends: the swap loop and every table's ingest finish.
Terminates == <>(pc = "done")

\* Spec: the memory held never exceeds mem_limit by more than what one
\* block can add (every character of it a new in-memory value).
MemoryDiscipline == HeldMem <= MemLimit + BlockCapacity * ValueCost

\* Spec (GetApproximateBlockCount): once blocks have been processed, the
\* governor grants (mem_limit - mem_usage) / per-block usage more blocks,
\* none when the usage is already above the limit.
NoBatchOverLimit ==
    [][(pc \in {"count", "swap"} /\ pc' = "ingest" /\ processed' > 0)
         => memUsage' <= MemLimit]_vars

\* Every partition of a finalized ColumnDomain has a value for its reader
\* (MemoryBackedReader asserts cur_ != end_ when it is opened).
NoEmptyPartition ==
    \A i \in DOMAIN domains : \A j \in DOMAIN domains[i].parts :
        ~IsEmpty(domains[i].parts[j])

\* Spec: GetApproximateBlockCount always has a per-block usage to divide by
\* (mem_usage_ / processed_block_count_ is never 0 when it is used), so
\* domain creation never dies of an integer division by zero.
NoDivisionByZero == pc # "fpe"

=============================================================================
