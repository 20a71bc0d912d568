--------------------------- MODULE DomainPartition ---------------------------
(***************************************************************************)
(* One DomainPartition (src/src/core/model/table/column_domain.{h,cpp})    *)
(* at the level of characters: its std::set of non-empty strings, TrySwap  *)
(* writing them to a swap file one per line, and the reader GetReader      *)
(* hands out: a MemoryBackedReader over the set, or a FileBackedReader     *)
(* that reads the file back with std::getline.  The reader is driven as    *)
(* ColumnDomainIterator drives it: GetValue, then TryMove until it fails.  *)
(*                                                                         *)
(* Strings are sequences of character codes; NL is the code of '\n'.       *)
(***************************************************************************)
EXTENDS Integers, FiniteSets, Sequences, SequencesExt

CONSTANTS
    Chars,     \* the character codes values are made of
    NL,        \* the code of '\n'
    MaxLen,    \* longest value
    MaxValues  \* most values in the partition

ASSUME Chars \subseteq Nat /\ NL \in Nat /\ MaxLen \in Nat \ {0}

\* The values Insert keeps: non-empty strings.
Str == UNION {[1 .. n -> Chars] : n \in 1 .. MaxLen}

\* std::string::compare < : lexicographic by character, a prefix first.
RECURSIVE StrLess(_, _)
StrLess(s, u) ==
    IF s = <<>> THEN u # <<>>
    ELSE IF u = <<>> THEN FALSE
    ELSE IF Head(s) # Head(u) THEN Head(s) < Head(u)
    ELSE StrLess(Tail(s), Tail(u))

\* The std::set's iteration order.
Sorted(S) == SetToSortSeq(S, StrLess)

VARIABLES
    values,   \* values_
    swapped,  \* swap_file_ is set
    file,     \* the swap file's characters
    reader,   \* "none", "memory" or "file"
    cur,      \* MemoryBackedReader: index of cur_ in the set's order
    fpos,     \* FileBackedReader: next character of file_ to read
    eof,      \* FileBackedReader: file_.eof()
    line,     \* FileBackedReader: cur_
    out,      \* the values the reader yielded, in order
    orig,     \* history: the values the partition held before any swap
    pc

vars == <<values, swapped, file, reader, cur, fpos, eof, line, out, orig, pc>>

-----------------------------------------------------------------------------

\* Mutant: every value followed by '\n', the last one included.
TrySwapTrailingNewline ==
    /\ pc = "filled"
    /\ values # {} /\ ~swapped
    /\ file' = FoldLeft(LAMBDA acc, v : acc \o v \o <<NL>>, <<>>, Sorted(values))
    /\ values' = {}
    /\ swapped' = TRUE
    /\ UNCHANGED <<reader, cur, fpos, eof, line, out, orig, pc>>

\* DomainPartition::TrySwap: write the values in order, '\n' between two
\* of them, then clear them; an empty or swapped partition is left alone.
TrySwap ==
    /\ pc = "filled"
    /\ values # {} /\ ~swapped
    /\ file' = FoldLeft(LAMBDA acc, v : IF acc = <<>> THEN v ELSE acc \o <<NL>> \o v,
                         <<>>, Sorted(values))
    /\ values' = {}
    /\ swapped' = TRUE
    /\ UNCHANGED <<reader, cur, fpos, eof, line, out, orig, pc>>

\* std::getline(file_, cur_) from position p: the characters up to the next
\* '\n' (consumed, not stored), or up to the end, which sets eof; at the
\* end already it extracts nothing, leaves cur_ empty and sets eof.
NextNL(p) == {i \in p .. Len(file) : file[i] = NL}
Getline(p) ==
    IF NextNL(p) # {}
    THEN LET k == Min(NextNL(p))
         IN  [line |-> SubSeq(file, p, k - 1), pos |-> k + 1, eof |-> FALSE]
    ELSE [line |-> SubSeq(file, p, Len(file)), pos |-> Len(file) + 1, eof |-> TRUE]

\* DomainPartition::GetReader: a FileBackedReader, whose constructor reads
\* the first line, when swapped; a MemoryBackedReader at begin() otherwise.
GetReader ==
    /\ pc = "filled"
    /\ IF swapped
       THEN LET g == Getline(1)
            IN  /\ reader' = "file"
                /\ line' = g.line /\ fpos' = g.pos /\ eof' = g.eof
                /\ UNCHANGED cur
       ELSE /\ reader' = "memory"
            /\ cur' = 1
            /\ UNCHANGED <<fpos, eof, line>>
    /\ pc' = "reading"
    /\ UNCHANGED <<values, swapped, file, out, orig>>

\* Mutant: TryMove moving without asking HasNext.
ReadMemoryNoCheck ==
    /\ pc = "reading" /\ reader = "memory"
    /\ out' = Append(out, Sorted(values)[cur])
    /\ cur' = cur + 1
    /\ UNCHANGED <<values, swapped, file, reader, fpos, eof, line, orig, pc>>

\* MemoryBackedReader: GetValue, then TryMove (HasNext: std::next(cur_)
\* is not end_).
ReadMemory ==
    /\ pc = "reading" /\ reader = "memory"
    /\ out' = Append(out, Sorted(values)[cur])
    /\ IF cur < Cardinality(values)
       THEN cur' = cur + 1 /\ UNCHANGED pc
       ELSE pc' = "done" /\ UNCHANGED cur
    /\ UNCHANGED <<values, swapped, file, reader, fpos, eof, line, orig>>

\* FileBackedReader: GetValue, then TryMove (HasNext: !file_.eof();
\* MoveToNext: getline).
ReadFile ==
    /\ pc = "reading" /\ reader = "file"
    /\ out' = Append(out, line)
    /\ IF ~eof
       THEN LET g == Getline(fpos)
            IN  line' = g.line /\ fpos' = g.pos /\ eof' = g.eof /\ UNCHANGED pc
       ELSE pc' = "done" /\ UNCHANGED <<line, fpos, eof>>
    /\ UNCHANGED <<values, swapped, file, reader, cur, orig>>

\* A partition filled by Insert with at least one value (a reader over an
\* empty one fails its assertion; Attribute never gets one).
Init ==
    /\ values \in {S \in SUBSET Str : S # {} /\ Cardinality(S) <= MaxValues}
    /\ swapped = FALSE
    /\ file = <<>>
    /\ reader = "none"
    /\ cur = 0 /\ fpos = 1 /\ eof = FALSE /\ line = <<>>
    /\ out = <<>>
    /\ orig = values
    /\ pc = "filled"

Next == TrySwap \/ GetReader \/ ReadMemory \/ ReadFile

Spec == Init /\ [][Next]_vars /\ WF_vars(Next)

-----------------------------------------------------------------------------

TypeOK ==
    /\ values \subseteq Str /\ swapped \in BOOLEAN
    /\ file \in Seq(Chars \cup {NL})
    /\ reader \in {"none", "memory", "file"}
    /\ reader = "memory" => cur \in 1 .. Cardinality(values)
    /\ fpos \in 1 .. (Len(file) + 1) /\ eof \in BOOLEAN
    /\ out \in Seq(Seq(Chars \cup {NL}))
    /\ pc \in {"filled", "reading", "done"}

\* Spec 8.6, swap round trip: whichever reader GetReader hands out, the
\* values it yields are the partition's values in the set's order, each
\* once, as they were before TrySwap wrote them to the file.
ReadBack == pc = "done" => out = Sorted(orig)

=============================================================================
