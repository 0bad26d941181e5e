---------------------------- MODULE ChunkedStore ----------------------------
(***************************************************************************)
(* The store of a day's trades of one symbol (utils/chunkedSlide.go): an   *)
(* append-only list kept in chunks of a fixed length.  Its methods hold a  *)
(* read-write lock from beginning to end, so each is an operator on the    *)
(* store's value; who calls them when is the subject of Symbols.           *)
(***************************************************************************)
EXTENDS Integers, Sequences, SequencesExt

CONSTANT chunkSize   \* 128 for the ledgers

ASSUME ChunkAssumption == chunkSize \in Nat \ {0}

NewChunkedStore == [chunks |-> <<>>, totalSize |-> 0]

Stores(Items) == [chunks : Seq(Seq(Items)), totalSize : Nat]

Shorter(a, b) == IF a < b THEN a ELSE b

-----------------------------------------------------------------------------
\* Mutant: the item is put in front of the last chunk.
PutInFront(cs, item) ==
    LET last == Len(cs.chunks)
        full == last = 0 \/ Len(cs.chunks[last]) >= chunkSize
    IN [chunks |-> IF full THEN Append(cs.chunks, <<item>>)
                   ELSE [cs.chunks EXCEPT ![last] = <<item>> \o @],
        totalSize |-> cs.totalSize + 1]

\* The method Append.
Appended(cs, item) ==
    LET last == Len(cs.chunks)
        full == last = 0 \/ Len(cs.chunks[last]) >= chunkSize
    IN [chunks |-> IF full THEN Append(cs.chunks, <<item>>)
                   ELSE [cs.chunks EXCEPT ![last] = Append(@, item)],
        totalSize |-> cs.totalSize + 1]

Size(cs) == cs.totalSize

\* Mutant: the first item of the last chunk.
FirstOfLast(cs) == cs.chunks[Len(cs.chunks)][1]

\* Of a store that is not empty, as its callers make sure.
GetMostRecent(cs) ==
    LET lastChunk == cs.chunks[Len(cs.chunks)]
    IN lastChunk[Len(lastChunk)]

getAllData(cs) == FlattenSeq(cs.chunks)

\* Newest first, unless everything is asked for: then oldest first.
GetLatest(cs, count) ==
    LET loop[i \in 0 .. Len(cs.chunks)] == [remaining \in 0 .. count |->
            IF i = 0 \/ remaining = 0 THEN <<>>
            ELSE LET chunk == cs.chunks[i]
                     taken == Shorter(remaining, Len(chunk))
                 IN Reverse(SubSeq(chunk, Len(chunk) - taken + 1, Len(chunk)))
                       \o loop[i - 1][remaining - taken]]
    IN IF count >= cs.totalSize THEN getAllData(cs)
       ELSE loop[Len(cs.chunks)][count]

\* Mutant: the end belongs to the range.
RangeWithEnd(cs, start, end) ==
    IF start < 0 \/ start >= cs.totalSize \/ end <= start THEN <<>>
    ELSE SubSeq(getAllData(cs), start + 1, Shorter(end + 1, cs.totalSize))

\* Positions count from 0, end does not belong to the range; the loop leaves
\* when it is past the end.
GetRange(cs, start, end) ==
    LET to == Shorter(end, cs.totalSize)
        loop[i \in 1 .. Len(cs.chunks) + 1] == [currentPos \in Nat |->
            IF i > Len(cs.chunks) \/ currentPos >= to THEN <<>>
            ELSE LET chunk == cs.chunks[i]
                     from == IF start > currentPos THEN start - currentPos ELSE 0
                     past == Shorter(Len(chunk), to - currentPos)
                 IN SubSeq(chunk, from + 1, past)
                       \o loop[i + 1][currentPos + Len(chunk)]]
    IN IF start < 0 \/ start >= cs.totalSize \/ end <= start THEN <<>>
       ELSE loop[1][0]

-----------------------------------------------------------------------------
\* What a store holds, read without the methods: all chunks but the last are
\* full, so the chunk and the place in it follow from the position.
Contents(cs) ==
    [i \in 1 .. cs.totalSize |->
        cs.chunks[((i - 1) \div chunkSize) + 1][((i - 1) % chunkSize) + 1]]

=============================================================================
