------------------------ MODULE NTriplesWriterProofs ------------------------
(***************************************************************************)
(* What the N-triples writer has written is in order and whole, and its    *)
(* pools suffice, for any frames, threads and chunk sizes.                 *)
(***************************************************************************)
EXTENDS NTriplesWriterProperties, FiniteSetTheorems, SequenceTheorems, TLAPS

----------------------------------------------------------------------------
\* The inductive invariant

Rounds == {"waiting", "filling", "done"}
Row    == Nat \X Nat

ArgumentTypes == heights \in Seq(Nat) /\ n_threads \in Nat \ {0} /\ chunk_size \in Nat \ {0}

LoopTypes ==
    /\ df \in 1 .. Len(heights) + 1
    /\ n_rows_finished \in Nat
    /\ drained \in 0 .. n_threads
    /\ workers \in [Threads -> Rounds]

BufferTypes ==
    /\ buffers \in [Threads -> Seq(Row)]
    /\ write_buffer_pool \in Seq({<<>>})
    /\ free_iters \in Int

OutTypes == out \in Seq(Row) /\ cut \subseteq Row /\ short \in BOOLEAN

Types == ArgumentTypes /\ LoopTypes /\ BufferTypes /\ OutTypes

InState(s) == {t \in Threads : workers[t] = s}

\* Buffers are written when all threads are done, and rounds are taken only
\* within a frame.
RoundsAreWhole ==
    /\ drained > 0 => InState("done") = Threads
    /\ ~InRows => InState("waiting") = Threads /\ drained = 0

\* What is not at rest is in use.
PoolsCount ==
    /\ Len(write_buffer_pool) = Cardinality(InState("waiting")) + drained
    /\ free_iters = n_threads - Cardinality(InState("filling"))

\* A thread that is done holds its chunk until that is written.
BuffersHoldChunks ==
    \A t \in Threads :
        buffers[t] = IF workers[t] = "done" /\ drained <= t THEN ChunkOf(t) ELSE <<>>

\* How far into the frame the threads' chunks have been written, and the rows
\* that were to be written until there.
Position  == n_rows_finished + drained * chunk_size
Passed(x) == x[1] < df \/ (x[1] = df /\ x[2] < Position)

WholeChunks == \E q \in Nat : Position = q * chunk_size

LinesSoFar ==
    /\ \A i \in DOMAIN out : out[i] \in AllRows /\ Passed(out[i])
    /\ \A i, j \in DOMAIN out : i < j => Before(out[i], out[j])

RowsSoFar ==
    \A x \in AllRows : Passed(x) /\ x \notin ToSet(out) =>
        /\ short
        /\ \A y \in ToSet(out) : SameChunk(x, y) => Before(y, x)

\* A write that stops within a line takes no more of its chunk, so what is
\* glued to the line begins another chunk.
CutsSoFar ==
    /\ cut # {} => short
    /\ \A c \in cut : /\ c \in ToSet(out)
                     /\ \A y \in ToSet(out) \ {c} : SameChunk(c, y) => Before(y, c)
    /\ \A i \in DOMAIN out :
          i > 1 /\ out[i - 1] \in cut =>
              out[i][2] % chunk_size = 0 /\ ~SameChunk(out[i - 1], out[i])

IInv == /\ Types /\ RoundsAreWhole /\ PoolsCount /\ BuffersHoldChunks
        /\ WholeChunks /\ LinesSoFar /\ RowsSoFar /\ CutsSoFar

----------------------------------------------------------------------------
\* Types

LEMMA ChunkType ==
    ASSUME ArgumentTypes, LoopTypes, df \in DOMAIN heights, NEW t \in Threads
    PROVE  /\ ChunkOf(t) \in Seq(Row)
           /\ \A i \in 1 .. Len(ChunkOf(t)) :
                 ChunkOf(t)[i] = <<df, n_rows_finished + t * chunk_size + i - 1>>
           /\ Len(ChunkOf(t)) <= chunk_size
           /\ n_rows_finished + t * chunk_size < Height =>
                 \/ Len(ChunkOf(t)) = chunk_size
                 \/ n_rows_finished + t * chunk_size + Len(ChunkOf(t)) = Height
           /\ n_rows_finished + t * chunk_size + Len(ChunkOf(t)) <= Height
                 \/ ChunkOf(t) = <<>>
<1> DEFINE total_offset == n_rows_finished + t * chunk_size
           length == IF total_offset >= Height THEN 0
                     ELSE IF Height - total_offset < chunk_size THEN Height - total_offset
                     ELSE chunk_size
<1>1. Height \in Nat /\ chunk_size \in Nat /\ t \in Nat /\ df \in Nat
    BY DEF ArgumentTypes, LoopTypes, Height, Threads
<1>2. t * chunk_size \in Nat
    BY <1>1
<1>3. total_offset \in Nat
    BY <1>2 DEF LoopTypes
<1> HIDE DEF total_offset
<1>4. length \in Nat
    BY <1>1, <1>3
<1>5. ChunkOf(t) = [i \in 1 .. length |-> <<df, total_offset + i - 1>>]
    BY DEF ChunkOf, total_offset
<1> HIDE DEF length
<1>6. \A i \in 1 .. length : <<df, total_offset + i - 1>> \in Row
    BY <1>1, <1>3, <1>4 DEF Row
<1>7. ChunkOf(t) \in Seq(Row) /\ Len(ChunkOf(t)) = length
    BY <1>4, <1>5, <1>6, IsASeq
<1>8. length = 0 => ChunkOf(t) = <<>>
    BY <1>7, EmptySeq
<1>9. /\ length <= chunk_size
      /\ total_offset < Height => length = chunk_size \/ total_offset + length = Height
      /\ total_offset + length <= Height \/ length = 0
    BY <1>1, <1>3 DEF length
<1> QED BY <1>5, <1>7, <1>8, <1>9 DEF total_offset

LEMMA InRowsFrame == ASSUME Types, InRows PROVE df \in DOMAIN heights
BY DEF Types, ArgumentTypes, LoopTypes, InRows

\* A thread at work is at work on a frame.
LEMMA AtWorkInRows ==
    ASSUME Types, RoundsAreWhole, NEW t \in Threads, workers[t] # "waiting"
    PROVE  InRows /\ df \in DOMAIN heights
BY InRowsFrame DEF RoundsAreWhole, InState

LEMMA TypesHold == Types /\ RoundsAreWhole /\ [Next]_vars => Types'
<1> SUFFICES ASSUME Types, RoundsAreWhole, [Next]_vars PROVE Types'
    OBVIOUS
<1>0. CASE UNCHANGED vars
    BY <1>0 DEF vars, arguments, Types, ArgumentTypes, LoopTypes, BufferTypes, OutTypes, Threads
<1>1. ASSUME NEW t \in Threads, GetBuffer(t) PROVE Types'
  <2>1. write_buffer_pool # <<>> /\ write_buffer_pool \in Seq({<<>>})
      BY <1>1 DEF GetBuffer, Types, BufferTypes
  <2>2. Last(write_buffer_pool) = <<>> /\ Front(write_buffer_pool) \in Seq({<<>>})
      BY <2>1 DEF Last, Front
  <2>3. <<>> \in Seq(Row)
      OBVIOUS
  <2>4. buffers' \in [Threads -> Seq(Row)]
      BY <1>1, <2>2, <2>3 DEF GetBuffer, Types, BufferTypes
  <2>5. workers' \in [Threads -> Rounds] /\ free_iters' \in Int
      BY <1>1 DEF GetBuffer, Types, BufferTypes, LoopTypes, Rounds
  <2>6. UNCHANGED <<heights, n_threads, chunk_size, df, n_rows_finished, drained, out, cut, short>>
      BY <1>1 DEF GetBuffer, arguments
  <2>7. BufferTypes'
      BY <1>1, <2>2, <2>4, <2>5, <2>6 DEF GetBuffer, BufferTypes, Threads
  <2> QED BY <2>5, <2>6, <2>7 DEF Types, ArgumentTypes, LoopTypes, OutTypes, Threads
<1>2. ASSUME NEW t \in Threads, FillBuffer(t) PROVE Types'
  <2>0. ChunkOf(t) \in Seq(Row)
      BY <1>2, AtWorkInRows, ChunkType DEF FillBuffer, Types
  <2>1. buffers[t] \o ChunkOf(t) \in Seq(Row)
      BY <2>0 DEF Types, BufferTypes
  <2>2. buffers' \in [Threads -> Seq(Row)]
      BY <1>2, <2>1 DEF FillBuffer, Types, BufferTypes
  <2>3. workers' \in [Threads -> Rounds] /\ free_iters' \in Int
      BY <1>2 DEF FillBuffer, Types, BufferTypes, LoopTypes, Rounds
  <2>4. UNCHANGED <<heights, n_threads, chunk_size, df, n_rows_finished,
                 drained, write_buffer_pool, out, cut, short>>
      BY <1>2 DEF FillBuffer, arguments
  <2> QED BY <2>2, <2>3, <2>4 DEF Types, ArgumentTypes, LoopTypes, BufferTypes, OutTypes, Threads
<1>3. CASE WriteBuffer
  <2>1. drained \in Threads
      BY <1>3 DEF WriteBuffer, Types, LoopTypes, ArgumentTypes, Threads
  <2>2. PICK n \in 0 .. Len(buffers[drained]), within \in BOOLEAN :
            /\ within => n > 0
            /\ out' = out \o SubSeq(buffers[drained], 1, n)
            /\ cut' = cut \union (IF within THEN {buffers[drained][n]} ELSE {})
            /\ short' = (short \/ n < Len(buffers[drained]) \/ within)
      BY <1>3 DEF WriteBuffer, Take
  <2>3. buffers[drained] \in Seq(Row)
      BY <2>1 DEF Types, BufferTypes
  <2>a. SubSeq(buffers[drained], 1, n) \in Seq(Row) /\ (n > 0 => buffers[drained][n] \in Row)
      BY <2>3
  <2>b. out' \in Seq(Row) /\ cut' \subseteq Row
      BY <2>2, <2>a DEF OutTypes, Types
  <2>c. short' \in BOOLEAN
      BY <2>2
  <2>4. OutTypes'
      BY <2>b, <2>c DEF OutTypes
  <2>5. buffers' \in [Threads -> Seq(Row)]
      BY <1>3, <2>1 DEF WriteBuffer, Types, BufferTypes
  <2>6. write_buffer_pool' \in Seq({<<>>})
      BY <1>3 DEF WriteBuffer, Types, BufferTypes
  <2>7. drained' \in 0 .. n_threads
      BY <1>3, <2>1 DEF WriteBuffer, Types, LoopTypes, ArgumentTypes, Threads
  <2>8. UNCHANGED <<heights, n_threads, chunk_size, df, n_rows_finished, workers, free_iters>>
      BY <1>3 DEF WriteBuffer, arguments
  <2> QED BY <2>4, <2>5, <2>6, <2>7, <2>8 DEF Types, ArgumentTypes, LoopTypes, BufferTypes, Threads
<1>4. CASE EndRound
  <2>1. n_threads * chunk_size \in Nat
      BY DEF Types, ArgumentTypes
  <2>2. n_rows_finished' \in Nat
      BY <1>4, <2>1 DEF EndRound, EndRoundAt, Types, LoopTypes
  <2>3. workers' \in [Threads -> Rounds] /\ drained' \in 0 .. n_threads
      BY <1>4 DEF EndRound, EndRoundAt, Types, ArgumentTypes, Rounds
  <2>4. UNCHANGED <<heights, n_threads, chunk_size, df, buffers,
                 write_buffer_pool, free_iters, out, cut, short>>
      BY <1>4 DEF EndRound, EndRoundAt, arguments
  <2> QED BY <2>2, <2>3, <2>4 DEF Types, ArgumentTypes, LoopTypes, BufferTypes, OutTypes, Threads
<1>5. CASE NextFrame
  <2>1. df' \in 1 .. Len(heights) + 1 /\ n_rows_finished' \in Nat
      BY <1>5 DEF NextFrame, Types, LoopTypes, ArgumentTypes
  <2>2. UNCHANGED <<heights, n_threads, chunk_size, workers, buffers,
                 drained, write_buffer_pool, free_iters, out, cut, short>>
      BY <1>5 DEF NextFrame, arguments
  <2> QED BY <2>1, <2>2 DEF Types, ArgumentTypes, LoopTypes, BufferTypes, OutTypes, Threads
<1> QED BY <1>0, <1>1, <1>2, <1>3, <1>4, <1>5 DEF Next, Finished

----------------------------------------------------------------------------
\* Rounds

\* A round that has begun is within a frame, and the frame does not change
\* before the round is over.
LEMMA RoundsHold == Types /\ RoundsAreWhole /\ [Next]_vars => RoundsAreWhole'
<1> SUFFICES ASSUME Types, RoundsAreWhole, [Next]_vars PROVE RoundsAreWhole'
    OBVIOUS
<1>0. CASE UNCHANGED vars
    BY <1>0 DEF vars, arguments, RoundsAreWhole, InState, InRows, Height, Threads
<1>1. ASSUME NEW t \in Threads, GetBuffer(t) PROVE RoundsAreWhole'
  <2>1. drained = 0 /\ InRows
      BY <1>1 DEF GetBuffer, Types, LoopTypes, RoundsAreWhole, InState
  <2>2. UNCHANGED <<drained, InRows>>
      BY <1>1 DEF GetBuffer, arguments, InRows, Height
  <2> QED BY <2>1, <2>2 DEF RoundsAreWhole
<1>2. ASSUME NEW t \in Threads, FillBuffer(t) PROVE RoundsAreWhole'
  <2>1. drained = 0 /\ InRows
      BY <1>2, AtWorkInRows DEF FillBuffer, Types, LoopTypes, RoundsAreWhole, InState
  <2>2. UNCHANGED <<drained, InRows>>
      BY <1>2 DEF FillBuffer, arguments, InRows, Height
  <2> QED BY <2>1, <2>2 DEF RoundsAreWhole
<1>3. CASE WriteBuffer
  <2>1. InState("done") = Threads /\ InRows
      BY <1>3 DEF WriteBuffer, AllDone, InState
  <2>2. UNCHANGED <<Threads, InState("done"), InRows>>
      BY <1>3 DEF WriteBuffer, arguments, InRows, Height, Threads, InState
  <2> QED BY <2>1, <2>2 DEF RoundsAreWhole
<1>4. CASE EndRound
  <2>1. drained' = 0 /\ InState("waiting")' = Threads'
      BY <1>4 DEF EndRound, EndRoundAt, arguments, Threads, InState
  <2> QED BY <2>1 DEF RoundsAreWhole
<1>5. CASE NextFrame
  <2>1. InState("waiting") = Threads /\ drained = 0
      BY <1>5 DEF NextFrame, RoundsAreWhole
  <2>2. UNCHANGED <<Threads, InState("waiting"), drained>>
      BY <1>5 DEF NextFrame, arguments, Threads, InState
  <2> QED BY <2>1, <2>2 DEF RoundsAreWhole
<1> QED BY <1>0, <1>1, <1>2, <1>3, <1>4, <1>5 DEF Next, Finished

----------------------------------------------------------------------------
\* Pools

LEMMA ThreadsFinite ==
    ASSUME ArgumentTypes
    PROVE  /\ IsFiniteSet(Threads) /\ Cardinality(Threads) = n_threads
           /\ \A s : IsFiniteSet(InState(s)) /\ Cardinality(InState(s)) \in Nat
<1>1. Threads = 0 .. n_threads - 1 /\ n_threads \in Nat \ {0}
    BY DEF ArgumentTypes, Threads
<1>2. IsFiniteSet(Threads) /\ Cardinality(Threads) = n_threads
    BY <1>1, FS_Interval
<1>3. \A s : InState(s) \subseteq Threads
    BY DEF InState
<1> QED BY <1>2, <1>3, FS_Subset, FS_CardinalityType

\* A thread that changes its state leaves one set and joins another.
LEMMA MovesCount ==
    ASSUME ArgumentTypes, LoopTypes, NEW t \in Threads, NEW old, NEW s,
           workers[t] = old, s # old,
           workers' = [workers EXCEPT ![t] = s], UNCHANGED n_threads
    PROVE  /\ Cardinality(InState(old)') = Cardinality(InState(old)) - 1
           /\ Cardinality(InState(s)') = Cardinality(InState(s)) + 1
<1>1. InState(old)' = InState(old) \ {t} /\ t \in InState(old)
    BY DEF LoopTypes, InState, Threads
<1>2. InState(s)' = InState(s) \union {t} /\ t \notin InState(s)
    BY DEF LoopTypes, InState, Threads
<1>4. IsFiniteSet(InState(old)) /\ IsFiniteSet(InState(s))
    BY ThreadsFinite
<1>5. Cardinality(InState(old)') = Cardinality(InState(old)) - 1
    BY <1>1, <1>4, FS_RemoveElement
<1>6. Cardinality(InState(s)') = Cardinality(InState(s)) + 1
    BY <1>2, <1>4, FS_AddElement
<1> QED BY <1>5, <1>6

\* The others stay.
LEMMA OthersStay ==
    ASSUME LoopTypes, NEW t \in Threads, NEW old, NEW s, NEW other,
           workers[t] = old, other # old, other # s,
           workers' = [workers EXCEPT ![t] = s], UNCHANGED n_threads
    PROVE  InState(other)' = InState(other)
BY DEF LoopTypes, InState, Threads

LEMMA FrontIsShorter ==
    ASSUME NEW S, NEW s \in Seq(S), Len(s) \in Nat \ {0}
    PROVE  Len(Front(s)) = Len(s) - 1
<1>1. PICK n \in Nat : n = Len(s) - 1
    OBVIOUS
<1>2. \A i \in 1 .. n : s[i] \in S
    BY <1>1
<1>3. Len(SubSeq(s, 1, n)) = IF 1 <= n THEN n - 1 + 1 ELSE 0
    BY <1>2, SubSeqProperties
<1> QED BY <1>1, <1>3 DEF Front

LEMMA PoolsHold == Types /\ RoundsAreWhole /\ PoolsCount /\ [Next]_vars => PoolsCount'
<1> SUFFICES ASSUME Types, RoundsAreWhole, PoolsCount, [Next]_vars PROVE PoolsCount'
    OBVIOUS
<1> DEFINE W == InState("waiting")
           F == InState("filling")
<1>a. ArgumentTypes /\ LoopTypes /\ write_buffer_pool \in Seq({<<>>}) /\ free_iters \in Int
    BY DEF Types, BufferTypes
<1>b. Cardinality(W) \in Nat /\ Cardinality(F) \in Nat /\ n_threads \in Nat /\ drained \in Nat
    BY <1>a, ThreadsFinite DEF ArgumentTypes, LoopTypes
<1>c. ASSUME UNCHANGED <<n_threads, workers>> PROVE UNCHANGED <<W, F>>
    BY <1>c DEF InState, Threads
<1> HIDE DEF W, F
<1>d. /\ Len(write_buffer_pool) = Cardinality(W) + drained
      /\ free_iters = n_threads - Cardinality(F)
    BY DEF PoolsCount, W, F
<1>e. ASSUME Len(write_buffer_pool') = Cardinality(W') + drained',
             free_iters' = n_threads' - Cardinality(F')
      PROVE  PoolsCount'
    BY <1>e DEF PoolsCount, W, F
<1>0. CASE UNCHANGED vars
  <2>1. UNCHANGED <<n_threads, workers, drained, write_buffer_pool, free_iters>>
      BY <1>0 DEF vars, arguments
  <2> QED BY <1>c, <1>d, <1>e, <2>1
<1>1. ASSUME NEW t \in Threads, GetBuffer(t) PROVE PoolsCount'
  <2>1. /\ workers[t] = "waiting" /\ UNCHANGED <<n_threads, drained>>
        /\ write_buffer_pool # <<>> /\ write_buffer_pool' = Front(write_buffer_pool)
      BY <1>1 DEF GetBuffer, arguments
  <2>0. Len(write_buffer_pool) \in Nat \ {0}
      BY <1>a, <2>1, EmptySeq
  <2>2. Len(write_buffer_pool') = Len(write_buffer_pool) - 1
      BY <1>a, <2>0, <2>1, FrontIsShorter
  <2>3. CASE workers' = [workers EXCEPT ![t] = "done"] /\ UNCHANGED free_iters
    <3>1. Cardinality(W') = Cardinality(W) - 1
        BY <1>a, <2>1, <2>3, MovesCount DEF W
    <3>2. F' = F
        BY <1>a, <2>1, <2>3, OthersStay DEF F
    <3> QED BY <3>2, <1>b, <1>d, <1>e, <2>1, <2>2, <2>3, <3>1
  <2>4. CASE workers' = [workers EXCEPT ![t] = "filling"] /\ free_iters' = free_iters - 1
    <3>1. Cardinality(W') = Cardinality(W) - 1 /\ Cardinality(F') = Cardinality(F) + 1
        BY <1>a, <2>1, <2>4, MovesCount DEF W, F
    <3>2. Len(write_buffer_pool') = Cardinality(W') + drained'
        BY <1>b, <1>d, <2>1, <2>2, <3>1
    <3>3. free_iters' = n_threads' - Cardinality(F')
        BY <1>b, <1>d, <2>1, <2>4, <3>1
    <3> QED BY <1>e, <3>2, <3>3
  <2> QED BY <1>1, <2>3, <2>4 DEF GetBuffer
<1>2. ASSUME NEW t \in Threads, FillBuffer(t) PROVE PoolsCount'
  <2>1. /\ workers[t] = "filling" /\ workers' = [workers EXCEPT ![t] = "done"]
        /\ free_iters' = free_iters + 1
        /\ UNCHANGED <<n_threads, drained, write_buffer_pool>>
      BY <1>2 DEF FillBuffer, arguments
  <2>2. Cardinality(F') = Cardinality(F) - 1
      BY <1>a, <2>1, MovesCount DEF F
  <2>3. W' = W
      BY <1>a, <2>1, OthersStay DEF W
  <2> QED BY <1>a, <1>b, <1>d, <1>e, <2>1, <2>2, <2>3
<1>3. CASE WriteBuffer
  <2>1. /\ write_buffer_pool' = Append(write_buffer_pool, <<>>) /\ drained' = drained + 1
        /\ UNCHANGED <<n_threads, workers, free_iters>>
      BY <1>3 DEF WriteBuffer, arguments
  <2>2. Len(write_buffer_pool') = Len(write_buffer_pool) + 1
      BY <1>a, <2>1
  <2> QED BY <1>b, <1>c, <1>d, <1>e, <2>1, <2>2
<1>4. CASE EndRound
  <2>1. /\ drained = n_threads /\ InState("done") = Threads
        /\ UNCHANGED <<n_threads, write_buffer_pool, free_iters>> /\ drained' = 0
        /\ workers' = [t \in Threads |-> "waiting"]
      BY <1>4 DEF EndRound, EndRoundAt, AllDone, InState, arguments
  <2>2. W = {} /\ F = {} /\ W' = Threads /\ F' = {}
      BY <2>1 DEF InState, W, F, Threads
  <2>3. /\ Cardinality(W) = 0 /\ Cardinality(F) = 0 /\ Cardinality(F') = 0
        /\ Cardinality(W') = n_threads
      BY <1>a, <2>2, ThreadsFinite, FS_EmptySet
  <2> QED BY <1>b, <1>d, <1>e, <2>1, <2>3
<1>5. CASE NextFrame
  <2>1. UNCHANGED <<n_threads, workers, drained, write_buffer_pool, free_iters>>
      BY <1>5 DEF NextFrame, arguments
  <2> QED BY <1>c, <1>d, <1>e, <2>1
<1> QED BY <1>0, <1>1, <1>2, <1>3, <1>4, <1>5 DEF Next, Finished

\* A thread that waits has its buffer in the pool, and is not one of those that
\* hold iterators.
LEMMA PoolsAreEnough == Types /\ RoundsAreWhole /\ PoolsCount => PoolsSuffice
<1> SUFFICES ASSUME Types, RoundsAreWhole, PoolsCount PROVE PoolsSuffice
    OBVIOUS
<1>1. ArgumentTypes /\ write_buffer_pool \in Seq({<<>>}) /\ drained \in Nat /\ n_threads \in Nat
    BY DEF Types, BufferTypes, LoopTypes, ArgumentTypes
<1>2. \A i \in DOMAIN write_buffer_pool : write_buffer_pool[i] = <<>>
    BY <1>1
<1>3. ASSUME NEW t \in Threads, workers[t] = "waiting"
      PROVE  write_buffer_pool # <<>> /\ free_iters > 0
  <2>1. t \in InState("waiting") /\ t \notin InState("filling")
      BY <1>3 DEF InState
  <2>2. Cardinality(InState("waiting")) # 0
      BY <1>1, <2>1, ThreadsFinite, FS_EmptySet
  <2>3. Cardinality(InState("waiting")) > 0 /\ write_buffer_pool # <<>>
      BY <1>1, <2>2, ThreadsFinite DEF PoolsCount
  <2>4. InState("filling") \subseteq Threads /\ InState("filling") # Threads
      BY <2>1 DEF InState
  <2>5. Cardinality(InState("filling")) < n_threads
      BY <1>1, <2>4, ThreadsFinite, FS_Subset
  <2> QED BY <1>1, <2>3, <2>5, ThreadsFinite DEF PoolsCount
<1> QED BY <1>2, <1>3 DEF PoolsSuffice

----------------------------------------------------------------------------
\* Buffers

LEMMA ChunksSame ==
    ASSUME UNCHANGED <<heights, n_threads, chunk_size, df, n_rows_finished>>
    PROVE  \A u : ChunkOf(u)' = ChunkOf(u)
BY DEF ChunkOf, Height

LEMMA BuffersHold ==
    Types /\ RoundsAreWhole /\ BuffersHoldChunks /\ [Next]_vars => BuffersHoldChunks'
<1> SUFFICES ASSUME Types, RoundsAreWhole, BuffersHoldChunks, [Next]_vars
             PROVE  BuffersHoldChunks'
    OBVIOUS
<1>a. /\ workers \in [Threads -> Rounds] /\ buffers \in [Threads -> Seq(Row)]
      /\ drained \in Nat /\ n_threads \in Nat /\ \A u \in Threads : u \in Nat /\ u < n_threads
    BY DEF Types, LoopTypes, BufferTypes, ArgumentTypes, Threads
<1>0. CASE UNCHANGED vars
  <2>1. UNCHANGED <<Threads, workers, buffers, drained>> /\ \A u : ChunkOf(u)' = ChunkOf(u)
      BY <1>0, ChunksSame DEF vars, arguments, Threads
  <2> QED BY <2>1 DEF BuffersHoldChunks
<1>1. ASSUME NEW t \in Threads, GetBuffer(t) PROVE BuffersHoldChunks'
  <2>1. UNCHANGED <<Threads, drained>> /\ \A u : ChunkOf(u)' = ChunkOf(u)
      BY <1>1, ChunksSame DEF GetBuffer, arguments, Threads
  <2>2. write_buffer_pool # <<>> /\ write_buffer_pool \in Seq({<<>>})
      BY <1>1 DEF GetBuffer, Types, BufferTypes
  <2>3. Last(write_buffer_pool) = <<>>
      BY <2>2 DEF Last
  <2>4. buffers' = [buffers EXCEPT ![t] = <<>>]
      BY <1>1, <2>3 DEF GetBuffer
  <2>5. workers' = [workers EXCEPT ![t] = IF ChunkOf(t) = <<>> THEN "done" ELSE "filling"]
      BY <1>1 DEF GetBuffer
  <2> QED BY <1>a, <2>1, <2>4, <2>5 DEF BuffersHoldChunks
<1>2. ASSUME NEW t \in Threads, FillBuffer(t) PROVE BuffersHoldChunks'
  <2>1. UNCHANGED <<Threads, drained>> /\ \A u : ChunkOf(u)' = ChunkOf(u)
      BY <1>2, ChunksSame DEF FillBuffer, arguments, Threads
  <2>2. drained = 0 /\ buffers[t] = <<>> /\ ChunkOf(t) \in Seq(Row)
      BY <1>2, <1>a, AtWorkInRows, ChunkType
         DEF FillBuffer, BuffersHoldChunks, RoundsAreWhole, InState, Types
  <2>3. buffers[t] \o ChunkOf(t) = ChunkOf(t)
      BY <2>2, ConcatEmptySeq
  <2>4. buffers' = [buffers EXCEPT ![t] = ChunkOf(t)]
      BY <1>2, <2>3 DEF FillBuffer
  <2>5. workers' = [workers EXCEPT ![t] = "done"]
      BY <1>2 DEF FillBuffer
  <2> QED BY <1>a, <2>1, <2>2, <2>4, <2>5 DEF BuffersHoldChunks
<1>3. CASE WriteBuffer
  <2>1. UNCHANGED <<Threads, workers>> /\ \A u : ChunkOf(u)' = ChunkOf(u)
      BY <1>3, ChunksSame DEF WriteBuffer, arguments, Threads
  <2>2. buffers' = [buffers EXCEPT ![drained] = <<>>] /\ drained' = drained + 1
      BY <1>3 DEF WriteBuffer
  <2>3. \A u \in Threads : u # drained => (drained' <= u <=> drained <= u)
      BY <1>a, <2>2
  <2>4. ~(drained' <= drained)
      BY <1>a, <2>2
  <2> QED BY <1>a, <2>1, <2>2, <2>3, <2>4 DEF BuffersHoldChunks
<1>4. CASE EndRound
  <2>1. /\ drained = n_threads /\ UNCHANGED <<Threads, buffers>>
        /\ workers' = [u \in Threads |-> "waiting"]
      BY <1>4 DEF EndRound, EndRoundAt, arguments, Threads
  <2>2. \A u \in Threads : buffers[u] = <<>>
      BY <1>a, <2>1 DEF BuffersHoldChunks
  <2> QED BY <2>1, <2>2 DEF BuffersHoldChunks
<1>5. CASE NextFrame
  <2>1. InState("waiting") = Threads /\ UNCHANGED <<Threads, workers, buffers>>
      BY <1>5 DEF NextFrame, RoundsAreWhole, arguments, Threads
  <2>2. \A u \in Threads : workers[u] = "waiting"
      BY <2>1 DEF InState
  <2> QED BY <2>1, <2>2 DEF BuffersHoldChunks
<1> QED BY <1>0, <1>1, <1>2, <1>3, <1>4, <1>5 DEF Next, Finished

----------------------------------------------------------------------------
\* Lines

LEMMA PositionType == ASSUME Types PROVE Position \in Nat
<1>1. drained \in Nat /\ chunk_size \in Nat /\ n_rows_finished \in Nat
    BY DEF Types, LoopTypes, ArgumentTypes
<1>2. drained * chunk_size \in Nat
    BY <1>1
<1> QED BY <1>1, <1>2 DEF Position

\* Only writing a buffer moves the position, and the next frame starts it anew.
LEMMA PositionSteps ==
    ASSUME Types, RoundsAreWhole
    PROVE  /\ WriteBuffer => Position' = Position + chunk_size
           /\ EndRound => Position' = Position
           /\ NextFrame => Position' = 0 /\ (df \in DOMAIN heights => Position >= Height)
<1>1. /\ drained \in Nat /\ chunk_size \in Nat /\ n_threads \in Nat /\ n_rows_finished \in Nat
      /\ heights \in Seq(Nat)
    BY DEF Types, LoopTypes, ArgumentTypes
<1>2. ASSUME WriteBuffer PROVE Position' = Position + chunk_size
  <2>1. drained' = drained + 1 /\ UNCHANGED <<n_rows_finished, chunk_size>>
      BY <1>2 DEF WriteBuffer, arguments
  <2>2. (drained + 1) * chunk_size = drained * chunk_size + chunk_size
      BY <1>1
  <2>3. drained * chunk_size \in Nat
      BY <1>1
  <2> QED BY <1>1, <2>1, <2>2, <2>3 DEF Position
<1>3. ASSUME EndRound PROVE Position' = Position
  <2>1. /\ drained = n_threads /\ drained' = 0 /\ UNCHANGED chunk_size
        /\ n_rows_finished' = n_rows_finished + n_threads * chunk_size
      BY <1>3 DEF EndRound, EndRoundAt, arguments
  <2>2. n_threads * chunk_size \in Nat /\ 0 * chunk_size = 0
      BY <1>1
  <2> QED BY <1>1, <2>1, <2>2 DEF Position
<1>4. ASSUME NextFrame PROVE Position' = 0 /\ (df \in DOMAIN heights => Position >= Height)
  <2>1. drained = 0 /\ ~InRows /\ n_rows_finished' = 0 /\ UNCHANGED <<drained, chunk_size>>
      BY <1>4 DEF NextFrame, RoundsAreWhole, arguments
  <2>2. 0 * chunk_size = 0
      BY <1>1
  <2>3. Position = n_rows_finished /\ Position' = 0
      BY <1>1, <2>1, <2>2 DEF Position
  <2> QED BY <1>1, <2>1, <2>3 DEF InRows, Height
<1> QED BY <1>2, <1>3, <1>4

LEMMA RowsAre ==
    ASSUME heights \in Seq(Nat)
    PROVE  /\ \A d \in DOMAIN heights : \A k \in 0 .. heights[d] - 1 : <<d, k>> \in AllRows
           /\ \A x \in AllRows : /\ x[1] \in DOMAIN heights /\ x[1] \in Nat
                                 /\ x[2] \in 0 .. heights[x[1]] - 1
                                 /\ x = <<x[1], x[2]>>
BY DEF AllRows

\* Rounds and buffers are nothing to the lines.
LEMMA LinesSame ==
    ASSUME UNCHANGED <<heights, chunk_size, df, Position, out, cut, short>>
    PROVE  /\ WholeChunks => WholeChunks'
           /\ LinesSoFar => LinesSoFar'
           /\ RowsSoFar => RowsSoFar'
           /\ CutsSoFar => CutsSoFar'
<1>1. CutsSoFar => CutsSoFar'
    BY DEF CutsSoFar, Before, SameChunk, ToSet
<1> QED
    BY <1>1 DEF WholeChunks, LinesSoFar, RowsSoFar, AllRows, Passed, Before, SameChunk, ToSet

LEMMA PositionSame ==
    ASSUME UNCHANGED <<n_rows_finished, drained, chunk_size>> PROVE UNCHANGED Position
BY DEF Position

\* What WriteBuffer adds to the output: the first rows of the next chunk.
LEMMA WriteAdds ==
    ASSUME Types, RoundsAreWhole, BuffersHoldChunks, WriteBuffer
    PROVE  \E n, length \in Nat :
              /\ n <= length /\ length <= chunk_size
              /\ Position + length <= Height \/ length = 0
              /\ Position < Height => length = chunk_size \/ Position + length = Height
              /\ short \/ n < length => short'
              /\ \/ cut' = cut
                 \/ n > 0 /\ short' /\ cut' = cut \union {<<df, Position + n - 1>>}
              /\ DOMAIN out' = 1 .. Len(out) + n
              /\ \A i \in 1 .. Len(out) : out'[i] = out[i]
              /\ \A i \in 1 .. n : out'[Len(out) + i] = <<df, Position + i - 1>>
<1> DEFINE chunk == ChunkOf(drained)
<1>1. drained \in Threads /\ buffers[drained] = chunk
    BY DEF WriteBuffer, AllDone, Types, LoopTypes, ArgumentTypes, Threads, BuffersHoldChunks
<1>2. df \in DOMAIN heights
    BY InRowsFrame DEF WriteBuffer, AllDone
<1>3. /\ chunk \in Seq(Row) /\ Len(chunk) <= chunk_size
      /\ \A i \in 1 .. Len(chunk) : chunk[i] = <<df, Position + i - 1>>
      /\ Position < Height => Len(chunk) = chunk_size \/ Position + Len(chunk) = Height
      /\ Position + Len(chunk) <= Height \/ chunk = <<>>
    BY <1>1, <1>2, ChunkType DEF Types, Position
<1> HIDE DEF chunk
<1>4. PICK n \in 0 .. Len(chunk), within \in BOOLEAN :
          /\ within => n > 0
          /\ out' = out \o SubSeq(chunk, 1, n)
          /\ cut' = cut \union (IF within THEN {chunk[n]} ELSE {})
          /\ short' = (short \/ n < Len(chunk) \/ within)
    BY <1>1 DEF WriteBuffer, Take
<1>5. Len(chunk) \in Nat /\ n \in Nat /\ n <= Len(chunk) /\ out \in Seq(Row)
    BY <1>3, <1>4 DEF Types, OutTypes
<1>6. \A i \in 1 .. n : chunk[i] \in Row
    BY <1>3, <1>5
<1>7. /\ SubSeq(chunk, 1, n) \in Seq(Row) /\ Len(SubSeq(chunk, 1, n)) = n
      /\ \A i \in 1 .. n : SubSeq(chunk, 1, n)[i] = chunk[i]
    BY <1>3, <1>5, <1>6
<1>8. /\ DOMAIN out' = 1 .. Len(out) + n
      /\ \A i \in 1 .. Len(out) : out'[i] = out[i]
      /\ \A i \in 1 .. n : out'[Len(out) + i] = SubSeq(chunk, 1, n)[i]
    BY <1>4, <1>5, <1>7
<1>9. ASSUME NEW i \in 1 .. n PROVE out'[Len(out) + i] = <<df, Position + i - 1>>
  <2>1. i \in 1 .. Len(chunk)
      BY <1>5
  <2>2. chunk[i] = <<df, Position + i - 1>>
      BY <1>3, <2>1
  <2> QED BY <1>7, <1>8, <2>2
<1>10. Position + Len(chunk) <= Height \/ Len(chunk) = 0
    BY <1>3
<1>11. short \/ n < Len(chunk) => short'
    BY <1>4, Zenon
<1>12. \/ cut' = cut
       \/ n > 0 /\ short' /\ cut' = cut \union {<<df, Position + n - 1>>}
  <2>1. CASE within
    <3>1. n > 0 /\ short' /\ cut' = cut \union {chunk[n]}
        BY <1>4, <2>1
    <3>2. chunk[n] = <<df, Position + n - 1>>
        BY <1>3, <1>5, <3>1
    <3> QED BY <3>1, <3>2
  <2>2. CASE ~within
      BY <1>4, <2>2
  <2> QED BY <2>1, <2>2
<1> QED BY <1>3, <1>5, <1>8, <1>9, <1>10, <1>11, <1>12

\* An index into what has been added to a sequence of m.
LEMMA AddedIndex ==
    ASSUME NEW m \in Nat, NEW n \in Nat, NEW i \in 1 .. m + n, i \notin 1 .. m
    PROVE  \E k \in 1 .. n : i = m + k
<1>1. i - m \in 1 .. n /\ i = m + (i - m)
    OBVIOUS
<1> QED BY <1>1

LEMMA LinesHold ==
    ASSUME Types, RoundsAreWhole, BuffersHoldChunks, LinesSoFar, WriteBuffer
    PROVE  LinesSoFar'
<1> DEFINE m == Len(out)
<1>1. PICK n, length \in Nat :
          /\ n <= length /\ length <= chunk_size
          /\ Position + length <= Height \/ length = 0
          /\ DOMAIN out' = 1 .. m + n
          /\ \A i \in 1 .. m : out'[i] = out[i]
          /\ \A i \in 1 .. n : out'[m + i] = <<df, Position + i - 1>>
    BY WriteAdds
<1>2. heights \in Seq(Nat) /\ chunk_size \in Nat /\ out \in Seq(Row) /\ m \in Nat
    BY DEF Types, ArgumentTypes, OutTypes
<1>3. df \in DOMAIN heights
    BY InRowsFrame DEF WriteBuffer, AllDone
<1>4. df \in Nat /\ Height \in Nat
    BY <1>2, <1>3 DEF Height
<1>5. Position \in Nat /\ Position' = Position + chunk_size
    BY PositionType, PositionSteps
<1>6. df' = df /\ AllRows' = AllRows
    BY DEF WriteBuffer, arguments, AllRows
<1>7. \A i \in 1 .. m : /\ out[i] \in AllRows /\ Passed(out[i])
                        /\ out[i][1] \in Nat /\ out[i][2] \in Nat
    BY <1>2 DEF LinesSoFar, Row
<1> HIDE DEF m
<1>8. ASSUME NEW i \in DOMAIN out', i \notin 1 .. m
      PROVE  \E k \in 1 .. n : i = m + k /\ out'[i] = <<df, Position + k - 1>>
  <2>1. i \in 1 .. m + n
      BY <1>1
  <2>2. PICK k \in 1 .. n : i = m + k
      BY <1>2, <1>8, <2>1, AddedIndex
  <2> QED BY <1>1, <2>2
<1>9. ASSUME NEW i \in DOMAIN out'
      PROVE  /\ out'[i] \in AllRows'
             /\ out'[i][1] < df' \/ (out'[i][1] = df' /\ out'[i][2] < Position')
  <2>1. CASE i \in 1 .. m
    <3>1. out'[i] = out[i] /\ out[i] \in AllRows
        BY <1>1, <1>7, <2>1
    <3>2. \/ out[i][1] < df
          \/ out[i][1] = df /\ out[i][2] < Position
        BY <1>7, <2>1 DEF Passed
    <3>3. out[i][2] < Position => out[i][2] < Position + chunk_size
        BY <1>2, <1>5, <1>7, <2>1
    <3> QED BY <1>5, <1>6, <3>1, <3>2, <3>3
  <2>2. CASE i \notin 1 .. m
    <3>1. PICK k \in 1 .. n : out'[i] = <<df, Position + k - 1>>
        BY <1>8, <2>2
    <3>2. Position + k - 1 \in 0 .. Height - 1 /\ Position + k - 1 < Position + chunk_size
        BY <1>1, <1>2, <1>4, <1>5
    <3>3. out'[i] \in AllRows
        BY <1>2, <1>3, <3>1, <3>2, RowsAre DEF Height
    <3> QED BY <1>5, <1>6, <3>1, <3>2, <3>3
  <2> QED BY <2>1, <2>2
<1>10. ASSUME NEW i \in DOMAIN out', NEW j \in DOMAIN out', i < j
       PROVE  Before(out'[i], out'[j])
  <2>0. i \in Nat /\ j \in Nat /\ i > 0 /\ (j \in 1 .. m => i \in 1 .. m)
    <3>1. i \in 1 .. m + n /\ j \in 1 .. m + n
        BY <1>1
    <3> QED BY <1>2, <1>10, <3>1
  <2>1. CASE j \in 1 .. m
    <3>1. out'[i] = out[i] /\ out'[j] = out[j] /\ i \in DOMAIN out /\ j \in DOMAIN out
        BY <1>1, <1>2, <2>0, <2>1 DEF m
    <3> QED BY <1>10, <3>1 DEF LinesSoFar
  <2>2. CASE i \in 1 .. m /\ j \notin 1 .. m
    <3>1. PICK k \in 1 .. n : out'[j] = <<df, Position + k - 1>>
        BY <1>8, <2>2
    <3>2. /\ out'[i] = out[i] /\ out[i][2] \in Nat
          /\ out[i][1] < df \/ (out[i][1] = df /\ out[i][2] < Position)
        BY <1>1, <1>7, <2>2 DEF Passed
    <3>3. out[i][2] < Position => out[i][2] < Position + k - 1
        BY <1>5, <3>2
    <3> QED BY <3>1, <3>2, <3>3 DEF Before
  <2>3. CASE i \notin 1 .. m
    <3>1. PICK k \in 1 .. n : i = m + k /\ out'[i] = <<df, Position + k - 1>>
        BY <1>8, <2>3
    <3>2. PICK l \in 1 .. n : j = m + l /\ out'[j] = <<df, Position + l - 1>>
        BY <1>8, <2>0, <2>3
    <3>3. Position + k - 1 < Position + l - 1
        BY <1>2, <1>5, <1>10, <3>1, <3>2
    <3> QED BY <3>1, <3>2, <3>3 DEF Before
  <2> QED BY <2>0, <2>1, <2>2, <2>3
<1> QED BY <1>9, <1>10 DEF LinesSoFar, Passed, Before

----------------------------------------------------------------------------
\* Rows that are missing

LEMMA Ordered ==
    ASSUME NEW c \in Nat \ {0}, NEW m \in Int, NEW n \in Int, m * c < n * c
    PROVE  m < n
<1> SUFFICES ASSUME ~(m < n) PROVE FALSE
    OBVIOUS
<1>1. (m - n) * c >= 0
    OBVIOUS
<1>2. (m - n) * c = m * c - n * c /\ m * c \in Int /\ n * c \in Int
    OBVIOUS
<1> QED BY <1>1, <1>2

\* Rows on two sides of a multiple of the chunk size are in two chunks.
LEMMA TwoChunks ==
    ASSUME NEW c \in Nat \ {0}, NEW q \in Nat, NEW a \in Nat, NEW b \in Nat,
           a < q * c, q * c <= b
    PROVE  a \div c # b \div c
<1> DEFINE d == a \div c
           e == b \div c
<1>1. d \in Int /\ e \in Int
    OBVIOUS
<1>2. a = c * d + (a % c) /\ a % c \in 0 .. c - 1 /\ b = c * e + (b % c) /\ b % c \in 0 .. c - 1
    OBVIOUS
<1> HIDE DEF d, e
<1>3. c * d = d * c /\ c * e = e * c /\ (e + 1) * c = e * c + c
      /\ d * c \in Int /\ e * c \in Int /\ q * c \in Int
    BY <1>1
<1>4. d * c < q * c /\ q * c < (e + 1) * c
    BY <1>2, <1>3
<1>5. d < q
    BY <1>1, <1>4, Ordered
<1>6. q < e + 1
    BY <1>1, <1>4, Ordered
<1>7. d < e
    BY <1>1, <1>5, <1>6
<1> QED BY <1>1, <1>7 DEF d, e

LEMMA MultipleHasNoRest ==
    ASSUME NEW c \in Nat \ {0}, NEW q \in Nat
    PROVE  (q * c) % c = 0
<1> DEFINE a == q * c
           d == a \div c
           e == a % c
<1>1. a \in Nat /\ d \in Int /\ e \in 0 .. c - 1 /\ a = c * d + e
    OBVIOUS
<1> HIDE DEF d, e
<1>2. e = (q - d) * c /\ q - d \in Int
  <2>1. c * d = d * c /\ (q - d) * c = q * c - d * c /\ d * c \in Int
      BY <1>1
  <2> QED BY <1>1, <2>1
<1>3. (q - d) * c < 1 * c /\ (0 - 1) * c < (q - d) * c
    BY <1>1, <1>2
<1>4. q - d < 1 /\ 0 - 1 < q - d
    BY <1>2, <1>3, Ordered
<1>5. q - d = 0
    BY <1>2, <1>4
<1>6. e = 0 * c
    BY <1>2, <1>5
<1> QED BY <1>6 DEF e

LEMMA RowsHold ==
    ASSUME Types, RoundsAreWhole, BuffersHoldChunks, WholeChunks, LinesSoFar, RowsSoFar,
           WriteBuffer
    PROVE  RowsSoFar'
<1> DEFINE m == Len(out)
<1>1. PICK n, length \in Nat :
          /\ n <= length /\ length <= chunk_size
          /\ Position < Height => length = chunk_size \/ Position + length = Height
          /\ short \/ n < length => short'
          /\ DOMAIN out' = 1 .. m + n
          /\ \A i \in 1 .. m : out'[i] = out[i]
          /\ \A i \in 1 .. n : out'[m + i] = <<df, Position + i - 1>>
    BY WriteAdds
<1>2. heights \in Seq(Nat) /\ chunk_size \in Nat \ {0} /\ out \in Seq(Row) /\ m \in Nat
    BY DEF Types, ArgumentTypes, OutTypes
<1>3. df \in DOMAIN heights /\ df \in Nat /\ Height \in Nat
  <2>1. df \in DOMAIN heights
      BY InRowsFrame DEF WriteBuffer, AllDone
  <2> QED BY <1>2, <2>1 DEF Height
<1>4. Position \in Nat /\ Position' = Position + chunk_size
    BY PositionType, PositionSteps
<1>5. df' = df /\ AllRows' = AllRows /\ chunk_size' = chunk_size
    BY DEF WriteBuffer, arguments, AllRows
<1>6. PICK q \in Nat : Position = q * chunk_size
    BY DEF WholeChunks
<1>7. \A y \in ToSet(out) : Passed(y) /\ y[1] \in Nat /\ y[2] \in Nat
    BY <1>2 DEF LinesSoFar, ToSet, Row
<1>8. ToSet(out) \subseteq ToSet(out')
  <2> SUFFICES ASSUME NEW i \in DOMAIN out PROVE out[i] \in ToSet(out')
      BY DEF ToSet
  <2>1. i \in 1 .. m /\ i \in 1 .. m + n
      BY <1>2
  <2> QED BY <1>1, <2>1 DEF ToSet
<1>9. ASSUME NEW k \in 1 .. n PROVE <<df, Position + k - 1>> \in ToSet(out')
  <2>1. m + k \in DOMAIN out'
      BY <1>1, <1>2
  <2> QED BY <1>1, <2>1 DEF ToSet
<1>10. ASSUME NEW y \in ToSet(out'), y \notin ToSet(out)
       PROVE  \E k \in 1 .. n : y = <<df, Position + k - 1>>
  <2>1. PICK i \in DOMAIN out' : y = out'[i]
      BY DEF ToSet
  <2>2. i \notin 1 .. m
      BY <1>1, <1>2, <1>10, <2>1 DEF ToSet
  <2>3. i \in 1 .. m + n
      BY <1>1
  <2>4. PICK k \in 1 .. n : i = m + k
      BY <1>2, <2>2, <2>3, AddedIndex
  <2> QED BY <1>1, <2>1, <2>4
<1> HIDE DEF m
<1> SUFFICES ASSUME NEW x \in AllRows, x \notin ToSet(out'),
                    x[1] < df \/ (x[1] = df /\ x[2] < Position + chunk_size)
             PROVE  /\ short'
                    /\ \A y \in ToSet(out') : SameChunk(x, y) => Before(y, x)
    BY <1>4, <1>5 DEF RowsSoFar, Passed, SameChunk, Before
<1>11. x[1] \in Nat /\ x[2] \in Nat /\ x = <<x[1], x[2]>> /\ (x[1] = df => x[2] < Height)
  <2>1. /\ x[1] \in DOMAIN heights /\ x[1] \in Nat /\ x = <<x[1], x[2]>>
        /\ x[2] \in 0 .. heights[x[1]] - 1
      BY <1>2, RowsAre
  <2>2. heights[x[1]] \in Nat
      BY <1>2, <2>1
  <2> QED BY <2>1, <2>2 DEF Height
<1>12. CASE Passed(x)
  <2>1. short /\ \A y \in ToSet(out) : SameChunk(x, y) => Before(y, x)
      BY <1>8, <1>12 DEF RowsSoFar
  <2>2. ASSUME NEW k \in 1 .. n PROVE ~SameChunk(x, <<df, Position + k - 1>>)
    <3>1. SUFFICES ASSUME x[1] = df PROVE x[2] \div chunk_size # (Position + k - 1) \div chunk_size
        BY DEF SameChunk
    <3>2. x[2] < q * chunk_size
        BY <1>3, <1>6, <1>12, <3>1 DEF Passed
    <3>3. Position + k - 1 \in Nat /\ q * chunk_size <= Position + k - 1
        BY <1>4, <1>6
    <3> QED BY <1>2, <1>11, <3>2, <3>3, TwoChunks
  <2> QED BY <1>1, <1>10, <2>1, <2>2
<1>13. CASE ~Passed(x)
  <2>1. x[1] = df /\ x[2] >= Position /\ x[2] < Position + chunk_size /\ x[2] < Height
      BY <1>3, <1>4, <1>11, <1>13 DEF Passed
  <2>2. PICK k \in Nat \ {0} : x[2] = Position + k - 1
    <3>1. x[2] - Position + 1 \in Nat \ {0} /\ x[2] = Position + (x[2] - Position + 1) - 1
        BY <1>4, <1>11, <2>1
    <3> QED BY <3>1
  <2>3. k <= length
      BY <1>1, <1>2, <1>3, <1>4, <2>1, <2>2
  <2>4. n < k
    <3>1. k \notin 1 .. n
        BY <1>9, <1>11, <2>1, <2>2
    <3> QED BY <3>1
  <2>5. n < length
      BY <2>3, <2>4
  <2>6. short'
      BY <1>1, <2>5, Zenon
  <2>7. ASSUME NEW y \in ToSet(out') PROVE Before(y, x)
    <3>1. CASE y \in ToSet(out)
      <4>1. y[1] < df \/ (y[1] = df /\ y[2] < Position) 
          BY <1>7, <3>1 DEF Passed
      <4>2. y[2] < Position => y[2] < x[2]
          BY <1>4, <1>7, <1>11, <2>1, <3>1
      <4> QED BY <2>1, <4>1, <4>2 DEF Before
    <3>2. CASE y \notin ToSet(out)
      <4>1. PICK l \in 1 .. n : y = <<df, Position + l - 1>>
          BY <1>10, <3>2
      <4>2. Position + l - 1 < x[2]
          BY <1>4, <2>2, <2>4
      <4> QED BY <2>1, <4>1, <4>2 DEF Before
    <3> QED BY <3>1, <3>2
  <2> QED BY <2>6, <2>7
<1> QED BY <1>12, <1>13

\* What WriteBuffer adds is in no chunk of which something was taken before, and
\* its first line begins a chunk.
LEMMA CutsHold ==
    ASSUME Types, RoundsAreWhole, BuffersHoldChunks, WholeChunks, LinesSoFar, CutsSoFar,
           WriteBuffer
    PROVE  CutsSoFar'
<1> DEFINE m == Len(out)
<1>1. PICK n, length \in Nat :
          /\ n <= length /\ length <= chunk_size
          /\ short \/ n < length => short'
          /\ \/ cut' = cut
             \/ n > 0 /\ short' /\ cut' = cut \union {<<df, Position + n - 1>>}
          /\ DOMAIN out' = 1 .. m + n
          /\ \A i \in 1 .. m : out'[i] = out[i]
          /\ \A i \in 1 .. n : out'[m + i] = <<df, Position + i - 1>>
    BY WriteAdds
<1>2. /\ chunk_size \in Nat \ {0} /\ out \in Seq(Row) /\ m \in Nat /\ DOMAIN out = 1 .. m
      /\ Position \in Nat /\ chunk_size' = chunk_size
    BY PositionType DEF Types, ArgumentTypes, OutTypes, WriteBuffer, arguments
<1>3. PICK q \in Nat : Position = q * chunk_size
    BY DEF WholeChunks
<1>4. \A i \in 1 .. m : Passed(out[i]) /\ out[i][1] \in Nat /\ out[i][2] \in Nat
    BY <1>2 DEF LinesSoFar, Row
<1>5. \A i, j \in 1 .. m + n : i < j => Before(out'[i], out'[j])
  <2>1. LinesSoFar'
      BY LinesHold
  <2> QED BY <1>1, <2>1 DEF LinesSoFar, Before
<1> HIDE DEF m
<1>6. ASSUME NEW i \in 1 .. m, NEW k \in 1 .. n
      PROVE  ~SameChunk(out[i], <<df, Position + k - 1>>)
  <2>1. SUFFICES ASSUME out[i][1] = df
                 PROVE  out[i][2] \div chunk_size # (Position + k - 1) \div chunk_size
      BY DEF SameChunk
  <2>2. df \in Nat
      BY DEF Types, LoopTypes
  <2>3. out[i][2] \in Nat /\ out[i][2] < q * chunk_size
      BY <1>3, <1>4, <2>1, <2>2 DEF Passed
  <2>4. Position + k - 1 \in Nat /\ q * chunk_size <= Position + k - 1
      BY <1>2, <1>3
  <2> QED BY <1>2, <2>3, <2>4, TwoChunks
<1>7. ASSUME NEW i \in 1 .. m + n, i \notin 1 .. m
      PROVE  \E k \in 1 .. n : i = m + k /\ out'[i] = <<df, Position + k - 1>>
  <2>1. PICK k \in 1 .. n : i = m + k
      BY <1>2, <1>7, AddedIndex
  <2> QED BY <1>1, <2>1
<1>8. ASSUME NEW c \in cut'
      PROVE  \/ c \in cut
             \/ n > 0 /\ c = out'[m + n]
    BY <1>1
<1>9. cut' # {} => short'
    BY <1>1 DEF CutsSoFar
<1>10. \A c \in cut : \E j \in 1 .. m : c = out[j]
    BY <1>2 DEF CutsSoFar, ToSet
<1>11. ASSUME NEW c \in cut'
       PROVE  /\ c \in ToSet(out')
              /\ \A y \in ToSet(out') \ {c} : SameChunk(c, y) => Before(y, c)
  <2>1. CASE c \in cut
    <3>1. PICK j \in 1 .. m : c = out[j]
        BY <1>10, <2>1
    <3>2. j \in 1 .. m + n /\ out'[j] = c
        BY <1>1, <1>2, <3>1
    <3>3. c \in ToSet(out')
        BY <1>1, <3>2 DEF ToSet
    <3>4. ASSUME NEW i \in 1 .. m + n, out'[i] # c, SameChunk(c, out'[i])
          PROVE  Before(out'[i], c)
      <4>1. CASE i \in 1 .. m
        <5>1. out'[i] = out[i] /\ out[i] \in ToSet(out) \ {c}
            BY <1>1, <1>2, <3>4, <4>1 DEF ToSet
        <5> QED BY <2>1, <3>4, <5>1 DEF CutsSoFar
      <4>2. CASE i \notin 1 .. m
        <5>1. PICK k \in 1 .. n : out'[i] = <<df, Position + k - 1>>
            BY <1>7, <4>2
        <5> QED BY <1>6, <3>1, <3>4, <5>1
      <4> QED BY <4>1, <4>2
    <3> QED BY <1>1, <3>3, <3>4 DEF ToSet
  <2>2. CASE n > 0 /\ c = out'[m + n]
    <3>1. m + n \in 1 .. m + n /\ \A i \in 1 .. m + n : i # m + n => i < m + n
        BY <1>2, <2>2
    <3>2. \A i \in 1 .. m + n : out'[i] # c => Before(out'[i], c)
        BY <1>5, <2>2, <3>1
    <3> QED BY <1>1, <2>2, <3>1, <3>2 DEF ToSet
  <2> QED BY <1>8, <2>1, <2>2
<1>12. ASSUME NEW i \in 1 .. m + n, i > 1, out'[i - 1] \in cut'
       PROVE  out'[i][2] % chunk_size = 0 /\ ~SameChunk(out'[i - 1], out'[i])
  <2>1. i - 1 \in 1 .. m + n /\ i - 1 < i
      BY <1>2, <1>12
  <2>2. Before(out'[i - 1], out'[i])
      BY <1>5, <2>1
  <2>3. i - 1 \in 1 .. m
    <3> SUFFICES ASSUME i - 1 \notin 1 .. m PROVE FALSE
        OBVIOUS
    <3>1. PICK k \in 1 .. n : i - 1 = m + k /\ out'[i - 1] = <<df, Position + k - 1>>
        BY <1>7, <2>1
    <3>2. out'[i - 1] \notin cut
      <4> SUFFICES ASSUME out'[i - 1] \in cut PROVE FALSE
          OBVIOUS
      <4>1. PICK j \in 1 .. m : out'[i - 1] = out[j]
          BY <1>10
      <4>2. j \in 1 .. m + n /\ j < i - 1 /\ out'[j] = out[j]
          BY <1>1, <1>2, <2>1, <3>1
      <4>3. Before(out'[i - 1], out'[i - 1])
          BY <1>5, <2>1, <4>1, <4>2
      <4>4. Position + k - 1 \in Int /\ df \in Int
          BY <1>2 DEF Types, LoopTypes
      <4> QED BY <3>1, <4>3, <4>4 DEF Before
    <3>3. out'[i - 1] = out'[m + n] /\ n > 0
        BY <1>8, <1>12, <3>2
    <3>4. out'[m + n] = <<df, Position + n - 1>>
        BY <1>1, <3>3
    <3>5. Position + k - 1 = Position + n - 1
        BY <3>1, <3>3, <3>4
    <3>6. i - 1 = m + n
        BY <1>2, <3>1, <3>5
    <3> QED BY <1>2, <3>6
  <2>4. out'[i - 1] = out[i - 1] /\ out[i - 1] \in cut
    <3>1. out'[i - 1] = out[i - 1]
        BY <1>1, <2>3
    <3>2. ~(n > 0 /\ out'[i - 1] = out'[m + n])
      <4> SUFFICES ASSUME n > 0, out'[i - 1] = out'[m + n] PROVE FALSE
          OBVIOUS
      <4>1. m + n \in 1 .. m + n /\ i - 1 < m + n /\ n \in 1 .. n
          BY <1>2, <2>3
      <4>2. Before(out'[i - 1], out'[i - 1])
          BY <1>5, <2>1, <4>1
      <4>3. out'[i - 1][1] \in Nat /\ out'[i - 1][2] \in Nat
          BY <1>4, <2>3, <3>1
      <4> QED BY <4>2, <4>3 DEF Before
    <3> QED BY <1>8, <1>12, <3>1, <3>2
  <2>5. CASE i \in 1 .. m
    <3>1. out'[i] = out[i] /\ i \in DOMAIN out
        BY <1>1, <1>2, <2>5
    <3> QED BY <1>12, <2>4, <3>1 DEF CutsSoFar
  <2>6. CASE i \notin 1 .. m
    <3>1. PICK k \in 1 .. n : i = m + k /\ out'[i] = <<df, Position + k - 1>>
        BY <1>7, <2>6
    <3>2. k = 1
        BY <1>2, <2>3, <3>1
    <3>3. out'[i][2] = q * chunk_size
        BY <1>2, <1>3, <3>1, <3>2
    <3>4. (q * chunk_size) % chunk_size = 0
        BY <1>2, MultipleHasNoRest
    <3> QED BY <1>6, <2>3, <2>4, <3>1, <3>3, <3>4
  <2> QED BY <2>5, <2>6
<1>13. \A i \in DOMAIN out' : i > 1 /\ out'[i - 1] \in cut' =>
          out'[i][2] % chunk_size = 0 /\ ~SameChunk(out'[i - 1], out'[i])
    BY <1>1, <1>12
<1> QED BY <1>2, <1>9, <1>11, <1>13 DEF CutsSoFar, Before, SameChunk

\* What has not been passed in a frame is not in it: the next frame can begin.
LEMMA NextFrameLines ==
    ASSUME Types, RoundsAreWhole, LinesSoFar, RowsSoFar, CutsSoFar, NextFrame
    PROVE  WholeChunks' /\ LinesSoFar' /\ RowsSoFar' /\ CutsSoFar'
<1>1. /\ heights \in Seq(Nat) /\ chunk_size \in Nat /\ df \in Nat /\ out \in Seq(Row)
      /\ Position \in Nat /\ Position' = 0 /\ (df \in DOMAIN heights => Position >= Height)
    BY PositionType, PositionSteps DEF Types, ArgumentTypes, LoopTypes, OutTypes
<1>2. df' = df + 1 /\ UNCHANGED <<AllRows, chunk_size, out, cut, short>>
    BY DEF NextFrame, arguments, AllRows
<1>3. WholeChunks'
  <2>1. Position' = 0 * chunk_size'
      BY <1>1, <1>2
  <2> QED BY <2>1 DEF WholeChunks
<1>4. \A x \in AllRows : x[1] \in Nat /\ x[2] \in Nat /\ (Passed(x) <=> x[1] < df + 1)
  <2> SUFFICES ASSUME NEW x \in AllRows
               PROVE  x[1] \in Nat /\ x[2] \in Nat /\ (Passed(x) <=> x[1] < df + 1)
      OBVIOUS
  <2>1. x[1] \in DOMAIN heights /\ x[1] \in Nat /\ x[2] \in 0 .. heights[x[1]] - 1
      BY <1>1, RowsAre
  <2>2. heights[x[1]] \in Nat
      BY <1>1, <2>1
  <2>3. x[2] \in Nat /\ x[2] < heights[x[1]]
      BY <2>1, <2>2
  <2>4. x[1] = df => x[2] < Position
      BY <1>1, <2>1, <2>2, <2>3 DEF Height
  <2> QED BY <1>1, <2>1, <2>3, <2>4 DEF Passed
<1>5. \A x \in AllRows : (x[1] < df + 1 \/ (x[1] = df + 1 /\ x[2] < 0)) <=> Passed(x)
    BY <1>4
<1>6. LinesSoFar'
    BY <1>1, <1>2, <1>5 DEF LinesSoFar, Passed, Before
<1>7. RowsSoFar'
    BY <1>1, <1>2, <1>5 DEF RowsSoFar, Passed, Before, SameChunk
<1>8. CutsSoFar'
    BY <1>2 DEF CutsSoFar, Before, SameChunk, ToSet
<1> QED BY <1>3, <1>6, <1>7, <1>8

LEMMA ChunksWhole ==
    ASSUME Types, RoundsAreWhole, WholeChunks, WriteBuffer PROVE WholeChunks'
<1>1. Position' = Position + chunk_size /\ chunk_size' = chunk_size /\ chunk_size \in Nat
    BY PositionSteps DEF WriteBuffer, arguments, Types, ArgumentTypes
<1>2. PICK q \in Nat : Position = q * chunk_size
    BY DEF WholeChunks
<1>3. (q + 1) * chunk_size = q * chunk_size + chunk_size /\ q + 1 \in Nat
    BY <1>1
<1> QED BY <1>1, <1>2, <1>3 DEF WholeChunks

----------------------------------------------------------------------------
\* The invariant

LEMMA InitInv == Init => IInv
<1> SUFFICES ASSUME Init PROVE IInv
    OBVIOUS
<1>1. ArgumentTypes
    BY FramesAssumption, SizesAssumption DEF Init, ArgumentTypes
<1>2. /\ df = 1 /\ n_rows_finished = 0 /\ drained = 0 /\ out = <<>> /\ cut = {} /\ short = FALSE
      /\ workers = [t \in Threads |-> "waiting"] /\ buffers = [t \in Threads |-> <<>>]
      /\ write_buffer_pool = [i \in 1 .. n_threads |-> <<>>] /\ free_iters = n_threads
    BY DEF Init
<1>3. write_buffer_pool \in Seq({<<>>}) /\ Len(write_buffer_pool) = n_threads
    BY <1>1, <1>2, IsASeq DEF ArgumentTypes
<1>4. LoopTypes /\ BufferTypes /\ OutTypes
  <2>1. LoopTypes
      BY <1>1, <1>2 DEF ArgumentTypes, LoopTypes, Rounds
  <2>2. <<>> \in Seq(Row)
      OBVIOUS
  <2>3. BufferTypes
      BY <1>1, <1>2, <1>3, <2>2 DEF ArgumentTypes, BufferTypes
  <2>4. OutTypes
      BY <1>2, <2>2 DEF OutTypes
  <2> QED BY <2>1, <2>3, <2>4
<1>5. InState("waiting") = Threads /\ InState("filling") = {}
    BY <1>2 DEF InState
<1>6. RoundsAreWhole
    BY <1>2, <1>5 DEF RoundsAreWhole
<1>7. PoolsCount
    BY <1>1, <1>2, <1>3, <1>5, ThreadsFinite, FS_EmptySet DEF PoolsCount, ArgumentTypes
<1>8. BuffersHoldChunks
    BY <1>2 DEF BuffersHoldChunks
<1>9. 0 * chunk_size = 0 /\ Position = 0
    BY <1>1, <1>2 DEF Position, ArgumentTypes
<1>10. WholeChunks
    BY <1>9 DEF WholeChunks
<1>11. LinesSoFar
    BY <1>2 DEF LinesSoFar
<1>12. ASSUME NEW x \in AllRows PROVE ~Passed(x)
  <2>1. x[1] \in DOMAIN heights /\ x[1] \in Nat /\ x[2] \in 0 .. heights[x[1]] - 1
      BY <1>1, RowsAre DEF ArgumentTypes
  <2>2. x[1] >= 1 /\ heights[x[1]] \in Nat
      BY <1>1, <2>1 DEF ArgumentTypes
  <2> QED BY <1>2, <1>9, <2>1, <2>2 DEF Passed
<1>13. RowsSoFar
    BY <1>12 DEF RowsSoFar
<1>14. CutsSoFar
    BY <1>2 DEF CutsSoFar
<1> QED BY <1>1, <1>4, <1>6, <1>7, <1>8, <1>10, <1>11, <1>13, <1>14 DEF IInv, Types

LEMMA NextInv == IInv /\ [Next]_vars => IInv'
<1> SUFFICES ASSUME IInv, [Next]_vars PROVE IInv'
    OBVIOUS
<1> USE DEF IInv
<1>1. Types' /\ RoundsAreWhole' /\ PoolsCount' /\ BuffersHoldChunks'
    BY TypesHold, RoundsHold, PoolsHold, BuffersHold
<1>2. CASE WriteBuffer
    BY <1>1, <1>2, ChunksWhole, LinesHold, RowsHold, CutsHold
<1>3. CASE NextFrame
    BY <1>1, <1>3, NextFrameLines
<1>4. CASE EndRound
  <2>1. UNCHANGED <<heights, chunk_size, df, Position, out, cut, short>>
      BY <1>4, PositionSteps DEF EndRound, EndRoundAt, arguments
  <2> QED BY <1>1, <2>1, LinesSame
<1>5. CASE (\E t \in Threads : GetBuffer(t) \/ FillBuffer(t)) \/ UNCHANGED vars
  <2>1. UNCHANGED <<heights, chunk_size, df, n_rows_finished, drained, out, cut, short>>
      BY <1>5 DEF GetBuffer, FillBuffer, vars, arguments
  <2>2. UNCHANGED Position
      BY <2>1, PositionSame
  <2> QED BY <1>1, <2>1, <2>2, LinesSame
<1> QED BY <1>2, <1>3, <1>4, <1>5 DEF Next, Finished

LEMMA Invariant == Spec => []IInv
BY InitInv, NextInv, PTL DEF Spec

----------------------------------------------------------------------------
\* The lines of the file are in the order of the frames and rows, and none is
\* there twice, whatever the threads do first and what the writer refuses: the
\* buffers are drained in order, and each is empty before it is filled again.
THEOREM LinesAreInOrder == Spec => []LinesInOrder
<1>1. IInv => LinesInOrder
    BY DEF IInv, LinesSoFar, LinesInOrder, ToSet
<1> QED BY <1>1, Invariant, PTL

\* A writer that takes all it is given has every row when the call returns.  If it
\* does not, only the ends of chunks are missing, and first lines of chunks that
\* are glued to a line that was cut.
THEOREM OnlyShortWritesLoseRows == Spec => []OnlyShortWritesLose
<1>1. IInv => OnlyShortWritesLose
  <2> SUFFICES ASSUME IInv, Returned PROVE
          /\ short \/ Lines = AllRows
          /\ \A x \in AllRows \ Lines : EndOfShortWrite(x) \/ AfterCutLine(x)
      BY DEF OnlyShortWritesLose
  <2>1. heights \in Seq(Nat) /\ df \in Nat /\ df > Len(heights)
      BY DEF IInv, Types, ArgumentTypes, LoopTypes, Returned
  <2>2. \A x \in AllRows : Passed(x)
      BY <2>1, RowsAre DEF Passed
  <2>3. ToSet(out) \subseteq AllRows
      BY DEF IInv, LinesSoFar, ToSet
  <2>4. ASSUME ~short PROVE Lines = AllRows
    <3>1. cut = {}
        BY <2>4 DEF IInv, CutsSoFar
    <3>2. Lines = ToSet(out)
        BY <3>1 DEF Lines, HasLine, ToSet
    <3>3. AllRows \subseteq ToSet(out)
        BY <2>2, <2>4 DEF IInv, RowsSoFar
    <3> QED BY <2>3, <3>2, <3>3
  <2>5. ASSUME NEW x \in AllRows, x \notin Lines
        PROVE  EndOfShortWrite(x) \/ AfterCutLine(x)
    <3>1. CASE x \notin ToSet(out)
        BY <2>2, <3>1 DEF IInv, RowsSoFar, EndOfShortWrite
    <3>2. CASE x \in cut
        BY <3>2 DEF IInv, CutsSoFar, EndOfShortWrite
    <3>3. CASE x \in ToSet(out) /\ x \notin cut
      <4>1. PICK i \in DOMAIN out : x = out[i]
          BY <3>3 DEF ToSet
      <4>2. i > 1 /\ out[i - 1] \in cut
          BY <2>5, <3>3, <4>1 DEF Lines, HasLine
      <4>3. x[2] % chunk_size = 0 /\ ~SameChunk(out[i - 1], x)
          BY <4>1, <4>2 DEF IInv, CutsSoFar
      <4>4. i - 1 \in DOMAIN out /\ i - 1 < i
          BY <4>1, <4>2 DEF IInv, Types, OutTypes
      <4>5. Before(out[i - 1], x)
          BY <4>1, <4>4 DEF IInv, LinesSoFar
      <4> QED BY <4>2, <4>3, <4>5 DEF AfterCutLine
    <3> QED BY <3>1, <3>2, <3>3
  <2> QED BY <2>4, <2>5
<1> QED BY <1>1, Invariant, PTL

\* No thread finds a pool used up, which would panic: the buffers and iterators
\* that are not at rest are those of the other threads.
THEOREM PoolsAlwaysSuffice == Spec => []PoolsSuffice
<1>1. IInv => PoolsSuffice
    BY PoolsAreEnough DEF IInv
<1> QED BY <1>1, Invariant, PTL
=============================================================================
