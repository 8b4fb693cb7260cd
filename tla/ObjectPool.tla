----------------------------- MODULE ObjectPool -----------------------------
(***************************************************************************)
(* ObjectPool: slots in chunks, linked into a list of available ones. A    *)
(* slot is its number, counted over the chunks; a pool is the number of    *)
(* its slots and the list. available_count_ is kept beside the list by the *)
(* code, and so it is here.                                                *)
(***************************************************************************)
EXTENDS Integers, SequencesExt

CONSTANT ChunkSize

EmptyPool == [capacity |-> 0, available |-> <<>>, count |-> 0]

\* add_chunk, once every object of the chunk is constructed: the slots are linked in
\* front of the list.
WithChunk(pool) ==
    [capacity |-> pool.capacity + ChunkSize,
     available |-> [i \in 1..ChunkSize |-> pool.capacity + i] \o pool.available,
     count |-> pool.count + ChunkSize]

\* The pools acquire may take a slot from: a chunk is added when none is available.
\* Making one may throw, which destroys what was constructed and changes nothing.
Stocked(pool) == IF pool.available = <<>> THEN WithChunk(pool) ELSE pool

\* acquire: the slot, and the pool without it.
Taken(pool) == Head(Stocked(pool).available)
Acquired(pool) ==
    LET p == Stocked(pool) IN
    [p EXCEPT !.available = Tail(@), !.count = @ - 1]

\* release. The object is reset by the caller's view of it.
Released(pool, slot) ==
    [pool EXCEPT !.available = <<slot>> \o @, !.count = @ + 1]

\* Slots that are released one after the other: the last is the first to be taken.
AllReleased(pool, slots) ==
    [pool EXCEPT !.available = Reverse(slots) \o @, !.count = @ + Len(slots)]

\* acquired_count.
InUse(pool) == pool.capacity - pool.count
=============================================================================
