----------------------------- MODULE ReadCache -----------------------------
(***************************************************************************)
(* The read cache of the file client (cache/cache.go, memory.go, disk.go)  *)
(* with the readers and writers that use it (vfs/reader.go, vfs/writer.go).*)
(* A file's blocks are kept under keys <<id, index>>, where the id of a    *)
(* file is made on its first read; invalidating a file drops its id.  A    *)
(* read that misses hands the blocks it read to a goroutine that saves     *)
(* them later.  A file's content is the number of the last write to it.    *)
(***************************************************************************)
EXTENDS Naturals, Sequences, FiniteSets, Functions

CONSTANTS
    Files, Readers,
    Blocks,      \* blocks of a file: 0..Blocks-1
    MaxVersion,  \* bound on writes
    MaxIds,      \* bound on ids made
    MaxReads     \* bound on reads

VARIABLES
    buffered,  \* does the storage publish a write only at Flush (an object store)?
    content,   \* file -> version in the storage
    written,   \* file -> version written through the open writer
    meta,      \* file -> id; 0 is no id (the empty string)
    nextId,    \* ids made so far
    tiers,     \* the tiers configured: "mem", "disk"
    cache,     \* tier -> key -> data; data is <<file, version>>
    fills,     \* set of running setCache goroutines
    reader,    \* what each reader is doing
    writer,    \* file -> "idle", or what its writer is about to do
    reads,     \* reads so far, each numbered
    flushed,   \* history: file -> version of the last finished Flush
    late,      \* history: files read from the storage across a Flush
    stray      \* history: was a block saved under the key of the empty id?

vars == <<buffered, content, written, meta, nextId, tiers, cache, fills, reader,
          writer, reads, flushed, late, stray>>

NoId == 0
NoData == <<>>
Key(id, i) == <<id, i>>
Idle == [at |-> "idle"]
With(f, k, v) == [x \in DOMAIN f \cup {k} |-> IF x = k THEN v ELSE f[x]]

(* ------------------------------- reading -------------------------------- *)

\* rCache.key: a file without an id gets one, and the caller gets the key of none.
TakeKey(f) ==
    IF meta[f] # NoId THEN UNCHANGED <<meta, nextId>>
    ELSE nextId < MaxIds /\ meta' = [meta EXCEPT ![f] = nextId + 1] /\ nextId' = nextId + 1

\* ReadAt, first part: the index and the key of the block.
ReadStart(r, f, i) ==
    /\ reader[r].at = "idle" /\ reads < MaxReads
    /\ TakeKey(f)
    /\ reader' = [reader EXCEPT ![r] =
            [at |-> "load", file |-> f, index |-> i, key |-> Key(meta[f], i),
             need |-> IF f \in late THEN 0 ELSE flushed[f]]]
    /\ reads' = reads + 1
    /\ UNCHANGED <<buffered, content, written, tiers, cache, fills, writer, flushed, late, stray>>

\* readCache: memory first, then disk.
Load(r) ==
    LET k == reader[r].key
        hit == {t \in tiers : k \in DOMAIN cache[t]}
        t == IF "mem" \in hit THEN "mem" ELSE "disk"
    IN  /\ reader[r].at = "load"
        /\ reader' = [reader EXCEPT ![r] =
              IF hit = {} THEN [@ EXCEPT !.at = "storage"]
              ELSE [at |-> "done", file |-> @.file, need |-> @.need, got |-> cache[t][k]]]
        /\ UNCHANGED <<buffered, content, written, meta, nextId, tiers, cache, fills,
                       writer, reads, flushed, late, stray>>

\* A miss reads two blocks from the storage and starts a goroutine that saves them.
ReadAhead == 2
ReadStorage(r) ==
    LET f == reader[r].file
        d == <<f, content[f]>>
    IN  /\ reader[r].at = "storage"
        /\ fills' = fills \cup {[file |-> f, data |-> d, by |-> reads,
                                 todo |-> {i \in reader[r].index..(reader[r].index + ReadAhead - 1) :
                                              i < Blocks}]}
        /\ reader' = [reader EXCEPT ![r] =
                        [at |-> "done", file |-> f, need |-> @.need, got |-> d]]
        /\ late' = IF writer[f] = "publish" THEN late \cup {f} ELSE late
        /\ UNCHANGED <<buffered, content, written, meta, nextId, tiers, cache, writer,
                       reads, flushed, stray>>

Return(r) ==
    /\ reader[r].at = "done"
    /\ reader' = [reader EXCEPT ![r] = Idle]
    /\ UNCHANGED <<buffered, content, written, meta, nextId, tiers, cache, fills, writer,
                   reads, flushed, late, stray>>

\* setCache: the blocks in order, each under the key the file has at that time.
\* The disk may have no room for the block, or fail to write it.
SetCache(x) ==
    LET i == CHOOSE j \in x.todo : \A l \in x.todo : j <= l
        k == Key(meta[x.file], i)
        rest == x.todo \ {i}
    IN  /\ TakeKey(x.file)
        /\ stray' = (stray \/ meta[x.file] = NoId)
        /\ \E saves \in {tiers, tiers \ {"disk"}} :
              cache' = [t \in tiers |-> IF t \in saves THEN With(cache[t], k, x.data) ELSE cache[t]]
        /\ fills' = (fills \ {x}) \cup (IF rest = {} THEN {} ELSE {[x EXCEPT !.todo = rest]})
        /\ UNCHANGED <<buffered, content, written, tiers, reader, writer, reads, flushed, late>>

\* A block leaves a tier: the least recently used, an expired one, or one cleaned from the disk.
Drop(t, k) ==
    /\ cache' = [cache EXCEPT ![t] = Restrict(@, DOMAIN @ \ {k})]
    /\ UNCHANGED <<buffered, content, written, meta, nextId, tiers, fills, reader, writer,
                   reads, flushed, late, stray>>

(* ------------------------------- writing -------------------------------- *)

\* InvalidateCache: the file loses its id, and a goroutine deletes the old blocks
\* (nobody finds them any more, so their deletion is part of this step).
Pending(f) == \E x \in fills : x.file = f
Reading(f) == \E r \in Readers : reader[r].at \in {"load", "storage"} /\ reader[r].file = f
Invalidate(f) ==
    /\ meta' = [meta EXCEPT ![f] = NoId]
    /\ cache' = IF meta[f] = NoId THEN cache
                ELSE [t \in tiers |-> Restrict(cache[t], {k \in DOMAIN cache[t] : k[1] # meta[f]})]

\* Write: drop the file's blocks, then write to the storage.
WriteStart(f) ==
    /\ writer[f] \in {"idle", "open"} /\ \A g \in Files : content[g] < MaxVersion /\ written[g] < MaxVersion
    /\ Invalidate(f)
    /\ writer' = [writer EXCEPT ![f] = "write"]
    /\ UNCHANGED <<buffered, content, written, nextId, tiers, fills, reader, reads, flushed, late, stray>>

WriteAt(f) ==
    /\ writer[f] = "write"
    /\ written' = [written EXCEPT ![f] = @ + 1]
    /\ content' = IF buffered THEN content ELSE [content EXCEPT ![f] = written[f] + 1]
    /\ writer' = [writer EXCEPT ![f] = "open"]
    /\ UNCHANGED <<buffered, meta, nextId, tiers, cache, fills, reader, reads, flushed, late, stray>>

\* Mutant: the blocks of the time before the last write stay.
FlushKeeps(f) ==
    /\ writer[f] = "open" /\ writer' = [writer EXCEPT ![f] = "publish"]
    /\ late' = IF Pending(f) \/ Reading(f) THEN late \cup {f} ELSE late
    /\ UNCHANGED <<buffered, content, written, meta, nextId, tiers, cache, fills, reader, reads, flushed, stray>>
\* Flush (of the caller, or on Close): drop the blocks again, then flush the handle.
\* Data of a fill or a read under way was read before: it may be saved after.
Flush(f) ==
    /\ writer[f] = "open"
    /\ Invalidate(f)
    /\ writer' = [writer EXCEPT ![f] = "publish"]
    /\ late' = IF Pending(f) \/ Reading(f) THEN late \cup {f} ELSE late
    /\ UNCHANGED <<buffered, content, written, nextId, tiers, fills, reader, reads, flushed, stray>>

Publish(f) ==
    /\ writer[f] = "publish"
    /\ content' = [content EXCEPT ![f] = written[f]]
    /\ flushed' = [flushed EXCEPT ![f] = written[f]]
    /\ writer' = [writer EXCEPT ![f] = "idle"]
    /\ UNCHANGED <<buffered, written, meta, nextId, tiers, cache, fills, reader, reads, late, stray>>

Init ==
    /\ buffered \in BOOLEAN
    /\ content = [f \in Files |-> 1] /\ written = [f \in Files |-> 1]
    /\ meta = [f \in Files |-> NoId] /\ nextId = 0
    /\ tiers \in (SUBSET {"mem", "disk"}) \ {{}}
    /\ cache = [t \in tiers |-> <<>>]
    /\ fills = {} /\ reader = [r \in Readers |-> Idle]
    /\ writer = [f \in Files |-> "idle"]
    /\ reads = 0 /\ flushed = [f \in Files |-> 1] /\ late = {} /\ stray = FALSE

Next ==
    \/ \E r \in Readers : \/ \E f \in Files, i \in 0..Blocks - 1 : ReadStart(r, f, i)
                          \/ Load(r) \/ ReadStorage(r) \/ Return(r)
    \/ \E x \in fills : SetCache(x)
    \/ \E t \in tiers : \E k \in DOMAIN cache[t] : Drop(t, k)
    \/ \E f \in Files : WriteStart(f) \/ WriteAt(f) \/ Flush(f) \/ Publish(f)

Spec == Init /\ [][Next]_vars

(* ------------------------------ properties ------------------------------ *)

Answered == {r \in Readers : reader[r].at = "done"}

\* A read that starts after a Flush returned gets what was flushed, or newer, unless
\* data of the file was on its way into the cache when the Flush dropped its blocks,
\* or a block was ever saved under the key of the empty id.
ReadsAreFresh == ~stray => \A r \in Answered : reader[r].got[2] >= reader[r].need

\* A read never gets another file's data, as long as no block was saved
\* after its file lost its id (setCache then asks for a key again, and gets the
\* one of the empty id, which every first read looks under).
NoForeignData == ~stray => \A r \in Answered : reader[r].got[1] = reader[r].file

\* What a read answers is the file's own data, and no older than the last Flush.
ReadsAreRight == ReadsAreFresh /\ NoForeignData

(* ---------------- the inductive invariant behind the proof -------------- *)

Data == Files \X Nat
Waits == [at : {"load", "storage"}, file : Files, index : 0..Blocks - 1,
          key : Nat \X (0..Blocks - 1), need : Nat]
Answers == [at : {"done"}, file : Files, need : Nat, got : Data]
Fills == {x \in [file : Files, data : Data, by : Nat, todo : SUBSET Nat] : x.data[1] = x.file}

TypeOK ==
    /\ buffered \in BOOLEAN /\ stray \in BOOLEAN /\ late \subseteq Files
    /\ content \in [Files -> Nat] /\ written \in [Files -> Nat] /\ flushed \in [Files -> Nat]
    /\ meta \in [Files -> Nat] /\ nextId \in Nat /\ reads \in Nat
    /\ writer \in [Files -> {"idle", "write", "open", "publish"}]
    /\ reader \in [Readers -> {Idle} \cup Waits \cup Answers]
    /\ fills \subseteq Fills
    /\ tiers \subseteq {"mem", "disk"} /\ cache = [t \in tiers |-> cache[t]]
    /\ \A t \in tiers : \A k \in DOMAIN cache[t] : cache[t][k] \in Data

\* Nobody waits for more than the storage has.
Versions ==
    /\ \A f \in Files : flushed[f] <= content[f] /\ content[f] <= written[f]
    /\ \A r \in Readers : reader[r].at \in {"load", "storage"} =>
          reader[r].need <= flushed[reader[r].file]

\* An id is of one file, and a dropped id of none, also for a read that still has
\* its key; a block is under the id of its file.
IdsAreOwn ==
    /\ \A f \in Files : meta[f] <= nextId
    /\ \A f, g \in Files : meta[f] = meta[g] /\ meta[f] # NoId => f = g
    /\ \A r \in Readers : reader[r].at = "load" =>
          /\ reader[r].key[1] <= nextId
          /\ \A f \in Files : meta[f] = reader[r].key[1] /\ meta[f] # NoId => f = reader[r].file
BlocksAreOwn ==
    \A t \in tiers : \A k \in DOMAIN cache[t] : \E f \in Files :
        meta[f] = k[1] /\ meta[f] # NoId /\ cache[t][k][1] = f

\* What is kept, or on its way into the cache, is no older than the last Flush, but
\* for files with something under way at a Flush; even of these no read gets older
\* data than it waits for.
IsFresh(d) ==
    /\ d[1] \in late \/ (flushed[d[1]] <= d[2] /\ writer[d[1]] # "publish")
    /\ \A r \in Readers : reader[r].at = "load" /\ reader[r].file = d[1] => reader[r].need <= d[2]
HeldIsFresh ==
    /\ \A t \in tiers : \A k \in DOMAIN cache[t] : IsFresh(cache[t][k])
    /\ \A x \in fills : IsFresh(x.data)

CacheInv ==
    /\ TypeOK /\ Versions /\ IdsAreOwn
    /\ ~stray => BlocksAreOwn /\ HeldIsFresh /\ ReadsAreRight
=============================================================================
