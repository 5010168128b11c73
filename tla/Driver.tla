------------------------------- MODULE Driver -------------------------------
(***************************************************************************)
(* The driver of the allocator lab, lab06_malloc/mdriver.c: it replays     *)
(* traces against the package, checks where the payloads lie and what they *)
(* hold, and measures utilization and speed.  The package is any allocator *)
(* that answers the same calls on an empty heap in the same way.           *)
(***************************************************************************)
EXTENDS Integers, FiniteSetsExt, SequencesExt

CONSTANTS
    TraceFiles,    \* traces: [num_ids, num_ops, ops], ops a sequence of
                   \* [type, index, size] with type "a", "r" or "f"
    NumTraces,     \* num_tracefiles
    HeapSize,      \* bytes of the heap after mm_init
    ALIGNMENT,
    FillBase       \* values of a byte (256 in the code), half of them negative

ASSUME DriverAssumption ==
    /\ NumTraces \in Nat /\ HeapSize \in Nat \ {0} /\ ALIGNMENT \in Nat \ {0}
    /\ FillBase \in Nat \ {0, 1}
    /\ \A f \in TraceFiles :
           /\ f.num_ids \in Nat \ {0} /\ f.num_ops \in Nat
           /\ f.ops \in Seq([type : {"a", "r", "f"}, index : Nat, size : Nat])

VARIABLES
    pass,          \* read, libc_valid, libc_speed, valid, util, speed, summary, ...
    run_libc,      \* the loop over the files for libc is to come, or running
    traceno, trace,
    opnum,         \* i of the passes, from 1
    ranges,        \* the <<lo, hi>> of the range list: no two have one lo
    since,         \* the order of the list: at which request each lo was put in
    blocks, block_sizes,
    bytes,         \* what the heap holds
    answers,       \* history: what the allocator answered in eval_mm_valid
    granted,       \* history: the payloads it gave out and got not back
    honest,        \* history: whether all of that was right
    why,           \* history: what malloc_error said last in this trace
    errors,
    valid,         \* mm_stats[].valid
    total_size, max_total_size,
    reported       \* whether main printed a performance index

driverVars == <<pass, run_libc, traceno, trace, opnum, ranges, since, blocks, block_sizes, bytes,
                answers, granted, honest, why, errors, valid, total_size, max_total_size, reported>>
heapVars == <<ranges, since, bytes, answers, granted, honest>>
sumVars == <<errors, valid, reported>>
totals == <<total_size, max_total_size>>

Op == trace.ops[opnum]
AtOp(type) == opnum <= trace.num_ops /\ Op.type = type
NoTrace == [num_ids |-> 0, num_ops |-> 0, ops |-> <<>>]
Junk == [a \in 0 .. HeapSize - 1 |-> -1]
NeverIn == [a \in 0 .. HeapSize - 1 |-> 0]

DriverInit ==
    /\ pass = "main" /\ run_libc = FALSE /\ traceno = 0 /\ trace = NoTrace /\ opnum = 1
    /\ ranges = {} /\ since = NeverIn /\ blocks = <<>> /\ block_sizes = <<>> /\ bytes = Junk
    /\ answers = <<>> /\ granted = {} /\ honest = TRUE /\ why = "none" /\ errors = 0 /\ valid = <<>>
    /\ total_size = 0 /\ max_total_size = 0 /\ reported = FALSE

Options ==
    /\ pass = "main" /\ run_libc' \in BOOLEAN
    /\ pass' = "read" /\ traceno' = 1
    /\ UNCHANGED <<trace, opnum, heapVars, blocks, block_sizes, why, sumVars, totals>>

\* read_trace.  Its assertions hold of a file that says how many operations
\* and identifiers it has; any other ends the driver.
WellFormed(f) ==
    /\ f.num_ops = Len(f.ops)
    /\ Max({0} \cup {f.ops[i].index : i \in {j \in DOMAIN f.ops : f.ops[j].type # "f"}})
           = f.num_ids - 1

\* The requests before the i-th whose identifiers it finds in use: the last
\* for the identifier, and not a free.
Holders(f, i) ==
    {j \in 1 .. i - 1 : /\ f.ops[j].type # "f"
                       /\ \A l \in j + 1 .. i - 1 : f.ops[l].index # f.ops[j].index}

\* The driver does not look whether a request makes sense.  A trace, as all in
\* traces/ are, allocates what is free and moves or frees what is not.
ASSUME TraceAssumption ==
    \A f \in TraceFiles : WellFormed(f) =>
        \A i \in 1 .. f.num_ops :
            f.ops[i].type = "a" <=> \A j \in Holders(f, i) : f.ops[j].index # f.ops[i].index

ReadTrace ==
    /\ pass = "read" /\ traceno <= NumTraces
    /\ trace' \in TraceFiles /\ opnum' = 1 /\ why' = "none"
    /\ blocks' = [i \in 0 .. trace'.num_ids - 1 |-> -1] /\ block_sizes' = blocks'
    /\ pass' = IF ~WellFormed(trace') THEN "abort"
               ELSE IF run_libc THEN "libc_valid" ELSE "reset"
    /\ UNCHANGED <<run_libc, traceno, heapVars, sumVars, totals>>

\* The libc passes: an allocation that fails ends the driver.
LibcOp ==
    /\ pass \in {"libc_valid", "libc_speed"} /\ opnum <= trace.num_ops
    /\ \/ /\ Op.type # "f" /\ pass' = "exit" /\ UNCHANGED <<opnum, blocks>>
       \/ /\ blocks' = IF Op.type = "f" THEN blocks ELSE [blocks EXCEPT ![Op.index] = -2]
          /\ opnum' = opnum + 1 /\ UNCHANGED pass
    /\ UNCHANGED <<run_libc, traceno, trace, heapVars, block_sizes, why, sumVars, totals>>
LibcEnd ==
    /\ pass \in {"libc_valid", "libc_speed"} /\ opnum > trace.num_ops
    /\ pass' = (IF pass = "libc_valid" THEN "libc_speed" ELSE "free") /\ opnum' = 1
    /\ UNCHANGED <<run_libc, traceno, trace, heapVars, blocks, block_sizes, why, sumVars, totals>>

\* The beginning of eval_mm_valid: mem_reset_brk, clear_ranges, mm_init, which
\* may find no memory.
MmInit ==
    /\ pass = "reset"
    /\ ranges' = {} /\ since' = NeverIn /\ bytes' = Junk /\ answers' = <<>> /\ granted' = {} /\ honest' = TRUE
    /\ \/ pass' = "valid" /\ UNCHANGED <<why, errors, valid>>
       \/ pass' = "free" /\ why' = "null" /\ errors' = errors + 1 /\ valid' = Append(valid, FALSE)
    /\ UNCHANGED <<run_libc, traceno, trace, opnum, blocks, block_sizes, reported, totals>>

(***************************************************************************)
(* eval_mm_valid                                                           *)
(***************************************************************************)

Aligned(p) == p % ALIGNMENT = 0
InHeap(p, size) == p \in 0 .. HeapSize - 1 /\ p + size - 1 \in 0 .. HeapSize - 1

\* Mutated: only the first byte of the new payload is looked for.
OverlapLow(lo, hi, r) == lo \in r[1] .. r[2]

\* The test of add_range on one range of the list: an end of the new one
\* lies in it.
Overlap(lo, hi, r) == lo \in r[1] .. r[2] \/ hi \in r[1] .. r[2]

\* What add_range says of a payload, "none" when it takes it.
add_range(rs, p, size) ==
    IF size = 0 THEN "assert"
    ELSE IF ~Aligned(p) THEN "alignment"
    ELSE IF ~InHeap(p, size) THEN "outside"
    ELSE IF \E r \in rs : Overlap(p, p + size - 1, r) THEN "overlap"
    ELSE "none"
remove_range(rs, p) == {r \in rs : r[1] # p}

Truly(rs, p, size) ==
    /\ Aligned(p) /\ InHeap(p, size)
    /\ \A r \in rs : (p .. p + size - 1) \cap (r[1] .. r[2]) = {}

\* The byte memset writes, and what the comparison in eval_mm_valid reads
\* of it through a pointer to signed char.
Fill(index) == index % FillBase
Signed(byte) == IF byte >= FillBase \div 2 THEN byte - FillBase ELSE byte
FillBytes(m, p, size, index) == [a \in DOMAIN m |-> IF a \in p .. p + size - 1 THEN Fill(index) ELSE m[a]]

\* malloc_error, after which the trace is not valid.
Failed(reason) ==
    /\ why' = reason
    /\ IF reason = "assert" THEN pass' = "abort" /\ UNCHANGED <<errors, valid>>
       ELSE pass' = "free" /\ errors' = errors + 1 /\ valid' = Append(valid, FALSE)
    /\ UNCHANGED <<reported, opnum, blocks, block_sizes, granted>>

\* The range put at the head of the list.
PutFirst(rs, p) == ranges' = rs \cup {<<p, p + Op.size - 1>>} /\ since' = [since EXCEPT ![p] = opnum]

Accepted(rs, p) ==
    /\ PutFirst(rs, p)
    /\ granted' = (IF Op.type = "r" THEN remove_range(granted, blocks[Op.index]) ELSE granted)
                   \cup {<<p, p + Op.size - 1>>}
    /\ blocks' = [blocks EXCEPT ![Op.index] = p]
    /\ block_sizes' = [block_sizes EXCEPT ![Op.index] = Op.size]
    /\ opnum' = opnum + 1 /\ UNCHANGED <<pass, why, sumVars>>

\* mm_malloc answers NULL, here -1, or any address.
Pointers == -1 .. HeapSize
ValidAlloc ==
    /\ pass = "valid" /\ AtOp("a")
    /\ \E p \in Pointers :
           /\ answers' = Append(answers, p)
           /\ honest' = (honest /\ (p = -1 \/ Truly(granted, p, Op.size)))
           /\ LET said == IF p = -1 THEN "null" ELSE add_range(ranges, p, Op.size)
              IN  IF said = "none"
                  THEN Accepted(ranges, p) /\ bytes' = FillBytes(bytes, p, Op.size, Op.index)
                  ELSE Failed(said) /\ UNCHANGED <<ranges, since, bytes>>
    /\ UNCHANGED <<run_libc, traceno, trace, totals>>

\* mm_realloc copies the data, or loses them.
ValidRealloc ==
    /\ pass = "valid" /\ AtOp("r")
    /\ \E p \in Pointers, keeps \in BOOLEAN :
           LET old == blocks[Op.index]
               rest == remove_range(ranges, old)
               said == IF p = -1 THEN "null" ELSE add_range(rest, p, Op.size)
               common == Min({block_sizes[Op.index], Op.size})
               held == {IF keeps THEN bytes[old + j] ELSE -1 : j \in 0 .. common - 1}
               intact == held \subseteq {Fill(Op.index)}
               equal == \A byte \in held : Signed(byte) = Fill(Op.index)
           IN  /\ answers' = Append(answers, p)
               /\ honest' = (honest /\ (p = -1 \/ (Truly(remove_range(granted, old), p, Op.size) /\ intact)))
               /\ IF said = "none" /\ equal
                  THEN Accepted(rest, p) /\ bytes' = FillBytes(bytes, p, Op.size, Op.index)
                  ELSE /\ Failed(IF said = "none" THEN "data" ELSE said) /\ UNCHANGED bytes
                       /\ IF said = "none" THEN PutFirst(rest, p)
                          ELSE ranges' = (IF said = "null" THEN ranges ELSE rest) /\ UNCHANGED since
    /\ UNCHANGED <<run_libc, traceno, trace, totals>>

ValidFree ==
    /\ pass = "valid" /\ AtOp("f") /\ opnum' = opnum + 1
    /\ ranges' = remove_range(ranges, blocks[Op.index])
    /\ answers' = Append(answers, 0) /\ granted' = remove_range(granted, blocks[Op.index])
    /\ UNCHANGED <<pass, run_libc, traceno, trace, since, blocks, block_sizes, bytes, honest, why, sumVars, totals>>

ValidEnd ==
    /\ pass = "valid" /\ opnum > trace.num_ops /\ pass' = "util"
    /\ opnum' = 1 /\ valid' = Append(valid, TRUE)
    /\ total_size' = 0 /\ max_total_size' = 0
    /\ UNCHANGED <<run_libc, traceno, trace, heapVars, blocks, block_sizes, why, errors, reported>>

(***************************************************************************)
(* eval_mm_util and eval_mm_speed: the same answers, unchecked             *)
(***************************************************************************)

\* Mutated: the old size of a block that realloc moves stays in the sum.
ChangeKeepsOld == IF Op.type = "f" THEN -block_sizes[Op.index] ELSE Op.size

Change ==
    CASE Op.type = "a" -> Op.size
      [] Op.type = "r" -> Op.size - block_sizes[Op.index]
      [] Op.type = "f" -> -block_sizes[Op.index]

Replayed ==
    blocks' = IF Op.type = "f" THEN blocks ELSE [blocks EXCEPT ![Op.index] = answers[opnum]]

UtilOp ==
    /\ pass = "util" /\ opnum <= trace.num_ops /\ opnum' = opnum + 1 /\ Replayed
    /\ total_size' = total_size + Change
    /\ max_total_size' = Max({max_total_size, total_size'})
    /\ block_sizes' = IF Op.type = "f" THEN block_sizes ELSE [block_sizes EXCEPT ![Op.index] = Op.size]
    /\ UNCHANGED <<pass, run_libc, traceno, trace, heapVars, why, sumVars>>

SpeedOp ==
    /\ pass = "speed" /\ opnum <= trace.num_ops /\ opnum' = opnum + 1 /\ Replayed
    /\ UNCHANGED <<pass, run_libc, traceno, trace, heapVars, block_sizes, why, sumVars, totals>>

PassEnd ==
    /\ pass \in {"util", "speed"} /\ opnum > trace.num_ops /\ opnum' = 1
    /\ pass' = IF pass = "util" THEN "speed" ELSE "free"
    /\ UNCHANGED <<run_libc, traceno, trace, heapVars, blocks, block_sizes, why, sumVars, totals>>

\* free_trace, and main's loops over the files: libc's and the package's.
FreeTrace ==
    /\ pass = "free" /\ pass' = "read" /\ traceno' = traceno + 1 /\ trace' = NoTrace
    /\ blocks' = <<>> /\ block_sizes' = <<>> /\ opnum' = 1
    /\ UNCHANGED <<run_libc, heapVars, why, sumVars, totals>>

LibcResults ==
    /\ pass = "read" /\ traceno > NumTraces /\ run_libc
    /\ run_libc' = FALSE /\ traceno' = 1
    /\ UNCHANGED <<pass, trace, opnum, heapVars, blocks, block_sizes, why, sumVars, totals>>

Summary ==
    /\ pass = "read" /\ traceno > NumTraces /\ ~run_libc /\ pass' = "summary" /\ reported' = (errors = 0)
    /\ UNCHANGED <<run_libc, traceno, trace, opnum, heapVars, blocks, block_sizes, why, errors, valid, totals>>

DriverNext ==
    \/ Options \/ ReadTrace \/ LibcOp \/ LibcEnd \/ MmInit \/ ValidAlloc \/ ValidRealloc
    \/ ValidFree \/ ValidEnd \/ UtilOp \/ SpeedOp \/ PassEnd \/ FreeTrace
    \/ LibcResults \/ Summary

DriverSpec == DriverInit /\ [][DriverNext]_driverVars

(***************************************************************************)
(* Properties                                                              *)
(***************************************************************************)

Bytes(r) == r[1] .. r[2]

\* The payloads accepted lie aligned in the heap, and one overlaps another that
\* was accepted before it only by containing it strictly, the case the test of
\* add_range does not see.
AcceptedRangesSound ==
    \A r \in ranges :
        /\ Aligned(r[1]) /\ r[1] <= r[2] /\ Bytes(r) \subseteq 0 .. HeapSize - 1
        /\ \A q \in ranges :
               q # r /\ since[r[1]] <= since[q[1]] /\ Bytes(q) \cap Bytes(r) # {} =>
                   q[1] < r[1] /\ r[2] < q[2]

\* "The payload must not overlap any other payloads", above the test of add_range
\* in mdriver.c.  It is not so of a payload that contains another.
RangesDisjoint == \A r, q \in ranges : q # r => Bytes(q) \cap Bytes(r) = {}

\* An allocator that is right is failed for lack of memory only, or for a
\* block whose number has a low byte from 128 up: the byte read back is
\* negative and never equals the one written.  If it passes, the payloads
\* never count for more than the heap, however often they were moved.
HonestAllocatorPasses ==
    /\ honest /\ pass = "free" /\ why # "none" =>
           why = "null" \/ (why = "data" /\ Signed(Fill(Op.index)) < 0)
    /\ honest /\ pass = "speed" => max_total_size <= HeapSize
    /\ reported => \A i \in DOMAIN valid : valid[i]
=============================================================================
