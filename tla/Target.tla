------------------------------- MODULE Target -------------------------------
(***************************************************************************)
(* The tree of blocks a node has stored, with their timestamps and targets,  *)
(* and the target of the next block of a chain (chain.py:114-176).            *)
(*                                                                         *)
(* The target is that of the block before, except every Interval blocks: then *)
(* it is scaled by the time the blocks before it took.  The blocks it depends   *)
(* on are looked up by their distance from the tip of the chain object that    *)
(* asks.  If that tip is a chain row's, they are taken from its ancestry,       *)
(* which mixes the walk along prev_hash with positions of the materialization;  *)
(* otherwise the chain is walked.                                            *)
(*                                                                         *)
(* Hashes and proofs of work are left out: block b is the b-th one stored.      *)
(* The code multiplies by a float, which rounds to 53 bits of a 256-bit        *)
(* target, on every node alike; here the factor is exact.                     *)
(***************************************************************************)
EXTENDS Integers, Sequences, SequencesExt

CONSTANTS
    Interval,          \* TARGET_INTERVAL
    IntervalSeconds,   \* TARGET_INTERVAL_SECONDS
    MaxTarget          \* MAX_TARGET

ASSUME TargetAssumption ==
    /\ Interval \in Nat \ {0} /\ IntervalSeconds \in Nat \ {0}
    /\ MaxTarget \in Nat

VARIABLES
    now,       \* the clock
    block,     \* the stored blocks, in the order they were stored
    tip        \* the tip of the longest chain, 0 before the genesis

None == 0
Stored == 1 .. Len(block)
Idx(b) == IF b = None THEN -1 ELSE block[b].idx

(* The chain of a block: what a walk along prev_hash passes, genesis first.       *)
Path(b) == IF b = None THEN <<>> ELSE block[b].chain

-----------------------------------------------------------------------------
(* The blocks of a chain that are not in the materialization of a canonical tip, *)
(* and the position of the last one that is.                                   *)
Divergent(chain, canonical) == ToSet(Path(chain)) \ ToSet(Path(canonical))
Cap(chain, canonical) == Cardinality(ToSet(Path(chain)) \cap ToSet(Path(canonical))) - 1

(* Mutant of GetBlock: the materialization is read first, whatever its fork.     *)
GetBlockUncapped(chain, canonical, idx) ==
    LET found == {b \in ToSet(Path(canonical)) : block[b].idx = idx}
    IN  IF found # {} THEN found ELSE {b \in Divergent(chain, canonical) : block[b].idx = idx}

(* The block of a chain with an index.                                        *)
GetBlock(chain, canonical, idx) ==
    {b \in Divergent(chain, canonical) : block[b].idx = idx}
    \cup {b \in ToSet(Path(canonical)) : block[b].idx = idx /\ idx <= Cap(chain, canonical)}

(* The i-th block below the tip of a chain, as a set with at most one member;     *)
(* row tells whether the chain has a row.                                      *)
ByReverseIndex(chain, canonical, row, i) ==
    IF row THEN GetBlock(chain, canonical, Idx(chain) - i)
    ELSE {b \in ToSet(Path(chain)) : Idx(chain) - block[b].idx = i}

(* A target scaled by the time its interval took, at most by 4 either way, and    *)
(* never easier than MaxTarget.                                               *)
Retarget(target, seconds) ==
    LET fourths == Min({Max({4 * seconds, IntervalSeconds}), 16 * IntervalSeconds})
        scaled == (target * fourths) \div (4 * IntervalSeconds)
    IN  Min({scaled, MaxTarget})

(* Mutant of BlockTarget: the interval starts one block late.                   *)
BlockTargetLate(chain, canonical, row, index) ==
    LET i == Idx(chain) - index
        At(n) == ByReverseIndex(chain, canonical, row, n)
    IN  IF index = 0 \/ At(i + 1) = {} THEN MaxTarget
        ELSE LET prev == block[CHOOSE b \in At(i + 1) : TRUE]
             IN  IF index % Interval # 0 \/ At(i + Interval - 1) = {} THEN prev.target
                 ELSE Retarget(prev.target,
                               prev.time - block[CHOOSE b \in At(i + Interval - 1) : TRUE].time)

(* The target of the block with an index in a chain, or on top of it.            *)
BlockTarget(chain, canonical, row, index) ==
    LET i == Idx(chain) - index
        At(n) == ByReverseIndex(chain, canonical, row, n)
    IN  IF index = 0 \/ At(i + 1) = {} THEN MaxTarget
        ELSE LET prev == block[CHOOSE b \in At(i + 1) : TRUE]
             IN  IF index % Interval # 0 \/ At(i + Interval) = {} THEN prev.target
                 ELSE Retarget(prev.target,
                               prev.time - block[CHOOSE b \in At(i + Interval) : TRUE].time)

-----------------------------------------------------------------------------
(* A chain row ends at every block that nothing was built on.                  *)
HasRow(b) == \A c \in Stored : block[c].prev # b

(* What validate_block asks of a block, apart from its transactions.             *)
Valid(b) ==
    /\ b.time <= now
    /\ b.prev = None => block = <<>>
    /\ b.prev # None => b.prev \in Stored /\ b.time >= block[b.prev].time
    /\ b.idx = Idx(b.prev) + 1
    /\ b.target = BlockTarget(b.prev, tip, HasRow(b.prev), b.idx)

(* A valid block is stored; a longer chain becomes canonical.                  *)
Add(b) ==
    /\ block' = Append(block, [prev |-> b.prev, idx |-> b.idx, time |-> b.time,
                                target |-> b.target,
                                chain |-> Append(Path(b.prev), Len(block) + 1)])
    /\ tip' = IF b.idx > Idx(tip) THEN Len(block) + 1 ELSE tip
=============================================================================
