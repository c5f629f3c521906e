------------------------------ MODULE Milling ------------------------------
(***************************************************************************)
(* Millers and an archive beside a growing tree of blocks (Target).            *)
(*                                                                         *)
(* A miller links a block to the longest chain, seals it with the time, and     *)
(* looks for its proof of work in rounds; after each it asks whether a longer    *)
(* chain arrived, gives up if so, and otherwise submits what it found           *)
(* (chain.py:178-198, block.py:262-294, milling.py:44-143, miller.py:79-138,      *)
(* command.py:621-656).  Peers send blocks meanwhile, which their own millers    *)
(* made with another canonical tip.                                          *)
(*                                                                         *)
(* The export command appends the chain it took to a file, block by block; it     *)
(* goes on from the last line of the file (command.py:467-515).  It finds each    *)
(* block by a walk to the materialization and a query below the position found:   *)
(* two statements, between which other processes may reorganise the chain         *)
(* (models.py:324-352, 455-485).  When it is killed, what was on disk may end     *)
(* anywhere, between a block and its newline too.                               *)
(***************************************************************************)
EXTENDS Target

CONSTANTS
    Miller,        \* processes that mill
    Instants,      \* bound: the times that the clock shows
    MaxBlocks,     \* bound: blocks stored
    MaxExports     \* bound: times the export command is started

(* The times and the bounds are numbers.                                       *)
ASSUME MillingAssumption == Instants \subseteq Nat /\ MaxBlocks \in Nat /\ MaxExports \in Nat

VARIABLES
    miller,    \* what each miller is doing
    export,    \* the export in progress, and how many were started
    file,      \* the blocks of the archive
    bare,      \* the positions of those without a newline after them
    torn,      \* whether the archive ends in the middle of a block
    split      \* history: a reorganisation changed what a lookup was reading

archive == <<export, file, bare, torn, split>>
vars == <<now, block, tip, miller, archive>>

Idle == [op |-> "idle"]
Become(w, m) == miller' = [miller EXCEPT ![w] = m]

Init ==
    /\ now = 0 /\ block = <<>> /\ tip = None
    /\ miller = [w \in Miller |-> Idle]
    /\ file = <<>> /\ bare = {} /\ torn = FALSE /\ split = FALSE
    /\ export = [op |-> "none", tip |-> None, seen |-> None, left |-> {}, from |-> 0, started |-> 0]

-----------------------------------------------------------------------------
(* The clock moves on, by more than one at times.  (Bound: not once exports have     *)
(* started, for which it does not matter.)                                      *)
Tick ==
    /\ export.started = 0
    /\ now' \in {t \in Instants : t > now}
    /\ UNCHANGED <<block, tip, miller, archive>>

(* A block of a peer arrives, whose canonical chain may be another one.          *)
PeerBlock(prev, time, canonical) ==
    LET b == [prev |-> prev, idx |-> Idx(prev) + 1, time |-> time,
              target |-> BlockTarget(prev, canonical, TRUE, Idx(prev) + 1)]
    IN  /\ Len(block) < MaxBlocks
        /\ Valid(b) /\ Add(b)
        /\ UNCHANGED <<now, miller, archive>>

(* The miller takes the longest chain and links a block to it.  (Bound: no miller *)
(* starts after the first export; they share nothing but the tree.)              *)
Link(w) ==
    /\ miller[w] = Idle /\ Len(block) < MaxBlocks /\ export.started = 0
    /\ Become(w, [op |-> "linked", prev |-> tip, idx |-> Idx(tip) + 1,
                  target |-> BlockTarget(tip, tip, HasRow(tip), Idx(tip) + 1)])
    /\ UNCHANGED <<now, block, tip, archive>>

Block(m) == [prev |-> m.prev, idx |-> m.idx, time |-> m.time, target |-> m.target]

(* Mutant of Seal: the target is that of the longest chain when it is sealed.     *)
SealRetargeted(w) ==
    LET m == miller[w]
    IN  /\ m.op = "linked"
        /\ Become(w, [op |-> "milling", prev |-> m.prev, idx |-> m.idx, time |-> now,
                      target |-> BlockTarget(tip, tip, TRUE, Idx(tip) + 1),
                      lost |-> m.prev = None \/ ~HasRow(m.prev)])
        /\ UNCHANGED <<now, block, tip, archive>>

(* The template is complete and gets its time; the chain row of its tip may be    *)
(* gone by now.                                                               *)
Seal(w) ==
    LET m == miller[w]
    IN  /\ m.op = "linked"
        /\ Become(w, [op |-> "milling", prev |-> m.prev, idx |-> m.idx, time |-> now,
                      target |-> m.target, lost |-> m.prev = None \/ ~HasRow(m.prev)])
        /\ UNCHANGED <<now, block, tip, archive>>

(* A round of the search ends with a proof or without; with target 0 there is none. *)
Round(w) ==
    LET m == miller[w]
    IN  /\ m.op = "milling"
        /\ \E op \in {"tired", "solved"} :
              /\ op = "solved" => m.target > 0
              /\ Become(w, [m EXCEPT !.op = op])
        /\ UNCHANGED <<now, block, tip, archive>>

(* Mutant of Check: only a chain that is gone is given up.                      *)
CheckGone(w) ==
    LET m == miller[w]
    IN  /\ m.op \in {"tired", "solved"}
        /\ Become(w, IF m.lost THEN Idle
                     ELSE [m EXCEPT !.op = IF m.op = "tired" THEN "milling" ELSE "submit"])
        /\ UNCHANGED <<now, block, tip, archive>>

(* A longer chain makes the miller give up, whatever it found.                  *)
Check(w) ==
    LET m == miller[w]
        behind == tip # None /\ (m.lost \/ Idx(m.prev) < Idx(tip))
    IN  /\ m.op \in {"tired", "solved"}
        /\ Become(w, IF behind THEN Idle
                     ELSE [m EXCEPT !.op = IF m.op = "tired" THEN "milling" ELSE "submit"])
        /\ UNCHANGED <<now, block, tip, archive>>

(* The solved block is received like any other; a longer chain may have come since. *)
Submit(w) ==
    LET m == miller[w]
    IN  /\ m.op = "submit"
        /\ IF Valid(Block(m)) /\ Len(block) < MaxBlocks
           THEN Add(Block(m)) ELSE UNCHANGED <<block, tip>>
        /\ Become(w, Idle)
        /\ UNCHANGED <<now, archive>>

-----------------------------------------------------------------------------
(* What a query finds that follows a walk which saw another canonical tip: the      *)
(* divergent blocks of the walk, and the materialization up to the position it hit.   *)
Visible(chain, seen, canonical) ==
    Divergent(chain, seen)
    \cup {b \in ToSet(Path(canonical)) : block[b].idx <= Cap(chain, seen)}

(* The query of the lookup in progress.  A reorganisation splits it when the part   *)
(* of the chain that the walk found canonical no longer is.                       *)
Found == Visible(export.tip, export.seen, tip)
Query ==
    /\ export.seen # None
    /\ split' = (split \/ Cap(export.tip, tip) < Cap(export.tip, export.seen))

Goto(op) == export' = [export EXCEPT !.op = op, !.seen = None]

(* A block is written, with its newline.                                       *)
Write(b) == file' = Append(file, b) /\ Goto("written")

(* Mutant of StartExport: the last line is not looked for in the chain.           *)
StartExportUnchecked ==
    /\ export.op \in {"none", "done"} /\ export.started < MaxExports /\ tip # None
    /\ now = 0 /\ \A w \in Miller : miller[w] = Idle
    /\ ~torn /\ Len(file) - 1 \notin bare
    /\ export' = [op |-> "start", tip |-> tip, seen |-> None, left |-> {},
                  from |-> Len(file), started |-> export.started + 1]
    /\ UNCHANGED <<now, block, tip, miller, file, bare, torn, split>>

(* An export takes the longest chain and reads the last line of the file.  It       *)
(* refuses one that is not a block: one that is cut off or holds two.  (Bound: not    *)
(* while a miller is at work or after the clock has moved.)                       *)
StartExport ==
    /\ export.op \in {"none", "done"} /\ export.started < MaxExports /\ tip # None
    /\ now = 0 /\ \A w \in Miller : miller[w] = Idle
    /\ ~torn /\ Len(file) - 1 \notin bare
    /\ export' = [op |-> IF file = <<>> THEN "start" ELSE "check",
                  tip |-> tip, seen |-> None, left |-> {},
                  from |-> Len(file), started |-> export.started + 1]
    /\ UNCHANGED <<now, block, tip, miller, file, bare, torn, split>>

(* The walk of a lookup.  (It reads block by block; when the materialization         *)
(* changes under it, it ends lower and keeps more of the chain's own blocks.)         *)
Walk ==
    /\ export.op \in {"check", "start"} \/ (export.op = "next" /\ export.left # {})
    /\ export.seen = None
    /\ export' = [export EXCEPT !.seen = tip]
    /\ UNCHANGED <<now, block, tip, miller, file, bare, torn, split>>

(* The block of the last line is looked for by its hash: another chain's is refused.   *)
CheckLastLine ==
    /\ export.op = "check" /\ Query
    /\ Goto(IF Last(file) \in Found THEN "start" ELSE "none")
    /\ UNCHANGED <<now, block, tip, miller, file, bare, torn>>

(* The first block to write is looked for by its index.                           *)
WriteFirst ==
    LET index == IF file = <<>> THEN 0 ELSE Idx(Last(file)) + 1
        hits == {b \in Found : Idx(b) = index}
    IN  /\ export.op = "start" /\ Query
        /\ \/ \E b \in hits : Write(b)
           \/ hits = {} /\ Goto("done") /\ UNCHANGED file
        /\ UNCHANGED <<now, block, tip, miller, bare, torn>>

(* The blocks that were built on the one just written are read.                    *)
ReadChildren ==
    LET children == {c \in Stored : block[c].prev = Last(file)}
    IN  /\ export.op = "written"
        /\ export' = [export EXCEPT !.op = IF children = {} THEN "done" ELSE "next",
                                    !.left = children]
        /\ UNCHANGED <<now, block, tip, miller, file, bare, torn, split>>

(* One of them is looked for by its hash, and written if it is found; when none is    *)
(* left the export ends.                                                       *)
WriteNext ==
    /\ export.op = "next" /\ Query
    /\ \E c \in export.left :
          IF c \in Found THEN Write(c)
          ELSE /\ export' = [export EXCEPT !.seen = None, !.left = @ \ {c},
                                           !.op = IF export.left = {c} THEN "done" ELSE "next"]
               /\ UNCHANGED file
    /\ UNCHANGED <<now, block, tip, miller, bare, torn>>

(* The command is killed: of what it wrote, some was not on disk.  The file ends at    *)
(* the end of a line, in the middle of a block, or after a block whose newline is       *)
(* lost: the next export takes that one for a whole line, and writes on it.           *)
KillExport ==
    /\ export.op \notin {"none", "done"}
    /\ \E n \in export.from .. Len(file), cut \in {"line", "block", "newline"} :
          /\ file' = SubSeq(file, 1, n)
          /\ cut = "newline" => n > export.from
          /\ cut = "block" => export.op # "check"
          /\ bare' = (bare \cap 1 .. n) \cup (IF cut = "newline" THEN {n} ELSE {})
          /\ torn' = (cut = "block")
    /\ export' = [export EXCEPT !.op = "none", !.tip = None, !.seen = None, !.left = {}, !.from = 0]
    /\ UNCHANGED <<now, block, tip, miller, split>>

Next ==
    \/ Tick
    \/ \E prev \in {None} \cup Stored, time \in Instants, canonical \in {None} \cup Stored :
          PeerBlock(prev, time, canonical)
    \/ \E w \in Miller : Link(w) \/ Seal(w) \/ Round(w) \/ Check(w) \/ Submit(w)
    \/ StartExport \/ Walk \/ CheckLastLine \/ WriteFirst \/ ReadChildren \/ WriteNext
    \/ KillExport

(* A miller goes on: after every round it looks for a longer chain.              *)
Spec == Init /\ [][Next]_vars /\ \A w \in Miller : WF_vars(Round(w)) /\ WF_vars(Check(w))

-----------------------------------------------------------------------------
(* The target of a stored block comes out the same from the chain of every block    *)
(* above it, whether or not that chain has a row and whichever tip is canonical:     *)
(* so the validate command, an import and every other node agree with the node      *)
(* that accepted it (chain.py:135-176, 203-215, models.py:454-486).               *)
TargetsAgree ==
    \A chain \in Stored, canonical \in {c \in Stored : HasRow(c)}, row \in BOOLEAN :
        \A b \in ToSet(Path(chain)) : BlockTarget(chain, canonical, row, block[b].idx) = block[b].target

(* Over an interval the target follows the time its blocks took: faster than the    *)
(* interval's seconds and it gets no easier, slower and it gets no harder, below      *)
(* MaxTarget; at most by a factor of 4 either way (chain.py:159-174).             *)
RetargetFollowsTime ==
    \A b \in {c \in Stored : block[c].idx > 0} :
        LET prev == block[block[b].prev]
            first == Path(b)[block[b].idx - Interval + 1]
            seconds == prev.time - block[first].time
        IN  IF block[b].idx % Interval # 0 THEN block[b].target = prev.target
            ELSE /\ seconds <= IntervalSeconds => block[b].target <= prev.target
                 /\ seconds >= IntervalSeconds => block[b].target >= prev.target
                 /\ block[b].target <= 4 * prev.target
                 /\ 4 * block[b].target > prev.target - 4

(* What a miller has sealed stays acceptable to its node, however long it mills and  *)
(* whatever blocks and reorganisations come in between, but for a second genesis     *)
(* (miller.py:79-138, chain.py:216-244).                                       *)
SealedStaysValid ==
    \A w \in Miller :
        LET m == miller[w]
        IN  m.op \in {"milling", "tired", "solved", "submit"} /\ (m.prev = None => block = <<>>)
            => Valid(Block(m))

(* Unless a reorganisation split one of its lookups, the archive holds one chain from   *)
(* the genesis on, each block on top of the one before, also when it was written by     *)
(* several exports, some of them killed, and the chain was reorganised between and      *)
(* during them; and an export that came to its end has written its chain up to the tip.  *)
(* Split or not, no line holds more than two blocks, and two only where a kill lost the   *)
(* newline between them: the next export refuses such a last line (command.py:482-511,    *)
(* 146-154).                                                                  *)
ArchiveIsAChain ==
    /\ ~split => /\ \A i \in 1 .. Len(file) : block[file[i]].prev = IF i = 1 THEN None ELSE file[i - 1]
                 /\ export.op = "done" => Last(file) = export.tip
    /\ \A i \in 1 .. Len(file) - 2 : ~({i, i + 1} \subseteq bare)

(* A miller does not go on for ever with a template that a longer chain has overtaken  *)
(* (miller.py:123-138).                                                      *)
Overtaken(w) ==
    LET m == miller[w]
    IN  m.op \in {"milling", "tired", "solved"} /\ Idx(m.prev) < Idx(tip)
OvertakenGivesUp == \A w \in Miller : Overtaken(w) ~> ~Overtaken(w)
=============================================================================
