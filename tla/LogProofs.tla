------------------------------ MODULE LogProofs ------------------------------
(***************************************************************************)
(* Proofs about Log for every number of processes and blocks, every size   *)
(* of the log and of the reservations and any number of crashes.           *)
(***************************************************************************)
EXTENDS Log, FiniteSetTheorems, TLAPS

(***************************************************************************)
(* Counting: the operations in progress and their reservations.            *)
(***************************************************************************)
LEMMA Sizes ==
  /\ MAXOPBLOCKS \in Nat /\ OpBlocks \in Nat /\ LOGSIZE \in Nat /\ NLog \in Nat
  /\ 1 <= MAXOPBLOCKS /\ OpBlocks <= MAXOPBLOCKS /\ MAXOPBLOCKS <= LOGSIZE
  /\ LOGSIZE <= NLog /\ Behind \in Block
BY ConstantsOK

\* Operations and reservations are finite sets.
LEMMA FiniteOps ==
  /\ IsFiniteSet(Active) /\ Cardinality(Active) \in Nat
  /\ IsFiniteSet(Reserved) /\ Cardinality(Reserved) \in Nat
  /\ Cardinality(Reserved) <= Cardinality(Active) * MAXOPBLOCKS
<1>1. IsFiniteSet(Active) /\ Cardinality(Active) \in Nat
  BY ConstantsOK, FS_Subset, FS_CardinalityType DEF Active
<1>2. /\ IsFiniteSet(1..MAXOPBLOCKS)
      /\ Cardinality(1..MAXOPBLOCKS) = MAXOPBLOCKS
  BY Sizes, FS_Interval
<1>3. /\ IsFiniteSet(Active \X (1..MAXOPBLOCKS))
      /\ Cardinality(Active \X (1..MAXOPBLOCKS)) = Cardinality(Active) * MAXOPBLOCKS
  BY <1>1, <1>2, FS_Product
<1>4. Reserved \in SUBSET (Active \X (1..MAXOPBLOCKS))
  BY DEF Reserved
<1>. QED BY <1>1, <1>3, <1>4, FS_Subset, FS_CardinalityType

\* What an operation has logged and is logging is within its bound.
LEMMA FiniteWrote ==
  ASSUME TypeOK, SpaceReserved, NEW p \in Op
  PROVE  /\ IsFiniteSet(wrote[p]) /\ Cardinality(wrote[p]) \in Nat
         /\ Cardinality(wrote[p]) <= OpBlocks
<1>1. IsFiniteSet(wrote[p] \union held[p])
  BY ConstantsOK, FS_Subset DEF TypeOK
<1>2. /\ IsFiniteSet(wrote[p])
      /\ Cardinality(wrote[p]) <= Cardinality(wrote[p] \union held[p])
  BY <1>1, FS_Subset
<1>3. Cardinality(wrote[p]) \in Nat /\ Cardinality(wrote[p] \union held[p]) \in Nat
  BY <1>1, <1>2, FS_CardinalityType
<1>4. Cardinality(wrote[p] \union held[p]) <= OpBlocks
  BY DEF SpaceReserved
<1>. QED BY ONLY <1>2, <1>3, <1>4, Sizes

\* An operation in progress keeps what it has not used of its reservation.
LEMMA OwnReserve ==
  ASSUME TypeOK, SpaceReserved, NEW p \in Op, InOp(p)
  PROVE  Cardinality(Reserved) >= MAXOPBLOCKS - Cardinality(wrote[p])
<1>. DEFINE w == Cardinality(wrote[p])
            Own == {p} \X ((w + 1)..MAXOPBLOCKS)
<1>1. w \in Nat /\ w <= MAXOPBLOCKS
  BY FiniteWrote, Sizes
<1>2. IsFiniteSet({p}) /\ Cardinality({p}) = 1
  BY FS_Singleton
<1>3. /\ IsFiniteSet((w + 1)..MAXOPBLOCKS)
      /\ Cardinality((w + 1)..MAXOPBLOCKS) = MAXOPBLOCKS - w
  <2>1. w + 1 \in Int /\ MAXOPBLOCKS \in Int
    BY <1>1, Sizes
  <2>2. /\ IsFiniteSet((w + 1)..MAXOPBLOCKS)
        /\ Cardinality((w + 1)..MAXOPBLOCKS)
             = IF w + 1 > MAXOPBLOCKS THEN 0 ELSE MAXOPBLOCKS - (w + 1) + 1
    BY <2>1, FS_Interval
  <2>. QED BY <1>1, <2>2, Sizes
<1>4. Cardinality(Own) = 1 * (MAXOPBLOCKS - w)
  <2>1. PICK S, T : S = {p} /\ T = (w + 1)..MAXOPBLOCKS
    OBVIOUS
  <2>2. IsFiniteSet(S) /\ IsFiniteSet(T)
    BY <1>2, <1>3, <2>1
  <2>3. Cardinality(S \X T) = Cardinality(S) * Cardinality(T)
    BY ONLY <2>2, FS_Product
  <2>4. Cardinality(S) = 1 /\ Cardinality(T) = MAXOPBLOCKS - w
    BY <1>2, <1>3, <2>1
  <2>5. Own = S \X T
    BY <2>1
  <2>. QED BY <2>3, <2>4, <2>5
<1>5. Own \in SUBSET Reserved
  <2>1. ASSUME NEW i \in (w + 1)..MAXOPBLOCKS
        PROVE  <<p, i>> \in Reserved
    <3>1. i \in 1..MAXOPBLOCKS /\ i > w
      BY <1>1, Sizes
    <3>. QED BY <3>1 DEF Reserved, Active
  <2>. QED BY <2>1
<1>6. Cardinality(Own) <= Cardinality(Reserved)
  BY <1>5, FiniteOps, FS_Subset
<1>. QED BY <1>1, <1>4, <1>6, FiniteOps, Sizes

\* The only operation in progress is the last one.
LEMMA LastAlone ==
  ASSUME SpaceReserved, NEW p \in Op, InOp(p)
  PROVE  /\ outstanding \in Nat /\ outstanding >= 1
         /\ outstanding = 1 => \A q \in Op : InOp(q) => q = p
<1>1. p \in Active
  BY DEF Active
<1>2. outstanding = Cardinality(Active)
  BY DEF SpaceReserved
<1>3. Cardinality(Active) # 0
  BY <1>1, FiniteOps, FS_EmptySet
<1>4. ASSUME outstanding = 1, NEW q \in Op, InOp(q) PROVE q = p
  <2>1. \E x : Active = {x}
    BY <1>2, <1>4, FiniteOps, FS_Singleton
  <2>. QED BY <2>1, <1>1, <1>4 DEF Active
<1>. QED BY <1>2, <1>3, <1>4, FiniteOps

(***************************************************************************)
(* Control: who commits, and where the loops are.                          *)
(***************************************************************************)
Control == TypeOK /\ CommitAlone /\ TailInRange /\ HeldBuffers

LEMMA LogInit == Init => SpaceInv
<1>. SUFFICES ASSUME Init PROVE SpaceInv
  OBVIOUS
<1>. USE Sizes, ConstantsOK
<1>1. TypeOK
  BY DEF Init, TypeOK, Slot, CommitPc
<1>3. Active = {} /\ Reserved = {}
  BY DEF Init, Active, Reserved, InOp
<1>2. CommitAlone /\ TailInRange /\ HeldBuffers /\ SleeperHasWaker /\ NoPanic
  BY <1>3 DEF Init, CommitAlone, TailInRange, HeldBuffers, SleeperHasWaker, NoPanic, CommitPc
<1>4. \A p \in Op : Cardinality(wrote[p] \union held[p]) = 0
  BY FS_EmptySet DEF Init
<1>5. SpaceReserved
  BY <1>3, <1>4, FS_EmptySet DEF Init, SpaceReserved, InOp
<1>6. LogFits
  BY DEF Init, LogFits
<1>. QED BY <1>1, <1>2, <1>5, <1>6 DEF SpaceInv

\* The actions on the log in memory, by a process that is not committing.
LEMMA ControlOps ==
  ASSUME Control, SpaceReserved, NEW p \in Op
  PROVE  /\ BeginOp(p) => Control'
         /\ BeginSleep(p) => Control'
         /\ EndOp(p) => Control'
         /\ Panic(p) => Control'
         /\ LogAppend(p) => Control'
         /\ \A b \in Block, v \in Val : LogWrite(p, b, v) => Control'
<1>. USE Sizes DEF Control, TypeOK, CommitAlone, TailInRange, HeldBuffers, Active,
                   InOp, CommitPc, At, Up, Entering, vars, diskVars, cacheVars,
                   logVars, opVars, bootVars
<1>1. ASSUME BeginOp(p) PROVE Control'
  BY <1>1 DEF BeginOp
<1>2. ASSUME BeginSleep(p) PROVE Control'
  BY <1>2 DEF BeginSleep
<1>3. ASSUME EndOp(p) PROVE Control'
  <2>1. /\ outstanding >= 1
        /\ outstanding = 1 => \A q \in Op : InOp(q) => q = p
    BY <1>3, LastAlone DEF EndOp
  <2>2. lh # <<>> => Len(lh) >= 1
    OBVIOUS
  <2>3. CASE LastOp
    BY <1>3, <2>1, <2>2, <2>3 DEF EndOp, LastOp
  <2>4. CASE ~LastOp
    <3>1. /\ Up /\ committing = 0 /\ committing' = 0
          /\ outstanding' = outstanding - 1
          /\ UNCHANGED <<diskVars, cacheVars, lh, wrote, held, tail, bootVars>>
      BY <1>3, <2>4 DEF EndOp
    <3>2. /\ pc' \in [Op -> {"idle", "begin", "sleep", "op", "append"}]
          /\ \A q \in Op : pc'[q] = "append" <=> pc[q] = "append"
          /\ \A q \in Op : pc[q] \notin CommitPc
      BY <1>3, <2>4, <3>1 DEF EndOp, WakeDone, Wake
    <3>. QED BY <2>1, <3>1, <3>2
  <2>. QED BY <2>3, <2>4
<1>4. ASSUME Panic(p) PROVE Control'
  BY <1>4 DEF Panic
<1>5. ASSUME NEW b \in Block, NEW v \in Val, LogWrite(p, b, v) PROVE Control'
  <2>1. committing = 0
    BY <1>5 DEF LogWrite, MayWrite
  <2>2. pc[p] = "op" /\ pc' = [pc EXCEPT ![p] = "append"]
    BY <1>5 DEF LogWrite, MayWrite
  <2>3. TypeOK'
    BY <1>5, <2>2 DEF LogWrite
  <2>4. CommitAlone' /\ TailInRange'
    BY <1>5, <2>1, <2>2 DEF LogWrite
  <2>5. HeldBuffers'
    BY <1>5, <2>2 DEF LogWrite
  <2>. QED BY <2>3, <2>4, <2>5
<1>6. ASSUME LogAppend(p) PROVE Control'
  <2>0. pc[p] = "append" /\ committing = 0
    BY <1>6 DEF LogAppend
  <2>a. PICK b \in Block : held[p] = {b}
    BY <2>0
  <2>1. /\ lh' = IF b \in Logged(lh) THEN lh ELSE Append(lh, b)
        /\ dirty' = dirty \union {b} /\ wrote' = [wrote EXCEPT ![p] = @ \union {b}]
        /\ held' = [held EXCEPT ![p] = {}] /\ pc' = [pc EXCEPT ![p] = "op"]
        /\ UNCHANGED <<home, logblk, head, cache, outstanding, committing, tail, boot,
                       panicked, crashes>>
    <3>. HIDE DEF TypeOK, CommitAlone, TailInRange, HeldBuffers
    <3>. QED BY <1>6, <2>a DEF LogAppend, Pin
  <2>2. lh' \in Seq(Block)
    BY <2>1
  <2>3. TypeOK'
    BY <2>1, <2>2
  <2>4. CommitAlone' /\ TailInRange'
    BY <1>6, <2>0, <2>1 DEF LogAppend
  <2>5. HeldBuffers'
    BY <2>0, <2>1
  <2>. QED BY <2>3, <2>4, <2>5
<1>. QED BY <1>1, <1>2, <1>3, <1>4, <1>5, <1>6

\* What install_trans reads from the log is the contents of a block.
LEMMA LogCopyVal ==
  ASSUME TypeOK, NEW i
  PROVE  LogCopy(i) \in Val
BY Sizes DEF TypeOK, LogCopy

\* The rounds of a commit.
LEMMA ControlCommit ==
  ASSUME Control, NEW p \in Op, Commit(p)
  PROVE  Control'
<1>. USE Sizes DEF Control, TypeOK, CommitAlone, TailInRange, HeldBuffers, Active, InOp,
                   CommitPc, At, Up, vars, diskVars, cacheVars, logVars, opVars, bootVars
<1>1. CASE WriteLog(p)
  <2>1. /\ pc[p] = "write_log" /\ boot = "up" /\ panicked = 0
        /\ tail' = tail + 1 /\ tail \in 1..Len(lh)
        /\ pc' = [pc EXCEPT ![p] = IF tail = Len(lh) THEN "write_head" ELSE @]
        /\ UNCHANGED <<head, lh, outstanding, committing, wrote, held, boot, panicked, crashes>>
    BY <1>1 DEF WriteLog
  <2>2. cache[lh[tail]] \in Val
    BY <2>1
  <2>3. /\ home' \in [Block -> Val] /\ logblk' \in [Slot -> Val]
        /\ cache' \in [Block -> Val] /\ dirty' \in SUBSET Block
    BY <1>1, <2>2 DEF WriteLog
  <2>4. TypeOK'
    BY <2>1, <2>3
  <2>5. CommitAlone' /\ TailInRange' /\ HeldBuffers'
    BY <2>1
  <2>. QED BY <2>4, <2>5
<1>2. CASE WriteHead(p)
  BY <1>2 DEF WriteHead
<1>3. CASE Install(p)
  BY <1>3, LogCopyVal DEF Install, InstallTrans
<1>4. CASE Erase(p)
  BY <1>4 DEF Erase, EmptyLh
<1>5. CASE CommitDone(p)
  BY <1>5 DEF CommitDone, WakeDone, Wake
<1>. QED BY <1>1, <1>2, <1>3, <1>4, <1>5 DEF Commit

\* Evictions, crashes and the recovery at boot.
LEMMA ControlBoot ==
  ASSUME Control, (\E b \in Block : Evict(b)) \/ Crash \/ Recover
  PROVE  Control'
<1>. USE Sizes DEF Control, TypeOK, CommitAlone, TailInRange, HeldBuffers, Active, InOp,
                   CommitPc, At, Up, vars, diskVars, cacheVars, logVars, opVars, bootVars
<1>1. ASSUME NEW b \in Block, Evict(b) PROVE Control'
  BY <1>1 DEF Evict
<1>2. CASE Crash
  BY <1>2, ConstantsOK DEF Crash
<1>3. CASE ReadHead
  BY <1>3 DEF ReadHead
<1>4. CASE RecoverInstall
  BY <1>4, LogCopyVal DEF RecoverInstall, InstallTrans
<1>5. CASE RecoverClear
  BY <1>5 DEF RecoverClear
<1>. QED BY <1>1, <1>2, <1>3, <1>4, <1>5 DEF Recover

(***************************************************************************)
(* Space: what is logged and what is reserved fit into the log.            *)
(***************************************************************************)
\* An operation that begins adds a whole reservation, for which there is room.
LEMMA SpaceBegin ==
  ASSUME Control, SpaceReserved, NEW p \in Op, BeginOp(p)
  PROVE  SpaceReserved'
<1>. DEFINE New == {p} \X (1..MAXOPBLOCKS)
<1>1. /\ pc[p] \in {"idle", "begin"} /\ boot = "up" /\ boot' = "up"
      /\ pc' = [pc EXCEPT ![p] = "op"] /\ wrote' = [wrote EXCEPT ![p] = {}]
      /\ outstanding' = outstanding + 1 /\ UNCHANGED <<head, lh, held, committing>>
      /\ Len(lh) + (outstanding + 1) * MAXOPBLOCKS <= LOGSIZE
  BY DEF BeginOp, Entering, At, Up, Room, bootVars, diskVars
<1>2. Active' = Active \union {p} /\ p \notin Active
  BY <1>1 DEF Active, InOp, Control, TypeOK
<1>3. Cardinality(Active') = Cardinality(Active) + 1
  BY <1>2, FiniteOps, FS_AddElement
<1>4. /\ wrote'[p] = {} /\ wrote'[p] \union held'[p] = {}
      /\ Cardinality(wrote'[p] \union held'[p]) = 0 /\ Cardinality(wrote'[p]) = 0
      /\ \A q \in Op \ {p} : wrote'[q] = wrote[q]
  <2>1. held[p] = {} /\ held' = held /\ wrote'[p] = {}
    BY <1>1 DEF Control, TypeOK, HeldBuffers
  <2>2. \A q \in Op \ {p} : wrote'[q] = wrote[q]
    BY <1>1 DEF Control, TypeOK
  <2>. QED BY <2>1, <2>2, FS_EmptySet
<1>5. IsFiniteSet(New) /\ Cardinality(New) = MAXOPBLOCKS
  <2>1. /\ IsFiniteSet(1..MAXOPBLOCKS)
        /\ Cardinality(1..MAXOPBLOCKS) = MAXOPBLOCKS
    BY Sizes, FS_Interval
  <2>2. IsFiniteSet({p}) /\ Cardinality({p}) = 1
    BY FS_Singleton
  <2>3. PICK S, T : S = {p} /\ T = 1..MAXOPBLOCKS
    OBVIOUS
  <2>4. IsFiniteSet(S) /\ IsFiniteSet(T) /\ Cardinality(S) = 1 /\ Cardinality(T) = MAXOPBLOCKS
    BY <2>1, <2>2, <2>3
  <2>5. IsFiniteSet(S \X T) /\ Cardinality(S \X T) = Cardinality(S) * Cardinality(T)
    BY ONLY <2>4, FS_Product
  <2>6. New = S \X T
    BY <2>3
  <2>7. 1 * MAXOPBLOCKS = MAXOPBLOCKS
    BY Sizes
  <2>. QED BY ONLY <2>4, <2>5, <2>6, <2>7
<1>6. Reserved' = Reserved \union New /\ Reserved \cap New = {}
  <2>1. Reserved' \subseteq Reserved \union New
    BY <1>2, <1>4 DEF Reserved, Active
  <2>2. Reserved \subseteq Reserved'
    BY <1>2, <1>4 DEF Reserved, Active
  <2>3. New \subseteq Reserved'
    <3>1. ASSUME NEW i \in 1..MAXOPBLOCKS PROVE <<p, i>> \in Reserved'
      BY <1>2, <1>4, Sizes DEF Reserved
    <3>. QED BY <3>1
  <2>4. Reserved \cap New = {}
    BY <1>2 DEF Reserved
  <2>. QED BY <2>1, <2>2, <2>3, <2>4
<1>7. Cardinality(Reserved') = Cardinality(Reserved) + MAXOPBLOCKS
  <2>. HIDE DEF New
  <2>1. Cardinality(Reserved \union New)
          = Cardinality(Reserved) + Cardinality(New) - Cardinality(Reserved \cap New)
    BY <1>5, FiniteOps, FS_Union
  <2>2. Cardinality(Reserved \cap New) = 0
    BY <1>6, FS_EmptySet
  <2>3. Cardinality(Reserved) \in Nat
    BY FiniteOps
  <2>. QED BY ONLY <1>5, <1>6, <2>1, <2>2, <2>3, Sizes
<1>8. Cardinality(Reserved) <= outstanding * MAXOPBLOCKS /\ outstanding \in Nat
  BY FiniteOps DEF SpaceReserved
<1>9. Len(lh) \in Nat
  BY DEF Control, TypeOK
<1>10. Len(lh') + Cardinality(Reserved') <= LOGSIZE
  <2>1. (outstanding + 1) * MAXOPBLOCKS = outstanding * MAXOPBLOCKS + MAXOPBLOCKS
    BY <1>8, Sizes
  <2>2. outstanding * MAXOPBLOCKS \in Nat
    BY <1>8, Sizes
  <2>. QED BY <1>1, <1>7, <1>8, <1>9, <2>1, <2>2, Sizes, FiniteOps
<1>11. \A q \in Op : /\ Cardinality(wrote'[q] \union held'[q]) <= OpBlocks
                     /\ InOp(q)' => wrote'[q] \subseteq Logged(lh)'
  <2>1. \A q \in Op \ {p} : /\ InOp(q)' <=> InOp(q)
                            /\ wrote'[q] = wrote[q] /\ held'[q] = held[q]
    BY <1>1, <1>4 DEF InOp, Control, TypeOK
  <2>2. Logged(lh)' = Logged(lh)
    BY <1>1 DEF Logged
  <2>3. Cardinality(wrote'[p] \union held'[p]) <= OpBlocks /\ wrote'[p] \subseteq Logged(lh)'
    BY <1>4, Sizes
  <2>4. \A q \in Op \ {p} : /\ Cardinality(wrote'[q] \union held'[q]) <= OpBlocks
                            /\ InOp(q)' => wrote'[q] \subseteq Logged(lh)'
    BY <2>1, <2>2 DEF SpaceReserved
  <2>. QED BY ONLY <2>3, <2>4
<1>12. /\ outstanding' = Cardinality(Active') /\ outstanding' # 0
       /\ Len(lh') <= LOGSIZE /\ Len(head') <= LOGSIZE
  BY <1>1, <1>3, <1>8 DEF SpaceReserved
<1>. QED BY ONLY <1>10, <1>11, <1>12 DEF SpaceReserved

\* A write takes what it adds to the log from its own reservation.
LEMMA SpaceAppend ==
  ASSUME Control, SpaceReserved, NEW p \in Op, LogAppend(p)
  PROVE  SpaceReserved'
<1>a. pc[p] = "append" /\ boot = "up"
  BY DEF LogAppend, At, Up
<1>b. PICK b \in Block : held[p] = {b}
  BY <1>a DEF Control, HeldBuffers
<1>1. /\ UNCHANGED <<head, outstanding, committing, boot>>
      /\ wrote' = [wrote EXCEPT ![p] = @ \union {b}]
      /\ held' = [held EXCEPT ![p] = {}] /\ pc' = [pc EXCEPT ![p] = "op"]
      /\ Cardinality(wrote[p] \union {b}) <= OpBlocks
      /\ lh' = IF b \in Logged(lh) THEN lh ELSE Append(lh, b)
  BY <1>b DEF LogAppend, logVars, bootVars, diskVars, SpaceReserved
<1>2. lh \in Seq(Block) /\ wrote \in [Op -> SUBSET Block]
  BY DEF Control, TypeOK
<1>3. /\ Len(lh') \in Nat /\ Len(lh) \in Nat
      /\ Len(lh') = IF b \in Logged(lh) THEN Len(lh) ELSE Len(lh) + 1
      /\ Logged(lh)' = Logged(lh) \union {b}
  BY <1>1, <1>2 DEF Logged
<1>4. /\ Active' = Active /\ p \in Active
      /\ \A q \in Op : InOp(q)' <=> InOp(q)
  BY <1>1, <1>a DEF Active, InOp, Control, TypeOK
<1>5. /\ wrote'[p] = wrote[p] \union {b} /\ held'[p] = {}
      /\ \A q \in Op \ {p} : wrote'[q] = wrote[q] /\ held'[q] = held[q]
  BY <1>1, <1>2 DEF Control, TypeOK
<1>6. \A q \in Op : /\ Cardinality(wrote'[q] \union held'[q]) <= OpBlocks
                    /\ InOp(q)' => wrote'[q] \subseteq Logged(lh)'
  <2>1. wrote'[p] \union held'[p] = wrote[p] \union {b}
    BY <1>5
  <2>. QED BY <1>1, <1>3, <1>4, <1>5, <2>1 DEF SpaceReserved, Active
<1>7. Len(lh') + Cardinality(Reserved') <= LOGSIZE /\ Cardinality(Reserved') \in Nat
  <2>1. CASE b \in wrote[p]
    <3>1. wrote'[p] = wrote[p]
      BY <1>5, <2>1
    <3>2. wrote' = wrote
      BY <1>1, <1>2, <3>1
    <3>3. Reserved' = Reserved
      BY <1>4, <3>2 DEF Reserved
    <3>4. lh' = lh
      BY <1>1, <1>4, <2>1 DEF SpaceReserved, Active
    <3>. QED BY <1>a, <3>3, <3>4, FiniteOps DEF SpaceReserved
  <2>2. CASE b \notin wrote[p]
    <3>. DEFINE w == Cardinality(wrote[p])
    <3>1. IsFiniteSet(wrote[p]) /\ w \in Nat
      BY FiniteWrote DEF Control
    <3>2. /\ Cardinality(wrote[p] \union {b}) = w + 1
          /\ Cardinality(wrote'[p]) = w + 1
      BY <1>5, <2>2, <3>1, FS_AddElement
    <3>3. w + 1 <= MAXOPBLOCKS
      <4>1. w + 1 <= OpBlocks
        BY <1>1, <3>2
      <4>. HIDE DEF w
      <4>. QED BY <3>1, <4>1, Sizes
    <3>4. Reserved' = Reserved \ {<<p, w + 1>>}
      <4>1. ASSUME NEW q \in Active, NEW i \in 1..MAXOPBLOCKS
            PROVE  <<q, i>> \in Reserved' <=> <<q, i>> \in Reserved /\ <<q, i>> # <<p, w + 1>>
        <5>1. CASE q = p
          BY <1>4, <3>1, <3>2, <5>1 DEF Reserved
        <5>2. CASE q # p
          BY <1>4, <1>5, <5>2 DEF Reserved, Active
        <5>. QED BY <5>1, <5>2
      <4>2. /\ Reserved' \subseteq Active \X (1..MAXOPBLOCKS)
            /\ Reserved \subseteq Active \X (1..MAXOPBLOCKS)
        BY <1>4 DEF Reserved
      <4>. QED BY <4>1, <4>2
    <3>5. <<p, w + 1>> \in Reserved
      BY <1>4, <3>1, <3>3, Sizes DEF Reserved
    <3>6. Cardinality(Reserved') = Cardinality(Reserved) - 1
      BY <3>4, <3>5, FiniteOps, FS_RemoveElement
    <3>7. Cardinality(Reserved') \in Nat
      <4>1. IsFiniteSet(Reserved')
        BY <3>4, FiniteOps, FS_Subset
      <4>. QED BY <4>1, FS_CardinalityType
    <3>. QED BY <1>a, <1>3, <3>6, <3>7, FiniteOps, Sizes DEF SpaceReserved
  <2>. QED BY <2>1, <2>2
<1>8. outstanding' # 0
  BY <1>1, <1>4, LastAlone DEF Active
<1>9. Len(lh') <= LOGSIZE /\ Len(head') <= LOGSIZE
  BY <1>1, <1>3, <1>7, Sizes DEF SpaceReserved
<1>. QED BY <1>1, <1>4, <1>6, <1>7, <1>8, <1>9 DEF SpaceReserved

\* The test of log_write takes nothing from the reservation yet.
LEMMA SpaceWrite ==
  ASSUME Control, SpaceReserved, NEW p \in Op, NEW b \in Block, NEW v \in Val,
         LogWrite(p, b, v)
  PROVE  SpaceReserved'
<1>1. /\ pc[p] = "op" /\ UNCHANGED <<head, lh, wrote, outstanding, committing, boot>>
      /\ held' = [held EXCEPT ![p] = {b}] /\ pc' = [pc EXCEPT ![p] = "append"]
      /\ Cardinality(wrote[p] \union {b}) <= OpBlocks
  BY DEF LogWrite, MayWrite, At, logVars, bootVars, diskVars
<1>2. /\ Active' = Active /\ \A q \in Op : InOp(q)' <=> InOp(q)
      /\ \A q \in Op : held'[q] = IF q = p THEN {b} ELSE held[q]
  BY <1>1 DEF Active, InOp, Control, TypeOK
<1>3. ASSUME NEW q \in Op PROVE Cardinality(wrote'[q] \union held'[q]) <= OpBlocks
  <2>1. CASE q = p
    <3>1. wrote'[q] \union held'[q] = wrote[p] \union {b}
      BY <1>1, <1>2, <2>1
    <3>. QED BY <1>1, <3>1
  <2>2. CASE q # p
    <3>1. wrote'[q] \union held'[q] = wrote[q] \union held[q]
      BY <1>1, <1>2, <2>2
    <3>. QED BY <3>1 DEF SpaceReserved
  <2>. QED BY <2>1, <2>2
<1>4. Reserved' = Reserved
  BY <1>1, <1>2 DEF Reserved
<1>5. \A q \in Op : InOp(q)' => wrote'[q] \subseteq Logged(lh)'
  <2>1. Logged(lh)' = Logged(lh) /\ wrote' = wrote
    BY <1>1 DEF Logged
  <2>. QED BY <1>2, <2>1 DEF SpaceReserved
<1>6. /\ outstanding' = Cardinality(Active') /\ Len(lh') <= LOGSIZE /\ Len(head') <= LOGSIZE
      /\ boot' = "up" => Len(lh') + Cardinality(Reserved') <= LOGSIZE
      /\ boot' = "up" /\ outstanding' = 0 /\ committing' = 0 => lh' = <<>>
  BY <1>1, <1>2, <1>4 DEF SpaceReserved
<1>. QED BY ONLY <1>3, <1>5, <1>6 DEF SpaceReserved

\* An operation that ends gives its reservation back.
LEMMA SpaceEnd ==
  ASSUME Control, SpaceReserved, NEW p \in Op, EndOp(p)
  PROVE  SpaceReserved'
<1>1. /\ pc[p] = "op" /\ boot = "up" /\ UNCHANGED <<head, lh, wrote, held, boot>>
      /\ outstanding' = outstanding - 1 /\ committing = 0
      /\ outstanding = 1 => committing' = 1
  BY DEF EndOp, At, Up, LastOp, bootVars, diskVars
<1>2. outstanding >= 1 /\ outstanding \in Nat
  BY <1>1, LastAlone DEF InOp
<1>3. Active' = Active \ {p} /\ p \in Active
  BY <1>1 DEF EndOp, WakeDone, Wake, Active, InOp, Control, TypeOK
<1>4. Cardinality(Active') = Cardinality(Active) - 1
  BY <1>3, FiniteOps, FS_RemoveElement
<1>5. Reserved' \in SUBSET Reserved
  BY <1>1, <1>3 DEF Reserved
<1>6. Cardinality(Reserved') <= Cardinality(Reserved) /\ Cardinality(Reserved') \in Nat
  BY <1>5, FiniteOps, FS_Subset, FS_CardinalityType
<1>7. \A q \in Op : InOp(q)' => InOp(q)
  BY <1>3 DEF Active
<1>8. Len(lh) \in Nat
  BY DEF Control, TypeOK
<1>9. Len(lh') + Cardinality(Reserved') <= LOGSIZE
  BY <1>1, <1>6, <1>8, FiniteOps, Sizes DEF SpaceReserved
<1>10. \A q \in Op : /\ Cardinality(wrote'[q] \union held'[q]) <= OpBlocks
                     /\ InOp(q)' => wrote'[q] \subseteq Logged(lh)'
  <2>1. Logged(lh)' = Logged(lh)
    BY <1>1 DEF Logged
  <2>2. wrote' = wrote /\ held' = held
    BY <1>1
  <2>. QED BY <1>7, <2>1, <2>2 DEF SpaceReserved
<1>11. /\ outstanding' = Cardinality(Active')
       /\ outstanding' = 0 => committing' = 1
       /\ Len(lh') <= LOGSIZE /\ Len(head') <= LOGSIZE
  BY <1>1, <1>2, <1>4 DEF SpaceReserved
<1>. QED BY ONLY <1>9, <1>10, <1>11 DEF SpaceReserved

\* A step that begins, ends and logs nothing.
LEMMA SpaceSame ==
  ASSUME SpaceReserved, Active' = Active, UNCHANGED <<lh, wrote, held, outstanding>>,
         Len(head') <= LOGSIZE,
         boot' = "up" => boot = "up",
         committing' = 0 => committing = 0 \/ lh = <<>>
  PROVE  SpaceReserved'
<1>1. Reserved' = Reserved /\ \A q \in Op : InOp(q)' <=> InOp(q)
  BY DEF Reserved, Active
<1>. QED BY <1>1 DEF SpaceReserved, Logged

\* Without operations in progress nothing is reserved.
LEMMA SpaceNone ==
  ASSUME Active' = {}, \A q \in Op : Cardinality(wrote'[q] \union held'[q]) <= OpBlocks,
         Len(head') <= LOGSIZE, Len(lh') <= LOGSIZE,
         outstanding' = 0, boot' = "up" => lh' = <<>>
  PROVE  SpaceReserved'
<1>1. Reserved' = {} /\ \A q \in Op : ~InOp(q)'
  BY DEF Active, Reserved
<1>2. boot' = "up" => Len(lh') = 0
  OBVIOUS
<1>. QED BY <1>1, <1>2, FS_EmptySet, Sizes DEF SpaceReserved

\* While an operation is in progress the list leaves free what the operation
\* never uses of its reservation.
LeavesRoom ==
  \A p \in Op : InOp(p) /\ boot = "up" =>
    Len(lh) \in Nat /\ Len(lh) <= LOGSIZE - (MAXOPBLOCKS - OpBlocks)

LEMMA OwnRoom == TypeOK /\ SpaceReserved => LeavesRoom
<1>. SUFFICES ASSUME TypeOK, SpaceReserved, NEW p \in Op, InOp(p), boot = "up"
              PROVE  Len(lh) \in Nat /\ Len(lh) <= LOGSIZE - (MAXOPBLOCKS - OpBlocks)
  BY DEF LeavesRoom
<1>1. Cardinality(Reserved) >= MAXOPBLOCKS - Cardinality(wrote[p])
  BY OwnReserve
<1>2. Cardinality(wrote[p]) \in Nat /\ Cardinality(wrote[p]) <= OpBlocks
  BY FiniteWrote
<1>3. Len(lh) \in Nat /\ Len(lh) + Cardinality(Reserved) <= LOGSIZE
  BY DEF TypeOK, SpaceReserved
<1>. QED BY <1>1, <1>2, <1>3, FiniteOps, Sizes

\* An operation in progress meets no panic if it keeps blocks to spare.
LEMMA NoPanicStep ==
  ASSUME Control, SpaceReserved, Spare, NEW p \in Op
  PROVE  ~Panic(p)
<1>. SUFFICES ASSUME Panic(p) PROVE FALSE
  OBVIOUS
<1>1. pc[p] = "op" /\ boot = "up"
  BY DEF Panic, At, Up
<1>2. committing = 0
  BY <1>1 DEF Control, TypeOK, CommitAlone, Active, InOp
<1>3. outstanding >= 1 /\ outstanding \in Nat
  BY <1>1, LastAlone DEF InOp
<1>4. Len(lh) \in Nat /\ Len(lh) <= LOGSIZE - (MAXOPBLOCKS - OpBlocks)
  BY <1>1, OwnRoom DEF Control, LeavesRoom, InOp
<1>5. ~LogFull
  BY <1>4, Sizes DEF Spare, LogFull
<1>. QED BY <1>2, <1>3, <1>5 DEF Panic

\* A process that must sleep leaves somebody behind that will wake it.
LEMMA SleepWaker ==
  ASSUME Control, SpaceReserved, NEW p \in Op, BeginSleep(p)
  PROVE  outstanding > 0 \/ committing = 1
<1>. SUFFICES ASSUME outstanding = 0, committing = 0 PROVE FALSE
  BY DEF Control, TypeOK
<1>1. ~Room /\ boot = "up"
  BY DEF BeginSleep, Entering, At, Up
<1>2. Len(lh) = 0
  BY <1>1 DEF SpaceReserved
<1>. QED BY <1>1, <1>2, Sizes DEF Room

\* Every action keeps the invariant of control and space.
LEMMA SpaceStep ==
  ASSUME SpaceInv, [Next]_vars
  PROVE  SpaceInv'
<1>0. Control /\ SpaceReserved
  BY DEF SpaceInv, Control
<1>. USE <1>0
<1>a. ASSUME Control', SpaceReserved', SleeperHasWaker', Enough => LogFits',
             Spare => panicked' = 0
      PROVE  SpaceInv'
  BY <1>a DEF SpaceInv, Control, NoPanic, Spare, Enough
<1>b. SleeperHasWaker /\ (Spare => panicked = 0) /\ (Enough => LogFits)
  BY DEF SpaceInv, NoPanic
<1>c. ASSUME UNCHANGED <<lh, head>> PROVE Enough => LogFits'
  BY <1>b, <1>c DEF LogFits
<1>d. Len(head) <= LOGSIZE /\ Len(lh) <= LOGSIZE
  BY DEF SpaceReserved
<1>1. ASSUME NEW p \in Op, BeginOp(p) PROVE SpaceInv'
  <2>1. SleeperHasWaker'
    BY <1>1, FiniteOps DEF BeginOp, SleeperHasWaker, SpaceReserved
  <2>2. UNCHANGED <<head, lh, panicked>>
    BY <1>1 DEF BeginOp, bootVars, diskVars
  <2>. QED BY <1>1, <1>a, <1>b, <1>c, <2>1, <2>2, ControlOps, SpaceBegin
<1>2. ASSUME NEW p \in Op, BeginSleep(p) PROVE SpaceInv'
  <2>1. /\ UNCHANGED <<head, lh, wrote, held, outstanding, committing, boot, panicked>>
        /\ pc' = [pc EXCEPT ![p] = "sleep"] /\ ~InOp(p)
    BY <1>2 DEF BeginSleep, Entering, At, diskVars, logVars, bootVars, InOp
  <2>2. SleeperHasWaker'
    BY <1>2, <2>1, SleepWaker DEF SleeperHasWaker
  <2>3. Active' = Active
    BY <2>1 DEF Active, InOp, Control, TypeOK
  <2>4. SpaceReserved'
    BY <1>d, <2>1, <2>3, SpaceSame
  <2>. QED BY <1>2, <1>a, <1>b, <1>c, <2>1, <2>2, <2>4, ControlOps
<1>3. ASSUME NEW p \in Op, EndOp(p) PROVE SpaceInv'
  <2>1. outstanding >= 1 /\ outstanding \in Nat
    BY <1>3, LastAlone DEF EndOp, At, InOp
  <2>2. SleeperHasWaker'
    BY <1>3, <2>1 DEF EndOp, LastOp, WakeDone, Wake, SleeperHasWaker, Control, TypeOK
  <2>3. UNCHANGED <<head, lh, panicked>>
    BY <1>3 DEF EndOp, bootVars, diskVars
  <2>. QED BY <1>3, <1>a, <1>b, <1>c, <2>2, <2>3, ControlOps, SpaceEnd
<1>4. ASSUME NEW p \in Op, Panic(p) PROVE SpaceInv'
  <2>1. UNCHANGED <<head, lh, wrote, held, outstanding, committing, boot, pc>>
    BY <1>4 DEF Panic, opVars, logVars, diskVars
  <2>2. SpaceReserved' /\ SleeperHasWaker'
    BY <1>b, <1>d, <2>1, SpaceSame DEF Active, InOp, SleeperHasWaker
  <2>. QED BY <1>4, <1>a, <1>c, <2>1, <2>2, ControlOps, NoPanicStep
<1>5. ASSUME NEW p \in Op, NEW b \in Block, NEW v \in Val, LogWrite(p, b, v)
      PROVE  SpaceInv'
  <2>1. /\ UNCHANGED <<head, lh, outstanding, committing, panicked>>
        /\ pc' = [pc EXCEPT ![p] = "append"]
    BY <1>5 DEF LogWrite, logVars, bootVars, diskVars
  <2>2. SleeperHasWaker'
    BY <1>b, <2>1 DEF SleeperHasWaker, Control, TypeOK
  <2>. QED BY <1>5, <1>a, <1>b, <1>c, <2>1, <2>2, ControlOps, SpaceWrite
<1>11. ASSUME NEW p \in Op, LogAppend(p) PROVE SpaceInv'
  <2>1. /\ UNCHANGED <<head, outstanding, committing, panicked, boot>>
        /\ pc' = [pc EXCEPT ![p] = "op"] /\ boot = "up"
    BY <1>11 DEF LogAppend, At, Up, logVars, bootVars, diskVars
  <2>2. SleeperHasWaker'
    BY <1>b, <2>1 DEF SleeperHasWaker, Control, TypeOK
  <2>3. Control' /\ SpaceReserved'
    BY <1>11, ControlOps, SpaceAppend
  <2>4. Len(lh') <= LOGSIZE - (MAXOPBLOCKS - OpBlocks) /\ Len(lh') \in Nat
    <3>1. TypeOK' /\ InOp(p)' /\ boot' = "up"
      BY <2>1, <2>3 DEF Control, TypeOK, InOp
    <3>2. LeavesRoom'
      BY <2>3, OwnRoom, PTL DEF Control
    <3>. QED BY <3>1, <3>2 DEF LeavesRoom
  <2>5. Enough => LogFits'
    BY <1>b, <2>1, <2>4, Sizes DEF Enough, LogFits
  <2>. QED BY <1>a, <1>b, <2>1, <2>2, <2>3, <2>5
<1>6. ASSUME NEW p \in Op, Commit(p) PROVE SpaceInv'
  <2>1. /\ pc[p] \in CommitPc /\ UNCHANGED <<wrote, held, outstanding, boot, panicked>>
        /\ \A q \in Op : InOp(q)' <=> InOp(q)
    BY <1>6 DEF Commit, WriteLog, WriteHead, Install, Erase, CommitDone, At, Up, InOp,
                WakeDone, Wake, CommitPc, logVars, bootVars, Control, TypeOK
  <2>2. /\ committing = 1 /\ outstanding = 0 /\ Active = {}
    BY <2>1 DEF Control, CommitAlone
  <2>3. Active' = Active
    BY <2>1 DEF Active
  <2>6. /\ head' \in {head, lh, <<>>} /\ lh' \in {lh, <<>>}
        /\ Len(<<>>) = 0 /\ Len(head') <= LOGSIZE /\ Len(lh') <= LOGSIZE
    BY <1>6, <1>d, Sizes DEF Commit, WriteLog, WriteHead, Install, Erase, EmptyLh,
                CommitDone, diskVars
  <2>7. Enough => LogFits'
    BY <1>b, <2>6, Sizes DEF LogFits, Enough
  <2>4. CASE lh' = lh
    <3>1. committing' = 0 => lh = <<>>
      BY <1>6, <2>2 DEF Commit, WriteLog, WriteHead, Install, Erase, CommitDone,
                        At, logVars, Control, TailInRange
    <3>2. SpaceReserved'
      BY <2>1, <2>3, <2>4, <2>6, <3>1, SpaceSame
    <3>3. SleeperHasWaker'
      BY <1>6, <2>1, <2>2
         DEF Commit, WriteLog, WriteHead, Install, Erase, CommitDone, WakeDone,
             Wake, SleeperHasWaker, logVars, Control, TypeOK, CommitPc
    <3>. QED BY <1>6, <1>a, <1>b, <2>1, <2>7, <3>2, <3>3, ControlCommit
  <2>5. CASE Erase(p)
    <3>1. lh' = <<>> /\ committing' = 1
      BY <2>2, <2>5 DEF Erase, EmptyLh, logVars
    <3>2. SpaceReserved'
      BY <2>1, <2>2, <2>3, <2>6, <3>1, SpaceNone DEF SpaceReserved
    <3>3. SleeperHasWaker'
      BY <3>1 DEF SleeperHasWaker
    <3>. QED BY <1>6, <1>a, <1>b, <2>1, <2>7, <3>2, <3>3, ControlCommit
  <2>. QED BY <1>6, <2>4, <2>5
           DEF Commit, WriteLog, WriteHead, Install, CommitDone
<1>7. ASSUME NEW b \in Block, Evict(b) PROVE SpaceInv'
  <2>1. UNCHANGED <<head, lh, wrote, held, outstanding, committing, boot, panicked, pc>>
    BY <1>7 DEF Evict, opVars, logVars, bootVars, diskVars
  <2>2. SpaceReserved' /\ SleeperHasWaker'
    BY <1>b, <1>d, <2>1, SpaceSame DEF Active, InOp, SleeperHasWaker
  <2>. QED BY <1>7, <1>a, <1>b, <1>c, <2>1, <2>2, ControlBoot
<1>8. CASE Crash
  <2>1. /\ outstanding' = 0 /\ boot' # "up" /\ panicked' = 0
        /\ head' = head /\ lh' = <<>> /\ Len(lh') = 0
        /\ \A q \in Op : pc'[q] = "idle" /\ wrote'[q] = {} /\ held'[q] = {}
    BY <1>8 DEF Crash, diskVars
  <2>2. SpaceReserved' /\ SleeperHasWaker'
    <3>1. /\ \A q \in Op : Cardinality(wrote'[q] \union held'[q]) <= OpBlocks
          /\ Active' = {} /\ Len(lh') <= LOGSIZE
      <4>1. \A q \in Op : wrote'[q] \union held'[q] = {}
        BY <2>1
      <4>2. \A q \in Op : Cardinality(wrote'[q] \union held'[q]) = 0
        BY <4>1, FS_EmptySet
      <4>3. Active' = {} /\ Len(lh') <= LOGSIZE
        BY <2>1, Sizes DEF Active, InOp
      <4>. QED BY ONLY <4>2, <4>3, Sizes
    <3>2. SpaceReserved'
      BY <1>d, <2>1, <3>1, SpaceNone
    <3>. QED BY <2>1, <3>2 DEF SleeperHasWaker
  <2>3. Enough => LogFits'
    BY <1>b, <2>1, Sizes DEF LogFits, Enough
  <2>. QED BY <1>8, <1>a, <2>1, <2>2, <2>3, ControlBoot
<1>9. CASE Recover
  <2>1. /\ UNCHANGED <<wrote, held, outstanding, panicked, pc>>
        /\ boot # "up" /\ (boot' = "up" => lh' = <<>>)
        /\ head' \in {head, <<>>} /\ lh' \in {head, lh, <<>>}
    BY <1>9 DEF Recover, ReadHead, RecoverInstall, RecoverClear, logVars, opVars, diskVars
  <2>2. outstanding = 0 /\ Active' = {} /\ \A q \in Op : pc[q] = "idle"
    BY <2>1 DEF Control, CommitAlone, Active, InOp
  <2>3. Len(<<>>) = 0 /\ Len(head') <= LOGSIZE /\ Len(lh') <= LOGSIZE
    BY <1>d, <2>1, Sizes
  <2>4. SpaceReserved' /\ SleeperHasWaker'
    BY <2>1, <2>2, <2>3, SpaceNone DEF SleeperHasWaker, SpaceReserved
  <2>5. Enough => LogFits'
    BY <1>b, <2>1, <2>3, Sizes DEF LogFits, Enough
  <2>. QED BY <1>9, <1>a, <1>b, <2>1, <2>4, <2>5, ControlBoot
<1>10. CASE UNCHANGED vars
  <2>1. UNCHANGED <<head, lh, wrote, held, outstanding, committing, boot, panicked, pc>>
    BY <1>10 DEF vars, opVars, logVars, bootVars, diskVars
  <2>2. SpaceReserved' /\ SleeperHasWaker'
    BY <1>b, <1>d, <2>1, SpaceSame DEF Active, InOp, SleeperHasWaker
  <2>3. Control'
    BY <1>10 DEF vars, diskVars, cacheVars, logVars, opVars, bootVars, Control,
                 TypeOK, CommitAlone, TailInRange, HeldBuffers, Active, InOp
  <2>. QED BY <1>a, <1>b, <1>c, <2>1, <2>2, <2>3
<1>. QED BY <1>1, <1>2, <1>3, <1>4, <1>5, <1>6, <1>7, <1>8, <1>9, <1>10, <1>11 DEF Next

(***************************************************************************)
(* The theorems about control and space.                                   *)
(***************************************************************************)
\* Control and space are in order in every reachable state.
THEOREM LogSpaceInvariant == Spec => []SpaceInv
<1>. QED BY LogInit, SpaceStep, PTL DEF Spec

\* No operation ever meets a panic of the log, whatever the number of
\* processes and blocks, if operations leave the spare blocks of Spare unused.
THEOREM LogNoPanic == Spare => (Spec => []NoPanic)
<1>. SUFFICES ASSUME Spare PROVE Spec => []NoPanic
  OBVIOUS
<1>1. SpaceInv => NoPanic
  BY DEF SpaceInv
<1>. QED BY <1>1, LogSpaceInvariant, PTL

\* Nobody sleeps in begin_op without an operation or a commit that wakes it.
THEOREM LogSleeperHasWaker == Spec => []SleeperHasWaker
<1>1. SpaceInv => SleeperHasWaker
  BY DEF SpaceInv
<1>. QED BY <1>1, LogSpaceInvariant, PTL

----------------------------------------------------------------------------
(***************************************************************************)
(* Crashes: the log implements AtomicDisk.                                 *)
(***************************************************************************)
(***************************************************************************)
(* Lemmas about the logged blocks.                                         *)
(***************************************************************************)
\* The log block of a logged block is found, the other blocks shine through.
LEMMA OverlayAt ==
  ASSUME NEW s \in Seq(Block), Injective(s), NEW blk, NEW rest
  PROVE  /\ \A i \in 1..Len(s) : Overlay(s, blk, rest)[s[i]] = blk[i]
         /\ \A b \in Block : b \notin Logged(s) => Overlay(s, blk, rest)[b] = rest[b]
<1>1. ASSUME NEW i \in 1..Len(s)
      PROVE  Overlay(s, blk, rest)[s[i]] = blk[i]
  <2>1. s[i] \in Block /\ s[i] \in Logged(s)
    BY DEF Logged
  <2>2. (CHOOSE j \in 1..Len(s) : s[j] = s[i]) = i
    BY DEF Injective
  <2>. QED BY <2>1, <2>2 DEF Overlay
<1>. QED BY <1>1 DEF Overlay

\* Two disks with the same logged blocks recover to the same contents.
LEMMA OverlaySame ==
  ASSUME NEW s \in Seq(Block), NEW blk, NEW rest, NEW new,
         \A b \in Block : b \notin Logged(s) => new[b] = rest[b]
  PROVE  Overlay(s, blk, new) = Overlay(s, blk, rest)
BY DEF Overlay

\* A disk that has the logged blocks at home recovers to itself.
LEMMA OverlayHome ==
  ASSUME NEW s \in Seq(Block), Injective(s), NEW blk, NEW rest \in [Block -> Val],
         \A i \in 1..Len(s) : rest[s[i]] = blk[i]
  PROVE  Overlay(s, blk, rest) = rest
<1>1. ASSUME NEW b \in Block PROVE Overlay(s, blk, rest)[b] = rest[b]
  <2>1. CASE b \in Logged(s)
    BY <2>1, OverlayAt DEF Logged
  <2>2. CASE b \notin Logged(s)
    BY <2>2, OverlayAt
  <2>. QED BY <2>1, <2>2
<1>2. Overlay(s, blk, rest) = [b \in Block |-> Overlay(s, blk, rest)[b]]
  BY DEF Overlay
<1>. QED BY <1>1, <1>2

\* Appending a new block keeps the list free of repetitions.
LEMMA AppendInjective ==
  ASSUME NEW s \in Seq(Block), Injective(s), NEW b \in Block, b \notin Logged(s)
  PROVE  Injective(Append(s, b)) /\ Logged(Append(s, b)) = Logged(s) \union {b}
BY DEF Injective, Logged

LEMMA EmptyList == Logged(<<>>) = {} /\ Injective(<<>>)
BY DEF Logged, Injective

(***************************************************************************)
(* The invariant about the copies of a block.                              *)
(***************************************************************************)
LEMMA DataInit == Init => DataInv
BY EmptyList
   DEF Init, DataInv, Clean, NotCommitted, Installing, CommitPc

\* A list that fits the log is copied to data blocks of the log only.
LEMMA TailInSlot ==
  ASSUME Control, LogFits, tail <= Len(lh)
  PROVE  tail \in Slot /\ tail \in 1..Len(lh) /\ LogCopy(tail) = logblk[tail]
BY Sizes DEF Control, TypeOK, LogFits, Slot, LogCopy

\* Somebody commits: nobody else does, and no operation is in progress.
LEMMA Committer ==
  ASSUME Control, NEW p \in Op, pc[p] \in CommitPc
  PROVE  /\ boot = "up" /\ committing = 1
         /\ \A q \in Op : q # p => pc[q] \notin CommitPc
         /\ Active = {} /\ Held = {}
BY DEF Control, CommitAlone, TypeOK, CommitPc, Active, InOp, HeldBuffers, Held

\* Nobody commits while an operation is in progress or may begin.
LEMMA NoCommitter ==
  ASSUME Control, committing = 0
  PROVE  \A q \in Op : pc[q] \notin CommitPc
BY DEF Control, CommitAlone

\* Nobody holds a buffer while the system boots.
LEMMA BootHolds ==
  ASSUME Control, boot # "up"
  PROVE  Held = {}
BY DEF Control, CommitAlone, HeldBuffers, Held

\* Operations that begin, sleep or end move no data, nor does the end of a
\* commit.
LEMMA DataOps ==
  ASSUME Control, DataInv, NEW p \in Op,
         BeginOp(p) \/ BeginSleep(p) \/ EndOp(p) \/ Panic(p) \/ CommitDone(p)
  PROVE  DataInv'
<1>1. UNCHANGED <<diskVars, cacheVars, lh, held, boot>> /\ boot = "up"
  BY DEF BeginOp, BeginSleep, EndOp, Panic, CommitDone, Entering, At, Up, bootVars, opVars
<1>. USE DEF CommitPc
<1>2. ASSUME NotCommitted' \/ Committed' PROVE DataInv'
  BY <1>1, <1>2 DEF DataInv, Clean, Held, diskVars, cacheVars
<1>3. NotCommitted \/ Committed
  BY <1>1 DEF DataInv
<1>4. ASSUME NotCommitted,
             \A q \in Op : /\ pc'[q] \in CommitPc \ {"done"} => tail' = 1 \/ UNCHANGED <<tail, pc>>
                           /\ pc'[q] \notin {"install", "erase", "write_head"} \/ UNCHANGED <<tail, pc>>
      PROVE  NotCommitted'
  BY <1>1, <1>4 DEF NotCommitted, Copied, diskVars, cacheVars
<1>5. CASE BeginOp(p) \/ EndOp(p) \/ CommitDone(p)
  <2>1. \A q \in Op \ {p} : pc[q] \notin CommitPc
    BY <1>5, NoCommitter, Committer DEF BeginOp, EndOp, CommitDone, At
  <2>2. pc[p] \notin {"install", "erase"}
    BY <1>5 DEF BeginOp, EndOp, CommitDone, At, Entering
  <2>3. NotCommitted
    BY <1>3, <2>1, <2>2 DEF Committed
  <2>4. \A q \in Op : pc'[q] \in CommitPc =>
        \/ pc'[q] = "write_log" /\ tail' = 1
        \/ pc'[q] = "done"
    BY <1>5, <2>1 DEF BeginOp, EndOp, CommitDone, WakeDone, Wake, Control, TypeOK
  <2>. QED BY <1>2, <1>4, <2>3, <2>4
<1>6. CASE BeginSleep(p)
  <2>1. tail' = tail /\ \A q \in Op : pc[q] \in CommitPc \/ pc'[q] \in CommitPc => pc'[q] = pc[q]
    BY <1>6 DEF BeginSleep, Entering, At, Control, TypeOK
  <2>2. NotCommitted => NotCommitted'
    BY <1>1, <2>1 DEF NotCommitted, Copied, diskVars, cacheVars
  <2>3. Committed => Committed'
    BY <1>1, <2>1 DEF Committed, Installing, Copied, diskVars, cacheVars
  <2>. QED BY <1>2, <1>3, <2>2, <2>3
<1>7. CASE Panic(p)
  <2>1. UNCHANGED <<pc, tail>>
    BY <1>7 DEF Panic, opVars
  <2>. QED BY <1>1, <1>2, <1>3, <2>1
           DEF NotCommitted, Committed, Installing, Copied, diskVars, cacheVars
<1>. QED BY <1>5, <1>6, <1>7

\* A write changes a block only in the cache, where its process holds it ...
LEMMA DataWrite ==
  ASSUME Control, DataInv, NEW p \in Op, NEW b \in Block, NEW v \in Val,
         LogWrite(p, b, v)
  PROVE  DataInv'
<1>1. /\ UNCHANGED <<home, logblk, head, dirty, lh, tail, boot>> /\ boot = "up"
      /\ pc[p] = "op" /\ pc' = [pc EXCEPT ![p] = "append"]
      /\ cache' = [cache EXCEPT ![b] = v] /\ held' = [held EXCEPT ![p] = {b}]
  BY DEF LogWrite, MayWrite, At, Up, diskVars, bootVars
<1>2. \A q \in Op : pc[q] \notin CommitPc
  BY <1>1, Committer DEF Active, InOp
<1>3. NotCommitted
  BY <1>1, <1>2 DEF DataInv, Committed, CommitPc
<1>4. \A q \in Op : pc'[q] \notin CommitPc
  BY <1>1, <1>2 DEF CommitPc, Control, TypeOK
<1>5. NotCommitted'
  BY <1>1, <1>3, <1>4 DEF NotCommitted, CommitPc, Logged
<1>6. Clean'
  <2>1. held[p] = {} /\ held'[p] = {b} /\ \A q \in Op \ {p} : held'[q] = held[q]
    BY <1>1 DEF Control, TypeOK, HeldBuffers
  <2>2. Held' = Held \union {b}
    BY <2>1 DEF Held
  <2>3. \A c \in Block : c # b => cache'[c] = cache[c]
    BY <1>1 DEF Control, TypeOK
  <2>. QED BY <1>1, <2>2, <2>3 DEF DataInv, Clean
<1>. QED BY <1>1, <1>5, <1>6 DEF DataInv, Injective

\* ... and log_write pins it there.
LEMMA DataAppend ==
  ASSUME Control, DataInv, NEW p \in Op, LogAppend(p)
  PROVE  DataInv'
<1>a. pc[p] = "append" /\ boot = "up"
  BY DEF LogAppend, At, Up
<1>b. PICK b \in Block : held[p] = {b}
  BY <1>a DEF Control, HeldBuffers
<1>1. /\ UNCHANGED <<home, logblk, head, cache, tail, boot>>
      /\ lh' = IF b \in Logged(lh) THEN lh ELSE Append(lh, b)
      /\ dirty' = dirty \union {b} /\ held' = [held EXCEPT ![p] = {}]
      /\ pc' = [pc EXCEPT ![p] = "op"]
  BY <1>b DEF LogAppend, Pin, diskVars, bootVars
<1>2. \A q \in Op : pc[q] \notin CommitPc
  BY <1>a, Committer DEF Active, InOp
<1>3. NotCommitted
  BY <1>a, <1>2 DEF DataInv, Committed, CommitPc
<1>4. Injective(lh') /\ Logged(lh') = Logged(lh) \union {b}
  BY <1>1, AppendInjective DEF DataInv, Control, TypeOK
<1>5. NotCommitted'
  <2>1. \A q \in Op : pc'[q] \notin CommitPc
    BY <1>1, <1>2 DEF CommitPc, Control, TypeOK
  <2>2. head' = <<>> /\ dirty' \subseteq Logged(lh')
    BY <1>1, <1>3, <1>4 DEF NotCommitted
  <2>. QED BY <2>1, <2>2 DEF NotCommitted, CommitPc, Logged
<1>6. Clean'
  <2>1. Held \subseteq Held' \union {b}
    BY <1>b, <1>1 DEF Held, Control, TypeOK
  <2>. QED BY <1>1, <2>1 DEF DataInv, Clean
<1>. QED BY <1>a, <1>1, <1>4, <1>5, <1>6 DEF DataInv, Injective

\* The blocks are copied to the log, then the header is written.
LEMMA DataCommit ==
  ASSUME Control, LogFits, DataInv, NEW p \in Op, WriteLog(p) \/ WriteHead(p)
  PROVE  DataInv'
<1>1. /\ UNCHANGED <<home, cache, dirty, lh, held, boot>> /\ boot = "up"
      /\ pc[p] \in {"write_log", "write_head"}
  BY TailInSlot DEF WriteLog, WriteHead, At, Up, cacheVars, bootVars, Control, TailInRange
<1>2. \A q \in Op \ {p} : pc[q] \notin CommitPc
  BY <1>1, Committer DEF CommitPc
<1>3. NotCommitted
  BY <1>1, <1>2 DEF DataInv, Committed, CommitPc
<1>4. Clean' /\ Injective(lh)'
  BY <1>1 DEF DataInv, Clean, Held, Injective
<1>5. CASE WriteLog(p)
  <2>1. /\ tail \in 1..Len(lh) /\ tail \in Slot /\ tail' = tail + 1 /\ head' = head
        /\ logblk' = [logblk EXCEPT ![tail] = cache[lh[tail]]]
        /\ pc' = [pc EXCEPT ![p] = IF tail = Len(lh) THEN "write_head" ELSE @]
    BY <1>5, TailInSlot DEF WriteLog, At, Control, TailInRange
  <2>2. Copied(lh, tail - 1, cache, logblk)
    BY <1>3, <1>5 DEF NotCommitted, WriteLog, At
  <2>3. Copied(lh, tail, cache, logblk')
    BY <2>1, <2>2 DEF Copied, Control, TypeOK
  <2>4. NotCommitted'
    BY <1>1, <1>2, <1>3, <2>1, <2>3
       DEF NotCommitted, Copied, CommitPc, Logged, Control, TypeOK
  <2>. QED BY <1>1, <1>4, <2>1, <2>4 DEF DataInv, Injective
<1>6. CASE WriteHead(p)
  <2>1. head' = lh /\ tail' = 1 /\ logblk' = logblk /\ pc'[p] = "install"
    BY <1>6 DEF WriteHead, Control, TypeOK
  <2>2. Copied(lh, Len(lh), cache, logblk)
    BY <1>3, <1>6 DEF NotCommitted, WriteHead, At
  <2>3. Committed'
    <3>1. Installing'
      BY <1>1, <2>1 DEF Installing, Control, TypeOK
    <3>2. Copied(lh, Len(lh), cache, logblk)'
      BY <1>1, <2>1, <2>2 DEF Copied
    <3>3. \A b \in dirty' : \E i \in 1..Len(lh') : i >= tail' /\ lh'[i] = b
      BY <1>1, <1>3, <2>1 DEF NotCommitted, Logged
    <3>. QED BY <2>1, <3>1, <3>2, <3>3 DEF Committed
  <2>. QED BY <1>1, <1>4, <2>1, <2>3 DEF DataInv, Injective
<1>. QED BY <1>5, <1>6

\* One round of install_trans brings one block home.
LEMMA OneInstalled ==
  ASSUME Control, LogFits, DataInv, Installing, InstallTrans, tail <= Len(lh),
         UNCHANGED <<logblk, head, lh, held>>, Held = {}
  PROVE  /\ Installing' /\ Clean' /\ lh[tail] \in Block
         /\ \A b \in Block : b # lh[tail] => home'[b] = home[b] /\ cache'[b] = cache[b]
         /\ home'[lh[tail]] = logblk[tail] /\ cache'[lh[tail]] = logblk[tail]
<1>1. tail \in 1..Len(lh) /\ lh[tail] \in Block /\ LogCopy(tail) = logblk[tail]
  BY TailInSlot DEF Control, TypeOK
<1>2. /\ \A b \in Block : b # lh[tail] => home'[b] = home[b] /\ cache'[b] = cache[b]
      /\ home'[lh[tail]] = logblk[tail] /\ cache'[lh[tail]] = logblk[tail]
      /\ dirty' = dirty \ {lh[tail]} /\ tail' = tail + 1
  BY <1>1 DEF InstallTrans, Control, TypeOK
<1>3. ASSUME NEW i \in 1..Len(lh), i < tail + 1 PROVE home'[lh[i]] = logblk[i]
  <2>1. lh[i] \in Block
    BY DEF Control, TypeOK
  <2>2. CASE i = tail
    BY <1>2, <2>2
  <2>3. CASE i # tail
    <3>1. i < tail /\ lh[i] # lh[tail]
      BY <1>1, <1>3, <2>3 DEF DataInv, Injective, Control, TypeOK
    <3>. QED BY <1>2, <2>1, <3>1 DEF Installing
  <2>. QED BY <2>2, <2>3
<1>4. Installing'
  BY <1>2, <1>3 DEF Installing
<1>5. Clean'
  BY <1>2 DEF DataInv, Clean, Held
<1>. QED BY <1>1, <1>2, <1>4, <1>5

\* The blocks are installed, then the transaction is erased from the log.
LEMMA DataInstall ==
  ASSUME Control, LogFits, DataInv, NEW p \in Op, Install(p) \/ Erase(p)
  PROVE  DataInv'
<1>1. pc[p] \in {"install", "erase"} /\ boot = "up" /\ boot' = boot
  BY DEF Install, Erase, At, Up, bootVars
<1>2. Held = {} /\ \A q \in Op \ {p} : pc[q] \notin CommitPc
  BY <1>1, Committer DEF CommitPc
<1>3. Committed
  BY <1>1 DEF DataInv, NotCommitted
<1>4. CASE Install(p)
  <2>1. /\ InstallTrans /\ UNCHANGED <<logblk, head, lh, held>> /\ tail <= Len(lh)
        /\ tail' = tail + 1 /\ dirty' = dirty \ {lh[tail]}
        /\ pc' = [pc EXCEPT ![p] = IF tail = Len(lh) THEN "erase" ELSE "install"]
    BY <1>4 DEF Install, InstallTrans, At, Control, TailInRange, TypeOK
  <2>2. /\ Installing' /\ Clean'
        /\ \A b \in Block : b # lh[tail] => cache'[b] = cache[b]
        /\ cache'[lh[tail]] = logblk[tail]
    BY <1>2, <1>3, <2>1, OneInstalled DEF Committed
  <2>3. Copied(lh, Len(lh), cache, logblk)'
    <3>1. ASSUME NEW i \in 1..Len(lh) PROVE logblk[i] = cache'[lh[i]]
      <4>1. lh[i] \in Block /\ logblk[i] = cache[lh[i]]
        BY <1>3 DEF Committed, Copied, Control, TypeOK
      <4>2. lh[i] = lh[tail] => i = tail
        BY <2>1 DEF DataInv, Injective, Control, TypeOK
      <4>. QED BY <2>2, <4>1, <4>2
    <3>. QED BY <2>1, <3>1 DEF Copied
  <2>4. ASSUME NEW b \in dirty' PROVE \E i \in 1..Len(lh) : i >= tail + 1 /\ lh[i] = b
    <3>1. PICK i \in 1..Len(lh) : i >= tail /\ lh[i] = b
      BY <1>3, <2>1 DEF Committed
    <3>2. i # tail
      BY <2>1, <3>1
    <3>. QED BY <3>1, <3>2 DEF Control, TypeOK
  <2>5. pc'[p] = "install" \/ (pc'[p] = "erase" /\ tail' > Len(lh'))
    BY <2>1 DEF Control, TypeOK
  <2>6. Committed'
    BY <2>1, <2>2, <2>3, <2>4, <2>5 DEF Committed
  <2>. QED BY <1>1, <2>1, <2>2, <2>6 DEF DataInv, Injective
<1>5. CASE Erase(p)
  <2>1. /\ UNCHANGED <<home, logblk, cache, dirty, held>> /\ pc[p] = "erase"
        /\ lh' = <<>> /\ head' = <<>> /\ pc' = [pc EXCEPT ![p] = "done"]
    BY <1>5 DEF Erase, EmptyLh, At, cacheVars
  <2>2. tail > Len(lh)
    BY <1>2, <1>3, <2>1 DEF Committed, CommitPc
  <2>3. dirty = {}
    BY <1>3, <2>2 DEF Committed, Control, TypeOK
  <2>4. NotCommitted'
    BY <1>2, <2>1, <2>3 DEF NotCommitted, CommitPc, Control, TypeOK
  <2>5. Clean'
    BY <2>1 DEF DataInv, Clean, Held
  <2>. QED BY <1>1, <2>1, <2>4, <2>5, EmptyList DEF DataInv
<1>. QED BY <1>4, <1>5

\* Crash and recovery.
LEMMA DataBoot ==
  ASSUME Control, LogFits, DataInv, Crash \/ Recover
  PROVE  DataInv'
<1>a. Recover => Held = {} /\ held' = held
  BY BootHolds DEF Recover, ReadHead, RecoverInstall, RecoverClear, opVars
<1>1. CASE Crash
  <2>1. Clean' /\ Injective(lh)' /\ Injective(head)'
    BY <1>1, EmptyList DEF Crash, DataInv, Clean, Held, Injective, diskVars
  <2>. QED BY <1>1, <2>1 DEF Crash, DataInv
<1>2. CASE ReadHead
  <2>1. UNCHANGED <<home, logblk, head, cache, dirty, tail>> /\ lh' = head /\ tail = 1
    BY <1>2 DEF ReadHead, diskVars, cacheVars, Control, TailInRange
  <2>2. Clean' /\ Injective(lh)' /\ Injective(head)' /\ dirty' = {}
    BY <1>2, <1>a, <2>1 DEF ReadHead, Recover, DataInv, Clean, Held, Injective
  <2>3. Installing'
    BY <2>1 DEF Installing
  <2>. QED BY <1>2, <2>1, <2>2, <2>3 DEF ReadHead, DataInv
<1>3. CASE RecoverInstall
  <2>1. /\ InstallTrans /\ UNCHANGED <<logblk, head, lh, held>> /\ tail <= Len(lh) /\ Installing
        /\ Held = {} /\ tail' = tail + 1 /\ dirty = {} /\ dirty' = {} /\ head = lh
        /\ boot' = IF tail = Len(lh) THEN "clear" ELSE "install"
    BY <1>3, <1>a DEF Recover, RecoverInstall, InstallTrans, Control, TailInRange, DataInv,
                      Installing
  <2>2. Installing' /\ Clean'
    BY <2>1, OneInstalled
  <2>3. boot' = "clear" => \A i \in 1..Len(head') : home'[head'[i]] = logblk'[i]
    BY <2>1, <2>2 DEF Installing, Control, TypeOK
  <2>. QED BY <2>1, <2>2, <2>3 DEF DataInv, Injective
<1>4. CASE RecoverClear
  <2>1. /\ UNCHANGED <<home, logblk, cache, dirty, held, pc>> /\ boot = "clear" /\ boot' = "up"
        /\ lh' = <<>> /\ head' = <<>> /\ dirty = {}
    BY <1>4 DEF RecoverClear, cacheVars, opVars, DataInv
  <2>2. \A q \in Op : pc'[q] = "idle"
    BY <2>1 DEF Control, CommitAlone
  <2>3. NotCommitted'
    BY <2>1, <2>2 DEF NotCommitted
  <2>4. Clean'
    BY <2>1 DEF DataInv, Clean, Held
  <2>. QED BY <2>1, <2>3, <2>4, EmptyList DEF DataInv
<1>. QED BY <1>1, <1>2, <1>3, <1>4 DEF Recover

\* An eviction reads what the buffer held already.
LEMMA EvictNothing ==
  ASSUME Control, DataInv, NEW b \in Block, Evict(b)
  PROVE  UNCHANGED vars
<1>1. cache[b] = home[b]
  BY DEF Evict, DataInv, Clean
<1>2. cache' = cache
  BY <1>1 DEF Evict, Control, TypeOK
<1>. QED BY <1>2 DEF Evict, vars, cacheVars

\* Every action keeps the invariant about the copies.
LEMMA DataStep ==
  ASSUME SpaceInv, Enough, DataInv, [Next]_vars
  PROVE  DataInv'
<1>. Control /\ LogFits
  BY DEF SpaceInv, Control
<1>1. ASSUME UNCHANGED vars PROVE DataInv'
  BY <1>1 DEF vars, diskVars, cacheVars, opVars, bootVars, DataInv, Injective, Clean,
              NotCommitted, Committed, Installing, Copied, Logged, Held
<1>2. CASE Next
  BY <1>1, <1>2, DataOps, DataWrite, DataAppend, DataCommit, DataInstall, DataBoot, EvictNothing
     DEF Next, Commit
<1>. QED BY <1>1, <1>2

(***************************************************************************)
(* The theorems about crashes.                                             *)
(***************************************************************************)
\* The copies of every block agree as each phase of a commit requires, if the
\* log on disk has room for what operations really write (the condition Enough).
THEOREM LogInvariant == Spec => []Inv
<1>1. Init => Inv
  BY LogInit, DataInit DEF Inv
<1>2. Inv /\ [Next]_vars => Inv'
  <2>. SUFFICES ASSUME Inv, [Next]_vars PROVE Inv'
    OBVIOUS
  <2>1. SpaceInv'
    BY SpaceStep DEF Inv
  <2>2. Enough => DataInv'
    BY DataStep DEF Inv
  <2>. QED BY <2>1, <2>2 DEF Inv, Enough
<1>. QED BY <1>1, <1>2, PTL DEF Spec

\* A quiet system has nothing that a crash could take away.
THEOREM LogQuietIsDurable == Enough => (Spec => []QuietIsDurable)
<1>. SUFFICES ASSUME Enough PROVE Spec => []QuietIsDurable
  OBVIOUS
<1>1. Inv => QuietIsDurable
  <2>. SUFFICES ASSUME Inv, Up, outstanding = 0, committing = 0
                PROVE  lh = <<>> /\ head = <<>> /\ dirty = {} /\ cache = home
    BY DEF QuietIsDurable
  <2>1. Control /\ boot = "up" /\ lh = <<>>
    BY DEF Inv, SpaceInv, Control, SpaceReserved, Up
  <2>a. Active = {} /\ Held = {}
    <3>1. Active = {}
      BY FiniteOps, FS_EmptySet DEF Inv, SpaceInv, SpaceReserved
    <3>. QED BY <2>1, <3>1 DEF Active, InOp, Control, HeldBuffers, Held
  <2>2. NotCommitted
    BY <2>1, NoCommitter DEF Inv, DataInv, Committed, CommitPc
  <2>3. head = <<>> /\ dirty = {}
    BY <2>1, <2>2, EmptyList DEF NotCommitted
  <2>4. cache = home
    BY <2>1, <2>3, <2>a DEF Inv, DataInv, Clean, Control, TypeOK
  <2>. QED BY <2>1, <2>3, <2>4
<1>. QED BY <1>1, LogInvariant, PTL

(***************************************************************************)
(* The log implements the atomic disk.                                     *)
(***************************************************************************)
\* A step that leaves the header alone, and the logged blocks in the log and
\* all others at home, does not change what recovery would make of the disk.
LEMMA RecoveredSame ==
  ASSUME Control, UNCHANGED <<head, logblk>>,
         \A b \in Block : b \notin Logged(head) => home'[b] = home[b]
  PROVE  Recovered' = Recovered
<1>1. head \in Seq(Block)
  BY DEF Control, TypeOK
<1>. QED BY <1>1, OverlaySame DEF Recovered

\* Without a committed transaction recovery keeps the home blocks.
LEMMA RecoveredEmpty ==
  ASSUME NEW blk, NEW hm \in [Block -> Val]
  PROVE  Overlay(<<>>, blk, hm) = hm
<1>1. <<>> \in Seq(Block) /\ \A i \in 1..Len(<<>>) : hm[<<>>[i]] = blk[i]
  OBVIOUS
<1>. QED BY <1>1, EmptyList, OverlayHome

\* The initial states of the log are initial states of the disk.
LEMMA DiskInit == Init => Disk!Init
<1>. SUFFICES ASSUME Init PROVE Disk!Init
  OBVIOUS
<1>1. Recovered = home
  BY RecoveredEmpty DEF Init, Recovered
<1>2. Active = {}
  BY DEF Init, Active, InOp
<1>. QED BY <1>1, <1>2 DEF Init, Disk!Init

\* Operations begin, write and end as on the disk.
LEMMA DiskOps ==
  ASSUME SpaceInv, DataInv, NEW p \in Op
  PROVE  /\ BeginOp(p) => Disk!Begin(p)
         /\ EndOp(p) => Disk!End(p)
         /\ \A b \in Block, v \in Val : LogWrite(p, b, v) => Disk!Write(p, b, v)
         /\ BeginSleep(p) \/ LogAppend(p) \/ Panic(p) \/ CommitDone(p)
              => UNCHANGED Disk!vars
<1>0. Control
  BY DEF SpaceInv, Control
<1>a. ASSUME UNCHANGED diskVars PROVE Recovered' = Recovered
  BY <1>a DEF Recovered, diskVars
<1>. USE DEF diskVars, cacheVars, bootVars, At, Up, Entering, InOp
<1>1. ASSUME BeginOp(p) PROVE Disk!Begin(p)
  <2>1. UNCHANGED <<home, logblk, head, cache, boot>>
        /\ ~InOp(p) /\ pc' = [pc EXCEPT ![p] = "op"]
    BY <1>1 DEF BeginOp
  <2>2. p \notin Active /\ Active' = Active \union {p}
    BY <1>0, <2>1 DEF Active, Control, TypeOK
  <2>. QED BY <1>a, <2>1, <2>2 DEF Disk!Begin
<1>2. ASSUME EndOp(p) PROVE Disk!End(p)
  <2>1. UNCHANGED <<home, logblk, head, cache, boot>> /\ pc[p] = "op"
    BY <1>2 DEF EndOp
  <2>2. p \in Active /\ Active' = Active \ {p}
    BY <1>0, <1>2 DEF EndOp, WakeDone, Wake, Active, Control, TypeOK
  <2>. QED BY <1>a, <2>1, <2>2 DEF Disk!End
<1>3. ASSUME NEW b \in Block, NEW v \in Val, LogWrite(p, b, v) PROVE Disk!Write(p, b, v)
  <2>1. UNCHANGED <<home, logblk, head, boot>> /\ boot = "up" /\ pc[p] = "op"
        /\ pc' = [pc EXCEPT ![p] = "append"] /\ cache' = [cache EXCEPT ![b] = v]
    BY <1>3 DEF LogWrite, MayWrite
  <2>2. p \in Active /\ Active' = Active
    BY <1>0, <2>1 DEF Active, Control, TypeOK
  <2>. QED BY <1>a, <2>1, <2>2 DEF Disk!Write
<1>4. ASSUME BeginSleep(p) \/ LogAppend(p) \/ Panic(p) \/ CommitDone(p)
      PROVE  UNCHANGED Disk!vars
  <2>1. UNCHANGED <<home, logblk, head, cache, boot>>
    BY <1>4 DEF BeginSleep, LogAppend, Panic, CommitDone
  <2>2. Active' = Active
    BY <1>0, <1>4 DEF BeginSleep, LogAppend, Panic, CommitDone, WakeDone, Wake, Active,
                      opVars, Control, TypeOK
  <2>. QED BY <1>a, <2>1, <2>2 DEF Disk!vars
<1>. QED BY <1>1, <1>2, <1>3, <1>4

\* Writing the header is the commit; the other disk writes change nothing that
\* can be seen.
LEMMA DiskCommit ==
  ASSUME SpaceInv, LogFits, DataInv, NEW p \in Op
  PROVE  /\ WriteHead(p) => Disk!Commit
         /\ WriteLog(p) \/ Install(p) \/ Erase(p) => UNCHANGED Disk!vars
<1>0. Control /\ LogFits
  BY DEF SpaceInv, Control
<1>. USE DEF diskVars, cacheVars, bootVars, At, Up
<1>a. ASSUME WriteHead(p) \/ WriteLog(p) \/ Install(p) \/ Erase(p)
      PROVE  /\ boot = "up" /\ boot' = "up"
             /\ Active = {} /\ Active' = {} /\ Held = {} /\ held' = held
  <2>1. pc[p] \in CommitPc /\ boot' = boot /\ held' = held
        /\ \A q \in Op : InOp(q)' => InOp(q)
    BY <1>0, <1>a DEF WriteHead, WriteLog, Install, Erase, CommitPc, InOp, Control, TypeOK
  <2>2. boot = "up" /\ Active = {} /\ Held = {}
    BY <1>0, <2>1, Committer
  <2>. QED BY <2>1, <2>2 DEF Active
<1>b. pc[p] \in {"write_log", "write_head"} => NotCommitted
  BY <1>0, Committer DEF DataInv, Committed, CommitPc
<1>c. pc[p] \in {"install", "erase"} => Committed
  BY <1>0, Committer DEF DataInv, NotCommitted, CommitPc
<1>1. ASSUME WriteHead(p) PROVE Disk!Commit
  <2>1. UNCHANGED <<home, logblk, cache>> /\ head' = lh /\ pc[p] = "write_head"
    BY <1>1 DEF WriteHead
  <2>2. /\ Copied(lh, Len(lh), cache, logblk)
        /\ \A b \in Block : b \notin Logged(lh) => home[b] = cache[b]
    BY <1>1, <1>a, <1>b, <2>1 DEF NotCommitted, DataInv, Clean
  <2>3. lh \in Seq(Block) /\ Injective(lh) /\ cache \in [Block -> Val]
    BY <1>0 DEF DataInv, Control, TypeOK
  <2>4. Overlay(lh, logblk, cache) = cache
    BY <2>2, <2>3, OverlayHome DEF Copied
  <2>5. Overlay(lh, logblk, home) = Overlay(lh, logblk, cache)
    BY <2>2, <2>3, OverlaySame
  <2>6. Recovered' = cache
    BY <2>1, <2>4, <2>5 DEF Recovered
  <2>. QED BY <1>1, <1>a, <2>1, <2>6 DEF Disk!Commit
<1>2. ASSUME WriteLog(p) PROVE UNCHANGED Disk!vars
  <2>1. UNCHANGED <<home, head, cache>> /\ head = <<>>
    BY <1>0, <1>2, <1>b, TailInSlot DEF WriteLog, NotCommitted, Control, TailInRange
  <2>2. Recovered = home /\ Recovered' = home
    BY <1>0, <2>1, RecoveredEmpty DEF Recovered, Control, TypeOK
  <2>. QED BY <1>2, <1>a, <2>1, <2>2 DEF Disk!vars
<1>3. ASSUME Install(p) PROVE UNCHANGED Disk!vars
  <2>1. /\ InstallTrans /\ UNCHANGED <<logblk, head, lh, held>> /\ tail <= Len(lh) /\ Committed
        /\ Held = {}
    BY <1>0, <1>3, <1>a, <1>c DEF Install, Control, TailInRange
  <2>2. /\ lh[tail] \in Block
        /\ \A b \in Block : b # lh[tail] => home'[b] = home[b] /\ cache'[b] = cache[b]
        /\ cache'[lh[tail]] = logblk[tail]
    BY <1>0, <2>1, OneInstalled DEF Committed
  <2>3. cache[lh[tail]] = logblk[tail] /\ lh[tail] \in Logged(head)
    BY <1>0, <2>1 DEF Committed, Installing, Copied, Logged, Control, TypeOK
  <2>4. cache' = cache
    <3>1. \A b \in Block : cache'[b] = cache[b]
      BY <2>2, <2>3
    <3>2. cache \in [Block -> Val] /\ cache' = [cache EXCEPT ![lh[tail]] = logblk[tail]]
      BY <1>0, <2>1, TailInSlot DEF InstallTrans, Control, TypeOK
    <3>. QED BY <2>3, <3>1, <3>2
  <2>5. Recovered' = Recovered
    BY <1>0, <2>1, <2>2, <2>3, RecoveredSame
  <2>. QED BY <1>3, <1>a, <2>4, <2>5 DEF Disk!vars
<1>4. ASSUME Erase(p) PROVE UNCHANGED Disk!vars
  <2>1. UNCHANGED <<home, logblk, cache>> /\ head' = <<>> /\ pc[p] = "erase"
    BY <1>4 DEF Erase
  <2>2. Committed /\ tail > Len(lh) /\ home \in [Block -> Val]
    BY <1>0, <2>1, <1>c, Committer DEF Committed, CommitPc, Control, TypeOK
  <2>3. head \in Seq(Block) /\ \A i \in 1..Len(head) : home[head[i]] = logblk[i]
    BY <1>0, <2>2 DEF Committed, Installing, Control, TypeOK
  <2>4. Recovered = home
    BY <2>2, <2>3, OverlayHome DEF Recovered, DataInv
  <2>5. Recovered' = home
    BY <2>1, <2>2, RecoveredEmpty DEF Recovered
  <2>. QED BY <1>4, <1>a, <2>1, <2>4, <2>5 DEF Disk!vars
<1>. QED BY <1>1, <1>2, <1>3, <1>4

\* A crash is a crash of the disk, and recovery changes nothing that is seen.
LEMMA DiskBoot ==
  ASSUME SpaceInv, LogFits, DataInv
  PROVE  /\ Crash => Disk!Crash
         /\ Recover => UNCHANGED Disk!vars
<1>0. Control /\ LogFits
  BY DEF SpaceInv, Control
<1>. USE DEF diskVars, cacheVars, opVars
<1>1. ASSUME Crash PROVE Disk!Crash
  <2>1. Recovered' = Recovered /\ boot' # "up" /\ Active' = {}
    BY <1>1 DEF Crash, Recovered, Active, InOp
  <2>. QED BY <2>1 DEF Disk!Crash
<1>2. ASSUME Recover PROVE boot # "up" /\ Active' = Active /\ Held = {} /\ held' = held
  BY <1>0, <1>2, BootHolds DEF Recover, ReadHead, RecoverInstall, RecoverClear, Active, InOp
<1>3. ASSUME ReadHead PROVE UNCHANGED Disk!vars
  <2>1. Recovered' = Recovered /\ boot' # "up"
    BY <1>3 DEF ReadHead, Recovered
  <2>. QED BY <1>2, <1>3, <2>1 DEF Disk!vars, Recover
<1>4. ASSUME RecoverInstall PROVE UNCHANGED Disk!vars
  <2>1. /\ InstallTrans /\ UNCHANGED <<logblk, head, lh, held>> /\ tail <= Len(lh) /\ Installing
        /\ boot' # "up" /\ Held = {}
    BY <1>0, <1>2, <1>4 DEF Recover, RecoverInstall, Control, TailInRange, DataInv
  <2>2. \A b \in Block : b # lh[tail] => home'[b] = home[b]
    BY <1>0, <2>1, OneInstalled
  <2>3. lh[tail] \in Logged(head)
    BY <1>0, <2>1 DEF Installing, Logged, Control, TypeOK
  <2>4. Recovered' = Recovered
    BY <1>0, <2>1, <2>2, <2>3, RecoveredSame
  <2>. QED BY <1>2, <1>4, <2>1, <2>4 DEF Disk!vars, Recover
<1>5. ASSUME RecoverClear PROVE UNCHANGED Disk!vars
  <2>1. UNCHANGED <<home, logblk, cache>> /\ head' = <<>> /\ boot' = "up" /\ boot = "clear"
    BY <1>5 DEF RecoverClear
  <2>2. /\ head \in Seq(Block) /\ Injective(head) /\ home \in [Block -> Val]
        /\ \A i \in 1..Len(head) : home[head[i]] = logblk[i]
    BY <1>0, <2>1 DEF DataInv, Control, TypeOK
  <2>3. Recovered = home /\ Recovered' = home
    BY <2>1, <2>2, OverlayHome, RecoveredEmpty DEF Recovered
  <2>4. cache = home
    <3>1. dirty = {} /\ Held = {}
      BY <1>2, <1>5, <2>1 DEF Recover, DataInv
    <3>2. \A b \in Block : cache[b] = home[b]
      BY <3>1 DEF DataInv, Clean
    <3>. QED BY <1>0, <3>2 DEF Control, TypeOK
  <2>. QED BY <1>2, <1>5, <2>1, <2>3, <2>4 DEF Disk!vars, Recover
<1>. QED BY <1>1, <1>3, <1>4, <1>5 DEF Recover

\* Every step of the log is a step of the disk, or changes nothing there.
LEMMA DiskStep ==
  ASSUME SpaceInv, Enough, DataInv, [Next]_vars
  PROVE  [Disk!Next]_(Disk!vars)
<1>0. Control /\ LogFits
  BY DEF SpaceInv, Control
<1>1. ASSUME UNCHANGED vars PROVE UNCHANGED Disk!vars
  BY <1>1 DEF vars, diskVars, cacheVars, opVars, bootVars, Disk!vars, Recovered, Active, InOp
<1>2. CASE Next
  BY <1>0, <1>1, <1>2, DiskOps, DiskCommit, DiskBoot, EvictNothing
     DEF Next, Commit, Disk!Next
<1>. QED BY <1>1, <1>2

\* The writes of an operation survive a crash together or not at all, whenever
\* the machine stops and however often, if the log on disk has room for what
\* operations really write.
THEOREM LogCrashAtomic == Enough => (Spec => CrashAtomic)
<1>. SUFFICES ASSUME Enough PROVE Spec => CrashAtomic
  OBVIOUS
<1>1. Inv /\ [Next]_vars => [Disk!Next]_(Disk!vars)
  BY DiskStep DEF Inv
<1>. QED BY <1>1, DiskInit, LogInvariant, PTL DEF Spec, CrashAtomic, Disk!Spec

=============================================================================
