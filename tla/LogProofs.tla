----------------------------- MODULE LogProofs ------------------------------
(***************************************************************************)
(* The redo log, for any number of processes, blocks and log entries: its  *)
(* bookkeeping (LogOK), what it has made durable (QuietIsDurable), and     *)
(* that it implements the atomic disk TxnDisk across crashes (Atomicity).  *)
(***************************************************************************)
EXTENDS Log, FiniteSetTheorems, TLAPS

USE LogAssumption DEF LogAssumption

\* The log that the file system of MP0 and mp1 uses with mp1's install_trans(), on a
\* disk that mkfs made (nlog = LOGSIZE), under system calls that leave one of the
\* MAXOPBLOCKS blocks reserved for them alone: log_write() panics one block before
\* the log is full.
InUse == UseLog /\ ~RecoverUnpins /\ OpWrites < MAXOPBLOCKS /\ LOGSIZE <= NLOG

-----------------------------------------------------------------------------
(* The inductive invariant.                                                *)

\* Who does what: at most one process commits and then no call is active, before the
\* recovery is over nobody does anything, and a buffer is locked by one process.
Phases ==
    /\ boot # "up" => \A p \in Procs : pc[p] = "idle"
    /\ committing <=> \E p \in Procs : pc[p] \in CommitPCs
    /\ \A p, q \in Procs : pc[p] \in CommitPCs => /\ pc[q] \in CommitPCs => p = q
                                                  /\ pc[q] \notin OpPCs
    /\ \A p \in Procs : buf[p] # None <=> pc[p] \in {"dirty", "logged"}
    /\ \A p, q \in Procs : buf[p] # None /\ buf[p] = buf[q] => p = q

NoRepeats(s) == \A i, j \in 1 .. Len(s) : s[i] = s[j] => i = j

\* The header in memory and the one on the disk, and where the loops of commit() and
\* install_trans() are in it.
Headers ==
    /\ NoRepeats(lh) /\ NoRepeats(head)
    /\ \A p \in Procs : /\ pc[p] \in {"write_log", "install"} => tail \in 1 .. Len(lh)
                        /\ pc[p] = "write_head" => tail = 1 /\ Len(lh) > 0
                        /\ pc[p] = "clear" => tail = Len(lh) + 1
                        /\ pc[p] = "done" => lh = <<>>
    /\ boot = "up" /\ (\E p \in Procs : pc[p] \in {"install", "clear"}) => head = lh
    /\ boot = "up" /\ (\A p \in Procs : pc[p] \notin {"install", "clear"}) => head = <<>>
    /\ boot = "up" /\ (\A p \in Procs : pc[p] \notin OpPCs \cup CommitPCs) => lh = <<>>
    /\ boot = "read_head" => lh = <<>> /\ tail = 1
    /\ boot = "install" => lh = head /\ tail \in 1 .. Len(lh)
    /\ boot = "clear" => lh = head /\ tail = Len(lh) + 1

\* The blocks of the log that are reserved and not used yet: MAXOPBLOCKS for each call,
\* less those it has passed to log_write().
Passed(p) == IF pc[p] = "dirty" THEN nw[p] - 1 ELSE nw[p]
Reserved == {r \in Procs \X (1 .. MAXOPBLOCKS) : pc[r[1]] \in OpPCs /\ r[2] > Passed(r[1])}

Reservations ==
    /\ outstanding = Cardinality(Active)
    /\ \A p \in Procs : pc[p] = "dirty" => nw[p] > 0
    /\ Len(lh) + Cardinality(Reserved) <= LOGSIZE

Pinned(b) ==
    /\ boot = "up"
    /\ \E i \in 1 .. Len(lh) : lh[i] = b /\ \A p \in Procs : pc[p] \in {"install", "clear"} => i >= tail

\* A buffer is held by the process that has locked it and by the log.
Pins ==
    \A b \in Blocks : refcnt[b] = (IF \E p \in Procs : buf[p] = b THEN 1 ELSE 0)
                                  + (IF Pinned(b) THEN 1 ELSE 0)

\* A cached block that differs from the disk is in the log or being changed.
Cached ==
    \A b \in Blocks : \/ cache[b] \in {None, disk[b]}
                      \/ \E i \in 1 .. Len(lh) : lh[i] = b
                      \/ \E p \in Procs : pc[p] = "dirty" /\ buf[p] = b

\* What the copies of a block hold: what has been copied to the log is what is cached; what has
\* been installed is what is in the log.
Copies ==
    /\ Cached
    /\ \A i \in 1 .. Len(head) : dlog[i] # None
    /\ \A p \in Procs :
          /\ pc[p] = "write_log" => \A i \in 1 .. tail - 1 : dlog[i] = bread(lh[i])
          /\ pc[p] \in {"write_head", "install", "clear"} =>
                \A i \in 1 .. Len(lh) : dlog[i] = bread(lh[i])
          /\ pc[p] \in {"install", "clear"} => \A i \in 1 .. tail - 1 : disk[lh[i]] = dlog[i]
    /\ boot # "up" => /\ \A i \in 1 .. tail - 1 : disk[lh[i]] = dlog[i]
                      /\ \A b \in Blocks : cache[b] \in {None, disk[b]}

LogInv ==
    TypeOK /\ Phases /\ Headers /\ Reservations /\ Pins /\ Copies /\ ~panicked

-----------------------------------------------------------------------------
(* The steps.                                                              *)

LEMMA ActiveFinite == IsFiniteSet(Active)
<1>1. Active \subseteq Procs
    BY DEF Active
<1>2. QED
    BY <1>1, FS_Subset

\* When log.outstanding is one, the call that ends is the last.
LEMMA LastOne ==
    ASSUME Reservations, NEW p \in Procs, pc[p] \in OpPCs
    PROVE  /\ outstanding \in Nat \ {0}
           /\ outstanding = 1 <=> \A q \in Procs : pc[q] \in OpPCs => q = p
<1>1. p \in Active
    BY DEF Active
<1>2. outstanding \in Nat /\ outstanding # 0
    BY <1>1, ActiveFinite, FS_CardinalityType, FS_EmptySet DEF Reservations
<1>3. outstanding = 1 <=> \E x : Active = {x}
    BY ActiveFinite, FS_Singleton DEF Reservations
<1>4. (\E x : Active = {x}) <=> Active = {p}
    BY <1>1
<1>5. Active = {p} <=> \A q \in Procs : pc[q] \in OpPCs => q = p
    BY <1>1 DEF Active
<1>6. QED
    BY <1>2, <1>3, <1>4, <1>5

LEMMA PhasesStep ==
    ASSUME InUse, TypeOK, Phases, Reservations, [Next]_vars
    PROVE  Phases'
<1> USE DEF Phases, OpPCs, CommitPCs, Goto, wakeup_log, diskVars, bufVars, logVars, opVars
<1>0. /\ pc \in [Procs -> PCs] /\ buf \in [Procs -> Blocks \cup {None}]
      /\ committing \in BOOLEAN
    BY DEF TypeOK
<1>1. CASE UNCHANGED vars
    BY <1>1 DEF vars
<1>2. ASSUME NEW p \in Procs, begin_op_sleep(p) PROVE Phases'
    BY <1>2, <1>0 DEF begin_op_sleep
<1>3. ASSUME NEW p \in Procs, begin_op(p) PROVE Phases'
    BY <1>3, <1>0 DEF begin_op
<1>4. ASSUME NEW p \in Procs, NEW b \in Blocks, NEW v \in Vals, modify(p, b, v) PROVE Phases'
    BY <1>4, <1>0 DEF modify
<1>5. ASSUME NEW p \in Procs, log_write(p) PROVE Phases'
    BY <1>5, <1>0 DEF log_write
<1>6. ASSUME NEW p \in Procs, brelse(p) PROVE Phases'
    BY <1>6, <1>0 DEF brelse
<1>7. ASSUME NEW p \in Procs, end_op(p) PROVE Phases'
    BY <1>7, <1>0, LastOne DEF end_op
<1>8. ASSUME NEW p \in Procs, write_log(p) PROVE Phases'
    BY <1>8, <1>0 DEF write_log
<1>9. ASSUME NEW p \in Procs, write_head(p) PROVE Phases'
    BY <1>9, <1>0 DEF write_head
<1>10. ASSUME NEW p \in Procs, install_trans(p) PROVE Phases'
    BY <1>10, <1>0 DEF install_trans
<1>11. ASSUME NEW p \in Procs, clear(p) PROVE Phases'
    BY <1>11, <1>0 DEF clear
<1>12. ASSUME NEW p \in Procs, end_op_done(p) PROVE Phases'
    BY <1>12, <1>0 DEF end_op_done
<1>13. ASSUME NEW b \in Blocks, read_block(b) PROVE Phases'
    BY <1>13, <1>0 DEF read_block
<1>14. ASSUME NEW b \in Blocks, recycle(b) PROVE Phases'
    BY <1>14, <1>0 DEF recycle
<1>15. CASE crash
    BY <1>15, <1>0 DEF crash
<1>16. CASE read_head
    BY <1>16, <1>0 DEF read_head
<1>17. CASE recover_install
    BY <1>17, <1>0 DEF recover_install
<1>18. CASE recover_clear
    BY <1>18, <1>0 DEF recover_clear
<1>19. QED
    BY <1>1, <1>2, <1>3, <1>4, <1>5, <1>6, <1>7, <1>8, <1>9, <1>10, <1>11, <1>12, <1>13, <1>14, <1>15, <1>16, <1>17, <1>18 DEF Next, commit, recover_from_log

LEMMA HeadersStep ==
    ASSUME InUse, TypeOK, Phases, Headers, Reservations, [Next]_vars
    PROVE  Headers'
<1> USE DEF Headers, Phases, NoRepeats, OpPCs, CommitPCs, Goto, wakeup_log, diskVars, bufVars, logVars, opVars
<1>0. /\ pc \in [Procs -> PCs] /\ lh \in Seq(Blocks) /\ head \in Seq(Blocks)
      /\ tail \in Nat /\ Len(lh) \in Nat /\ buf \in [Procs -> Blocks \cup {None}]
    BY DEF TypeOK
<1>1. CASE UNCHANGED vars
    BY <1>1 DEF vars
<1>2. ASSUME NEW p \in Procs, begin_op_sleep(p) PROVE Headers'
    BY <1>2, <1>0 DEF begin_op_sleep
<1>3. ASSUME NEW p \in Procs, begin_op(p) PROVE Headers'
    BY <1>3, <1>0 DEF begin_op
<1>4. ASSUME NEW p \in Procs, NEW b \in Blocks, NEW v \in Vals, modify(p, b, v) PROVE Headers'
    BY <1>4, <1>0 DEF modify
<1>5. ASSUME NEW p \in Procs, log_write(p) PROVE Headers'
    <2>1. /\ lh' = IF Logged(buf[p]) THEN lh ELSE Append(lh, buf[p])
          /\ pc' = [pc EXCEPT ![p] = "logged"] /\ pc[p] = "dirty" /\ boot = "up"
          /\ UNCHANGED <<head, tail, boot>>
        BY <1>5 DEF log_write
    <2>2. buf[p] \in Blocks
        BY <1>0, <2>1
    <2>3. NoRepeats(lh)'
        <3>1. CASE Logged(buf[p])
            BY <2>1, <3>1
        <3>2. CASE ~Logged(buf[p])
            <4>1. Len(lh') = Len(lh) + 1 /\ \A i \in 1 .. Len(lh') : lh'[i] = IF i <= Len(lh) THEN lh[i] ELSE buf[p]
                BY <1>0, <2>1, <2>2, <3>2
            <4>2. \A i \in 1 .. Len(lh) : lh[i] # buf[p]
                BY <3>2 DEF Logged
            <4>3. QED
                BY <1>0, <4>1, <4>2
        <3>3. QED
            BY <3>1, <3>2
    <2>4. \A q \in Procs : pc'[q] \notin CommitPCs /\ pc[q] \notin CommitPCs
        BY <1>0, <2>1
    <2>5. pc'[p] = "logged"
        BY <1>0, <2>1
    <2>6. QED
        BY <1>0, <2>1, <2>3, <2>4, <2>5
<1>6. ASSUME NEW p \in Procs, brelse(p) PROVE Headers'
    BY <1>6, <1>0 DEF brelse
<1>7. ASSUME NEW p \in Procs, end_op(p) PROVE Headers'
    <2>1. CASE outstanding = 1
        <3>1. /\ pc' = [pc EXCEPT ![p] = IF Len(lh) > 0 THEN "write_log" ELSE "done"]
              /\ tail' = 1 /\ UNCHANGED <<lh, head, boot>> /\ pc[p] = "op"
            BY <1>7, <2>1 DEF end_op
        <3>2. \A q \in Procs : pc[q] \notin CommitPCs
            BY <3>1
        <3>3. \A q \in Procs : q # p => pc'[q] = pc[q]
            BY <1>0, <3>1
        <3>4. pc'[p] = IF Len(lh) > 0 THEN "write_log" ELSE "done"
            BY <1>0, <3>1
        <3>5. boot = "up" /\ head = <<>>
            BY <3>1, <3>2
        <3>6. Len(lh) = 0 => lh = <<>>
            BY <1>0
        <3>7. QED
            BY <1>0, <3>1, <3>2, <3>3, <3>4, <3>5, <3>6
    <2>2. CASE outstanding # 1
        <3>1. PICK q \in Procs : pc[q] \in OpPCs /\ q # p
            BY <1>7, <2>2, LastOne DEF end_op
        <3>2. pc' = [r \in Procs |-> IF r = p THEN "idle" ELSE IF pc[r] = "sleeping" THEN "begin" ELSE pc[r]]
            BY <1>7, <2>2 DEF end_op
        <3>3. pc'[q] \in OpPCs
            BY <3>1, <3>2
        <3>4. QED
            BY <1>7, <1>0, <2>2, <3>2, <3>3 DEF end_op
    <2>3. QED
        BY <2>1, <2>2
<1>8. ASSUME NEW p \in Procs, write_log(p) PROVE Headers'
    BY <1>8, <1>0 DEF write_log
<1>9. ASSUME NEW p \in Procs, write_head(p) PROVE Headers'
    BY <1>9, <1>0 DEF write_head
<1>10. ASSUME NEW p \in Procs, install_trans(p) PROVE Headers'
    BY <1>10, <1>0 DEF install_trans, install_block
<1>11. ASSUME NEW p \in Procs, clear(p) PROVE Headers'
    BY <1>11, <1>0 DEF clear
<1>12. ASSUME NEW p \in Procs, end_op_done(p) PROVE Headers'
    BY <1>12, <1>0 DEF end_op_done
<1>13. ASSUME NEW b \in Blocks, read_block(b) PROVE Headers'
    BY <1>13, <1>0 DEF read_block
<1>14. ASSUME NEW b \in Blocks, recycle(b) PROVE Headers'
    BY <1>14, <1>0 DEF recycle
<1>15. CASE crash
    BY <1>15, <1>0 DEF crash
<1>16. CASE read_head
    BY <1>16, <1>0 DEF read_head
<1>17. CASE recover_install
    BY <1>17, <1>0 DEF recover_install, install_block
<1>18. CASE recover_clear
    BY <1>18, <1>0 DEF recover_clear
<1>19. QED
    BY <1>1, <1>2, <1>3, <1>4, <1>5, <1>6, <1>7, <1>8, <1>9, <1>10, <1>11, <1>12, <1>13, <1>14, <1>15, <1>16, <1>17, <1>18 DEF Next, commit, recover_from_log

LEMMA ReservedFinite == IsFiniteSet(Reserved) /\ Cardinality(Reserved) \in Nat
<1>1. IsFiniteSet(1 .. MAXOPBLOCKS)
    BY FS_Interval
<1>2. IsFiniteSet(Procs \X (1 .. MAXOPBLOCKS))
    BY <1>1, FS_Product
<1>3. Reserved \subseteq Procs \X (1 .. MAXOPBLOCKS)
    BY DEF Reserved
<1>4. QED
    BY <1>2, <1>3, FS_Subset, FS_CardinalityType

\* The calls that go on have what they had, and the log has not grown.
LEMMA ReservationsKept ==
    ASSUME TypeOK, Reservations, UNCHANGED outstanding, lh' \in Seq(Blocks), Len(lh') <= Len(lh),
           \A q \in Procs : /\ pc'[q] \in OpPCs <=> pc[q] \in OpPCs
                            /\ pc'[q] \in OpPCs => Passed(q)' = Passed(q)
                            /\ pc'[q] = "dirty" => nw'[q] > 0
    PROVE  Reservations'
<1>1. Active' = Active
    BY DEF Active
<1>2. Reserved' = Reserved
    BY DEF Reserved
<1>3. Len(lh) \in Nat /\ Len(lh') \in Nat /\ Cardinality(Reserved) \in Nat
    BY ReservedFinite DEF TypeOK
<1>4. QED
    BY <1>1, <1>2, <1>3 DEF Reservations

\* A call that begins may reserve MAXOPBLOCKS blocks, and so may every other.
LEMMA BeginReserves ==
    ASSUME TypeOK, Reservations, NEW p \in Procs, begin_op(p)
    PROVE  Reservations'
<1>1. /\ pc \in [Procs -> PCs] /\ outstanding \in Nat /\ Len(lh) \in Nat
      /\ pc[p] \in {"idle", "begin"} /\ pc' = [pc EXCEPT ![p] = "op"]
      /\ outstanding' = outstanding + 1 /\ UNCHANGED lh /\ ~log_full
      /\ nw \in [Procs -> 0 .. OpWrites] /\ nw' = [nw EXCEPT ![p] = 0]
    BY DEF TypeOK, begin_op, Goto
<1>2. Active' = Active \cup {p} /\ p \notin Active
    BY <1>1 DEF Active, OpPCs
<1>3. Cardinality(Active') = outstanding' /\ IsFiniteSet(Active')
    BY <1>1, <1>2, ActiveFinite, FS_AddElement DEF Reservations
<1>4. IsFiniteSet(1 .. MAXOPBLOCKS) /\ Cardinality(1 .. MAXOPBLOCKS) = MAXOPBLOCKS
    BY FS_Interval
<1>5. /\ IsFiniteSet(Active' \X (1 .. MAXOPBLOCKS))
      /\ Cardinality(Active' \X (1 .. MAXOPBLOCKS)) = outstanding' * MAXOPBLOCKS
    BY <1>3, <1>4, FS_Product
<1>6. Reserved' \subseteq Active' \X (1 .. MAXOPBLOCKS)
    BY DEF Reserved, Active
<1>7. Cardinality(Reserved') <= outstanding' * MAXOPBLOCKS /\ Cardinality(Reserved') \in Nat
    BY <1>5, <1>6, FS_Subset, FS_CardinalityType
<1>8. Len(lh) + (outstanding + 1) * MAXOPBLOCKS <= LOGSIZE
    BY <1>1 DEF log_full
<1>9. Len(lh') + Cardinality(Reserved') <= LOGSIZE
    <2> DEFINE m == (outstanding + 1) * MAXOPBLOCKS
    <2>1. m \in Int /\ Cardinality(Reserved') <= m /\ Len(lh) + m <= LOGSIZE
        BY <1>1, <1>7, <1>8
    <2> HIDE DEF m
    <2>2. QED
        BY <1>1, <1>7, <2>1
<1>10. \A q \in Procs : pc'[q] = "dirty" => nw'[q] > 0
    BY <1>1 DEF Reservations
<1>11. QED
    BY <1>3, <1>9, <1>10 DEF Reservations

\* log_write() uses up one block of what its call has reserved.
LEMMA LogWriteUses ==
    ASSUME InUse, TypeOK, Reservations, NEW p \in Procs, log_write(p)
    PROVE  Reservations' /\ Len(lh) + 2 <= LOGSIZE /\ outstanding >= 1
<1>1. /\ pc \in [Procs -> PCs] /\ nw \in [Procs -> 0 .. OpWrites] /\ Len(lh) \in Nat /\ lh \in Seq(Blocks)
      /\ pc[p] = "dirty" /\ pc' = [pc EXCEPT ![p] = "logged"] /\ UNCHANGED <<nw, outstanding>>
      /\ lh' = IF Logged(buf[p]) THEN lh ELSE Append(lh, buf[p])
      /\ nw[p] > 0
    BY DEF TypeOK, log_write, Goto, logVars, opVars, Reservations
<1>2. Active' = Active
    BY <1>1 DEF Active, OpPCs
<1>3. Len(lh') \in Nat /\ Len(lh') <= Len(lh) + 1
    BY <1>1
<1>4. nw[p] \in 1 .. MAXOPBLOCKS - 1
    BY <1>1 DEF InUse
<1>5. Reserved' = Reserved \ {<<p, nw[p]>>}
    <2>1. ASSUME NEW q \in Procs, NEW k \in 1 .. MAXOPBLOCKS
          PROVE  <<q, k>> \in Reserved' <=> <<q, k>> \in Reserved /\ <<q, k>> # <<p, nw[p]>>
        <3>1. <<q, k>> \in Reserved' <=> pc'[q] \in OpPCs /\ k > Passed(q)'
            BY DEF Reserved
        <3>2. <<q, k>> \in Reserved <=> pc[q] \in OpPCs /\ k > Passed(q)
            BY DEF Reserved
        <3>3. CASE q = p
            <4>1. Passed(q) = nw[p] - 1 /\ Passed(q)' = nw[p] /\ pc[q] \in OpPCs /\ pc'[q] \in OpPCs
                BY <1>1, <3>3 DEF Passed, OpPCs
            <4>2. k > nw[p] <=> k > nw[p] - 1 /\ k # nw[p]
                BY <1>4
            <4>3. QED
                BY <3>1, <3>2, <3>3, <4>1, <4>2
        <3>4. CASE q # p
            <4>1. Passed(q)' = Passed(q) /\ pc'[q] = pc[q]
                BY <1>1, <3>4 DEF Passed
            <4>2. QED
                BY <3>1, <3>2, <3>4, <4>1
        <3>5. QED
            BY <3>3, <3>4
    <2>2. Reserved \subseteq Procs \X (1 .. MAXOPBLOCKS) /\ Reserved' \subseteq Procs \X (1 .. MAXOPBLOCKS)
        BY DEF Reserved
    <2>3. ASSUME NEW r PROVE r \in Reserved' <=> r \in Reserved \ {<<p, nw[p]>>}
        BY <2>1, <2>2
    <2>4. QED
        BY <2>3
<1>6. {<<p, nw[p]>>, <<p, nw[p] + 1>>} \subseteq Reserved
    <2>1. pc[p] \in OpPCs /\ Passed(p) = nw[p] - 1
        BY <1>1 DEF OpPCs, Passed
    <2>2. nw[p] \in 1 .. MAXOPBLOCKS /\ nw[p] + 1 \in 1 .. MAXOPBLOCKS
        BY <1>4
    <2>3. QED
        BY <1>4, <2>1, <2>2 DEF Reserved
<1>7. Cardinality(Reserved') = Cardinality(Reserved) - 1
    BY <1>5, <1>6, ReservedFinite, FS_RemoveElement
<1>8. Cardinality(Reserved) >= 2
    <2>1. <<p, nw[p] + 1>> \in Reserved'
        BY <1>4, <1>5, <1>6
    <2>2. IsFiniteSet(Reserved')
        BY <1>5, ReservedFinite, FS_RemoveElement
    <2>3. Cardinality(Reserved') \in Nat /\ Cardinality(Reserved') # 0
        BY <2>1, <2>2, FS_CardinalityType, FS_EmptySet
    <2>4. QED
        BY <1>7, <2>3, ReservedFinite
<1>9. \A q \in Procs : pc'[q] = "dirty" => nw'[q] > 0
    BY <1>1 DEF Reservations
<1>10. outstanding >= 1
    BY <1>1, LastOne DEF OpPCs
<1>11. QED
    BY <1>1, <1>2, <1>3, <1>7, <1>8, <1>9, <1>10, ReservedFinite DEF Reservations

LEMMA EndReleases ==
    ASSUME TypeOK, Reservations, NEW p \in Procs, end_op(p)
    PROVE  Reservations'
<1>1. /\ pc \in [Procs -> PCs] /\ Len(lh) \in Nat /\ pc[p] = "op" /\ pc'[p] \notin OpPCs
      /\ UNCHANGED <<lh, nw>> /\ outstanding' = outstanding - 1
      /\ \A q \in Procs : q # p => /\ pc'[q] \in OpPCs <=> pc[q] \in OpPCs
                                   /\ pc[q] \in OpPCs => pc'[q] = pc[q]
    BY DEF TypeOK, end_op, Goto, wakeup_log, opVars, OpPCs
<1>2. Active' = Active \ {p} /\ p \in Active
    BY <1>1 DEF Active, OpPCs
<1>3. Cardinality(Active') = outstanding'
    BY <1>1, <1>2, ActiveFinite, FS_RemoveElement DEF Reservations
<1>4. ASSUME NEW q \in Procs, pc'[q] \in OpPCs
      PROVE  pc[q] \in OpPCs /\ Passed(q)' = Passed(q) /\ (pc'[q] = "dirty" => nw'[q] > 0)
    BY <1>1, <1>4 DEF Passed, Reservations
<1>5. Reserved' \subseteq Reserved
    BY <1>4 DEF Reserved
<1>6. Cardinality(Reserved') <= Cardinality(Reserved) /\ Cardinality(Reserved') \in Nat
    BY <1>5, ReservedFinite, FS_Subset, FS_CardinalityType
<1>7. \A q \in Procs : pc'[q] = "dirty" => nw'[q] > 0
    BY <1>4 DEF OpPCs
<1>8. QED
    BY <1>1, <1>3, <1>6, <1>7, ReservedFinite DEF Reservations

LEMMA ReservationsStep ==
    ASSUME InUse, TypeOK, Phases, Reservations, [Next]_vars
    PROVE  Reservations'
<1> USE DEF OpPCs, CommitPCs, Goto, wakeup_log, diskVars, bufVars, logVars, opVars
<1>0. /\ pc \in [Procs -> PCs] /\ lh \in Seq(Blocks) /\ Len(lh) \in Nat
      /\ nw \in [Procs -> 0 .. OpWrites] /\ outstanding \in Nat
      /\ \A q \in Procs : pc[q] = "dirty" => nw[q] > 0
    BY DEF TypeOK, Reservations
<1>1. CASE UNCHANGED vars
    BY <1>0, <1>1, ReservationsKept DEF vars, Passed
<1>2. ASSUME NEW p \in Procs, begin_op_sleep(p) PROVE Reservations'
    BY <1>2, <1>0, ReservationsKept DEF begin_op_sleep, Passed
<1>3. ASSUME NEW p \in Procs, begin_op(p) PROVE Reservations'
    BY <1>3, BeginReserves
<1>4. ASSUME NEW p \in Procs, NEW b \in Blocks, NEW v \in Vals, modify(p, b, v) PROVE Reservations'
    BY <1>4, <1>0, ReservationsKept DEF modify, Passed
<1>5. ASSUME NEW p \in Procs, log_write(p) PROVE Reservations'
    BY <1>5, LogWriteUses
<1>6. ASSUME NEW p \in Procs, brelse(p) PROVE Reservations'
    BY <1>6, <1>0, ReservationsKept DEF InUse, brelse, Passed
<1>7. ASSUME NEW p \in Procs, end_op(p) PROVE Reservations'
    BY <1>7, EndReleases
<1>8. ASSUME NEW p \in Procs, write_log(p) PROVE Reservations'
    BY <1>8, <1>0, ReservationsKept DEF write_log, Passed
<1>9. ASSUME NEW p \in Procs, write_head(p) PROVE Reservations'
    BY <1>9, <1>0, ReservationsKept DEF write_head, Passed
<1>10. ASSUME NEW p \in Procs, install_trans(p) PROVE Reservations'
    BY <1>10, <1>0, ReservationsKept DEF install_trans, Passed, install_block
<1>11. ASSUME NEW p \in Procs, clear(p) PROVE Reservations'
    BY <1>11, <1>0, ReservationsKept DEF clear, Passed
<1>12. ASSUME NEW p \in Procs, end_op_done(p) PROVE Reservations'
    BY <1>12, <1>0, ReservationsKept DEF end_op_done, Passed
<1>13. ASSUME NEW b \in Blocks, read_block(b) PROVE Reservations'
    BY <1>13, <1>0, ReservationsKept DEF read_block, Passed
<1>14. ASSUME NEW b \in Blocks, recycle(b) PROVE Reservations'
    BY <1>14, <1>0, ReservationsKept DEF recycle, Passed
<1>15. CASE crash
    <2>1. (\A q \in Procs : pc[q] \notin OpPCs)' /\ lh' = <<>> /\ outstanding' = 0
        BY <1>15 DEF crash
    <2>2. Active' = {} /\ Reserved' = {}
        BY <2>1 DEF Active, Reserved
    <2>3. QED
        BY <2>1, <2>2, FS_EmptySet DEF Reservations
<1>16. CASE read_head
    <2>1. (\A q \in Procs : pc[q] \notin OpPCs)' /\ lh' = head /\ UNCHANGED outstanding
        BY <1>16, <1>0 DEF read_head, Phases
    <2>2. Active' = {} /\ Active = {} /\ Reserved' = {}
        BY <2>1, <1>16 DEF Active, Reserved, read_head
    <2>3. QED
        BY <2>1, <2>2, <1>0, FS_EmptySet DEF Reservations, TypeOK
<1>17. CASE recover_install
    BY <1>17, <1>0, ReservationsKept DEF recover_install, Passed, install_block
<1>18. CASE recover_clear
    BY <1>18, <1>0, ReservationsKept DEF recover_clear, Passed
<1>19. QED
    BY <1>1, <1>2, <1>3, <1>4, <1>5, <1>6, <1>7, <1>8, <1>9, <1>10, <1>11, <1>12, <1>13, <1>14, <1>15, <1>16, <1>17, <1>18 DEF Next, commit, recover_from_log

\* b->refcnt does not wrap.
LEMMA Counting ==
    /\ \A n \in {0, 1} : Plus(n, 1) = n + 1
    /\ \A n \in {1, 2} : Plus(n, -1) = n - 1
<1>1. Plus(0, 1) = 1 /\ Plus(1, 1) = 2 /\ Plus(1, -1) = 0 /\ Plus(2, -1) = 1
    <2>1. UINT \in Nat \ {0} /\ 0 \in 0 .. UINT - 1 /\ 1 \in 0 .. UINT - 1 /\ 2 \in 0 .. UINT - 1
        OBVIOUS
    <2>2. 0 % UINT = 0 /\ 1 % UINT = 1 /\ 2 % UINT = 2
        BY <2>1
    <2>3. QED
        BY <2>2 DEF Plus
<1>2. QED
    BY <1>1

Locked(b) == \E p \in Procs : buf[p] = b

\* Neither a lock nor a pin changes, nor a count.
LEMMA PinsKept ==
    ASSUME Pins, UNCHANGED <<refcnt, buf, lh, boot>>,
           \A p \in Procs : pc'[p] \in {"install", "clear"} <=> pc[p] \in {"install", "clear"},
           (\E p \in Procs : pc[p] \in {"install", "clear"}) => tail' = tail
    PROVE  Pins'
<1>1. \A b \in Blocks : Pinned(b)' <=> Pinned(b)
    BY DEF Pinned
<1>2. QED
    BY <1>1 DEF Pins

\* One block's lock or pin changes, and its count with it.
LEMMA PinsMove ==
    ASSUME TypeOK, Pins, NEW b \in Blocks, refcnt' = [refcnt EXCEPT ![b] = refcnt'[b]],
           refcnt'[b] = (IF Locked(b)' THEN 1 ELSE 0) + (IF Pinned(b)' THEN 1 ELSE 0),
           \A c \in Blocks \ {b} : (Locked(c)' <=> Locked(c)) /\ (Pinned(c)' <=> Pinned(c))
    PROVE  Pins'
<1>1. \A c \in Blocks \ {b} : refcnt'[c] = refcnt[c]
    BY DEF TypeOK
<1>2. ASSUME NEW c \in Blocks
      PROVE  refcnt'[c] = (IF Locked(c)' THEN 1 ELSE 0) + (IF Pinned(c)' THEN 1 ELSE 0)
    BY <1>1 DEF Pins, Locked
<1>3. QED
    BY <1>2 DEF Pins, Locked

LEMMA PinsStep ==
    ASSUME InUse, TypeOK, Phases, Headers, Pins, [Next]_vars
    PROVE  Pins'
<1> USE DEF OpPCs, CommitPCs, Goto, wakeup_log, diskVars, bufVars, logVars, opVars
<1>0. /\ pc \in [Procs -> PCs] /\ buf \in [Procs -> Blocks \cup {None}] /\ lh \in Seq(Blocks)
      /\ Len(lh) \in Nat /\ tail \in Nat /\ refcnt \in [Blocks -> 0 .. UINT - 1]
    BY DEF TypeOK
<1>1. CASE UNCHANGED vars
    BY <1>1, PinsKept DEF vars
<1>2. ASSUME NEW p \in Procs, begin_op_sleep(p) PROVE Pins'
    BY <1>2, <1>0, PinsKept DEF begin_op_sleep, Phases
<1>3. ASSUME NEW p \in Procs, begin_op(p) PROVE Pins'
    BY <1>3, <1>0, PinsKept DEF begin_op, Phases
<1>4. ASSUME NEW p \in Procs, NEW b \in Blocks, NEW v \in Vals, modify(p, b, v) PROVE Pins'
    <2>1. /\ buf' = [buf EXCEPT ![p] = b] /\ ~Locked(b) /\ pc[p] = "op" /\ boot = "up"
          /\ UNCHANGED <<lh, boot, tail>> /\ pc' = [pc EXCEPT ![p] = "dirty"]
          /\ refcnt' = [refcnt EXCEPT ![b] = Plus(refcnt[b], 1)] /\ buf[p] = None
        BY <1>4, <1>0 DEF modify, Locked, Phases
    <2>2. \A c \in Blocks : Pinned(c)' <=> Pinned(c)
        BY <1>0, <2>1 DEF Pinned
    <2>3. \A c \in Blocks : Locked(c)' <=> Locked(c) \/ c = b
        BY <1>0, <2>1 DEF Locked
    <2>4. refcnt[b] = IF Pinned(b) THEN 1 ELSE 0
        BY <2>1 DEF Pins, Locked
    <2>5. refcnt'[b] = IF Pinned(b) THEN 2 ELSE 1
        BY <1>0, <2>1, <2>4, Counting
    <2>6. refcnt' = [refcnt EXCEPT ![b] = refcnt'[b]]
        BY <1>0, <2>1
    <2>7. QED
        BY <2>2, <2>3, <2>5, <2>6, PinsMove
<1>5. ASSUME NEW p \in Procs, log_write(p) PROVE Pins'
    <2>0. PICK b \in Blocks : b = buf[p]
        BY <1>5, <1>0 DEF log_write, Phases
    <2>1. /\ pc[p] = "dirty" /\ boot = "up" /\ Locked(b)
          /\ UNCHANGED <<buf, boot>> /\ pc' = [pc EXCEPT ![p] = "logged"]
          /\ lh' = IF Logged(b) THEN lh ELSE Append(lh, b)
          /\ refcnt' = [refcnt EXCEPT ![b] = IF Logged(b) THEN refcnt[b] ELSE Plus(refcnt[b], 1)]
        BY <1>5, <1>0, <2>0 DEF log_write, Locked, Phases
    <2>2. \A q \in Procs : pc[q] \notin {"install", "clear"} /\ pc'[q] \notin {"install", "clear"}
        BY <1>0, <2>1 DEF Phases
    <2>3. \A c \in Blocks : Pinned(c) <=> Logged(c)
        BY <2>1, <2>2 DEF Pinned, Logged
    <2>4. \A c \in Blocks : Pinned(c)' <=> Logged(c) \/ c = b
        <3>1. CASE Logged(b)
            BY <2>1, <2>2, <3>1 DEF Pinned, Logged
        <3>2. CASE ~Logged(b)
            <4>1. Len(lh') = Len(lh) + 1 /\ \A i \in 1 .. Len(lh') : lh'[i] = IF i <= Len(lh) THEN lh[i] ELSE b
                BY <1>0, <2>1, <3>2
            <4>2. \A c \in Blocks : (\E i \in 1 .. Len(lh') : lh'[i] = c) <=> Logged(c) \/ c = b
                <5>1. lh'[Len(lh) + 1] = b /\ Len(lh) + 1 \in 1 .. Len(lh')
                    BY <1>0, <4>1
                <5>2. ASSUME NEW c \in Blocks, NEW i \in 1 .. Len(lh'), lh'[i] = c
                      PROVE  Logged(c) \/ c = b
                    <6>1. CASE i <= Len(lh)
                        <7>1. i \in 1 .. Len(lh) /\ lh[i] = c
                            BY <1>0, <4>1, <5>2, <6>1
                        <7>2. QED
                            BY <7>1 DEF Logged
                    <6>2. CASE ~(i <= Len(lh))
                        BY <4>1, <5>2, <6>2
                    <6>3. QED
                        BY <6>1, <6>2
                <5>3. ASSUME NEW c \in Blocks, Logged(c) PROVE \E i \in 1 .. Len(lh') : lh'[i] = c
                    <6>1. PICK i \in 1 .. Len(lh) : lh[i] = c
                        BY <5>3 DEF Logged
                    <6>2. i \in 1 .. Len(lh') /\ lh'[i] = c
                        BY <1>0, <4>1, <6>1
                    <6>3. QED
                        BY <6>2
                <5>4. QED
                    BY <5>1, <5>2, <5>3
            <4>3. QED
                BY <2>1, <2>2, <4>2 DEF Pinned
        <3>3. QED
            BY <3>1, <3>2
    <2>5. \A c \in Blocks : Locked(c)' <=> Locked(c)
        BY <2>1 DEF Locked
    <2>6. refcnt[b] = IF Logged(b) THEN 2 ELSE 1
        BY <2>1, <2>3 DEF Pins, Locked
    <2>7. refcnt'[b] = 2 /\ refcnt' = [refcnt EXCEPT ![b] = refcnt'[b]]
        BY <1>0, <2>1, <2>6, Counting
    <2>8. /\ refcnt'[b] = (IF Locked(b)' THEN 1 ELSE 0) + (IF Pinned(b)' THEN 1 ELSE 0)
          /\ \A c \in Blocks \ {b} : (Locked(c)' <=> Locked(c)) /\ (Pinned(c)' <=> Pinned(c))
        BY <2>1, <2>3, <2>4, <2>5, <2>7
    <2>9. QED
        BY <2>7, <2>8, PinsMove
<1>6. ASSUME NEW p \in Procs, brelse(p) PROVE Pins'
    <2>0. PICK b \in Blocks : b = buf[p]
        BY <1>6, <1>0 DEF brelse, Phases, InUse
    <2>1. /\ pc[p] = "logged" /\ buf[p] = b /\ Locked(b) /\ buf' = [buf EXCEPT ![p] = None]
          /\ UNCHANGED <<lh, boot, tail>> /\ pc' = [pc EXCEPT ![p] = "op"]
          /\ refcnt' = [refcnt EXCEPT ![b] = Plus(refcnt[b], -1)]
        BY <1>6, <1>0, <2>0 DEF brelse, Locked, Phases, InUse
    <2>2. \A c \in Blocks : Pinned(c)' <=> Pinned(c)
        BY <1>0, <2>1 DEF Pinned
    <2>3. \A c \in Blocks : Locked(c)' <=> Locked(c) /\ c # b
        BY <1>0, <2>1 DEF Locked, Phases
    <2>4. refcnt[b] = IF Pinned(b) THEN 2 ELSE 1
        BY <2>1 DEF Pins, Locked
    <2>5. refcnt'[b] = IF Pinned(b) THEN 1 ELSE 0
        BY <1>0, <2>1, <2>4, Counting
    <2>6. refcnt' = [refcnt EXCEPT ![b] = refcnt'[b]]
        BY <1>0, <2>1
    <2>7. /\ refcnt'[b] = (IF Locked(b)' THEN 1 ELSE 0) + (IF Pinned(b)' THEN 1 ELSE 0)
          /\ \A c \in Blocks \ {b} : (Locked(c)' <=> Locked(c)) /\ (Pinned(c)' <=> Pinned(c))
        BY <2>1, <2>2, <2>3, <2>5
    <2>8. QED
        BY <2>6, <2>7, PinsMove
<1>7. ASSUME NEW p \in Procs, end_op(p) PROVE Pins'
    <2>1. /\ \A q \in Procs : pc[q] \notin CommitPCs
          /\ \A q \in Procs : pc'[q] \notin {"install", "clear"}
        BY <1>7, <1>0 DEF end_op, Phases
    <2>2. QED
        BY <1>7, <2>1, PinsKept DEF end_op
<1>8. ASSUME NEW p \in Procs, write_log(p) PROVE Pins'
    <2>1. /\ UNCHANGED <<lh, boot, buf, refcnt>>
          /\ \A q \in Procs : pc[q] \notin {"install", "clear"} /\ pc'[q] \notin {"install", "clear"}
        BY <1>8, <1>0 DEF write_log, Phases
    <2>2. QED
        BY <2>1, PinsKept
<1>9. ASSUME NEW p \in Procs, write_head(p) PROVE Pins'
    <2>1. /\ pc[p] = "write_head" /\ tail = 1 /\ UNCHANGED <<lh, boot, buf, refcnt, tail>>
        BY <1>9 DEF write_head, Headers
    <2>2. \A b \in Blocks : Pinned(b)' <=> Pinned(b)
        <3>1. \A q \in Procs : pc[q] \notin {"install", "clear"}
            BY <2>1 DEF Phases
        <3>2. \A i \in 1 .. Len(lh) : i >= tail
            BY <1>0, <2>1
        <3>3. QED
            BY <2>1, <3>1, <3>2 DEF Pinned
    <2>3. QED
        BY <2>1, <2>2 DEF Pins
<1>10. ASSUME NEW p \in Procs, install_trans(p) PROVE Pins'
    <2>0. PICK b \in Blocks : b = lh[tail]
        BY <1>10, <1>0 DEF install_trans, Headers
    <2>1. /\ pc[p] = "install" /\ boot = "up" /\ lh[tail] = b /\ tail \in 1 .. Len(lh)
          /\ UNCHANGED <<lh, boot, buf>> /\ tail' = tail + 1
          /\ pc' = [pc EXCEPT ![p] = IF tail = Len(lh) THEN "clear" ELSE "install"]
          /\ refcnt' = [refcnt EXCEPT ![b] = Plus(refcnt[b], -1)]
        BY <1>10, <1>0, <2>0 DEF install_trans, install_block, Headers, Phases
    <2>2. pc'[p] \in {"install", "clear"} /\ \A q \in Procs : q # p => pc'[q] = pc[q]
        BY <1>0, <2>1
    <2>3. ~Locked(b)
        BY <2>1 DEF Locked, Phases, CommitPCs, OpPCs
    <2>4. \A i \in 1 .. Len(lh) : lh[i] = b => i = tail
        BY <2>1 DEF Headers, NoRepeats
    <2>5. Pinned(b)
        <3>1. \A q \in Procs : pc[q] \in {"install", "clear"} => tail >= tail
            BY <1>0
        <3>2. QED
            BY <2>1, <3>1 DEF Pinned
    <2>6. ~Pinned(b)'
        <3>1. \A i \in 1 .. Len(lh) : lh[i] = b => ~(i >= tail + 1)
            BY <1>0, <2>4
        <3>2. lh' = lh /\ tail' = tail + 1 /\ pc'[p] \in {"install", "clear"}
            BY <2>1, <2>2
        <3>3. Pinned(b)' => \E i \in 1 .. Len(lh) : lh[i] = b /\ i >= tail + 1
            BY <3>2 DEF Pinned
        <3>4. QED
            BY <3>1, <3>3
    <2>7. ASSUME NEW c \in Blocks, c # b PROVE Pinned(c)' <=> Pinned(c)
        <3>1. \A q \in Procs : pc[q] \in {"install", "clear"} => q = p
            BY <2>1 DEF Phases, CommitPCs
        <3>2. Pinned(c) <=> \E i \in 1 .. Len(lh) : lh[i] = c /\ i >= tail
            BY <2>1, <3>1 DEF Pinned
        <3>3. Pinned(c)' <=> \E i \in 1 .. Len(lh) : lh[i] = c /\ i >= tail + 1
            BY <2>1, <2>2, <3>1 DEF Pinned
        <3>4. \A i \in 1 .. Len(lh) : lh[i] = c => (i >= tail <=> i >= tail + 1)
            BY <1>0, <2>1, <2>7
        <3>5. QED
            BY <3>2, <3>3, <3>4
    <2>8. \A c \in Blocks : Locked(c)' <=> Locked(c)
        BY <2>1 DEF Locked
    <2>9. refcnt[b] = 1
        BY <2>1, <2>3, <2>5 DEF Pins, Locked
    <2>10. refcnt'[b] = 0 /\ refcnt' = [refcnt EXCEPT ![b] = refcnt'[b]]
        BY <1>0, <2>1, <2>9, Counting
    <2>11. /\ refcnt'[b] = (IF Locked(b)' THEN 1 ELSE 0) + (IF Pinned(b)' THEN 1 ELSE 0)
          /\ \A c \in Blocks \ {b} : (Locked(c)' <=> Locked(c)) /\ (Pinned(c)' <=> Pinned(c))
        BY <2>1, <2>3, <2>6, <2>7, <2>8, <2>10
    <2>12. QED
        BY <2>10, <2>11, PinsMove
<1>11. ASSUME NEW p \in Procs, clear(p) PROVE Pins'
    <2>1. /\ pc[p] = "clear" /\ tail = Len(lh) + 1 /\ lh' = <<>> /\ UNCHANGED <<refcnt, buf>>
        BY <1>11, <1>0 DEF clear, Headers
    <2>2. ASSUME NEW b \in Blocks PROVE ~Pinned(b)
        BY <1>0, <2>1 DEF Pinned
    <2>3. \A b \in Blocks : ~Pinned(b)'
        BY <2>1 DEF Pinned
    <2>4. QED
        BY <2>1, <2>2, <2>3 DEF Pins
<1>12. ASSUME NEW p \in Procs, end_op_done(p) PROVE Pins'
    BY <1>12, <1>0, PinsKept DEF end_op_done, Phases
<1>13. ASSUME NEW b \in Blocks, read_block(b) PROVE Pins'
    BY <1>13, <1>0, PinsKept DEF read_block, Phases
<1>14. ASSUME NEW b \in Blocks, recycle(b) PROVE Pins'
    BY <1>14, <1>0, PinsKept DEF recycle, Phases
<1>15. CASE crash
    <2>1. \A b \in Blocks : refcnt'[b] = 0 /\ ~Pinned(b)' /\ ~Locked(b)'
        BY <1>15 DEF crash, Pinned, Locked
    <2>2. QED
        BY <2>1 DEF Pins, Locked
<1>16. CASE read_head
    <2>1. \A b \in Blocks : ~Pinned(b) /\ ~Pinned(b)' /\ refcnt'[b] = refcnt[b]
        BY <1>16, <1>0 DEF read_head, Pinned
    <2>2. UNCHANGED buf
        BY <1>16 DEF read_head
    <2>3. QED
        BY <2>1, <2>2 DEF Pins
<1>17. CASE recover_install
    <2>1. \A b \in Blocks : ~Pinned(b) /\ ~Pinned(b)' /\ refcnt'[b] = refcnt[b]
        BY <1>17, <1>0 DEF recover_install, Pinned, install_block, InUse
    <2>2. UNCHANGED buf
        BY <1>17 DEF recover_install
    <2>3. QED
        BY <2>1, <2>2 DEF Pins
<1>18. CASE recover_clear
    <2>1. \A b \in Blocks : ~Pinned(b) /\ ~Pinned(b)' /\ refcnt'[b] = refcnt[b]
        BY <1>18, <1>0 DEF recover_clear, Pinned
    <2>2. UNCHANGED buf
        BY <1>18 DEF recover_clear
    <2>3. QED
        BY <2>1, <2>2 DEF Pins
<1>19. QED
    BY <1>1, <1>2, <1>3, <1>4, <1>5, <1>6, <1>7, <1>8, <1>9, <1>10, <1>11, <1>12, <1>13, <1>14, <1>15, <1>16, <1>17, <1>18 DEF Next, commit, recover_from_log





\* bread(b) does not change when the buffer is filled, or written back.
LEMMA BreadKept ==
    ASSUME TypeOK, NEW b \in Blocks, bread(b) # None, cache' = [cache EXCEPT ![b] = bread(b)],
           disk' = disk \/ disk' = [disk EXCEPT ![b] = bread(b)]
    PROVE  /\ \A c \in Blocks : bread(c)' = bread(c)
           /\ \A c \in Blocks \ {b} : cache'[c] = cache[c] /\ disk'[c] = disk[c]
           /\ cache'[b] = bread(b)
BY DEF bread, TypeOK

LEMMA BreadSome == TypeOK => \A b \in Blocks : bread(b) \in Vals /\ bread(b) # None
BY DEF bread, TypeOK

\* A buffer that nobody holds is not in a transaction that is still to be installed.
LEMMA Unheld ==
    ASSUME Pins, NEW b \in Blocks, refcnt[b] = 0
    PROVE  ~Pinned(b) /\ \A p \in Procs : buf[p] # b
BY DEF Pins

\* What nobody holds is on the disk.
LEMMA UnheldOnDisk ==
    ASSUME TypeOK, Pins, Copies, boot = "up", NEW b \in Blocks, refcnt[b] = 0
    PROVE  bread(b) = disk[b]
<1>1. CASE \E i \in 1 .. Len(lh) : lh[i] = b
    <2>1. PICK i \in 1 .. Len(lh) : lh[i] = b
        BY <1>1
    <2>2. PICK p \in Procs : pc[p] \in {"install", "clear"} /\ ~(i >= tail)
        BY <2>1, Unheld DEF Pinned
    <2>3. i \in 1 .. tail - 1
        BY <2>2 DEF TypeOK
    <2>4. dlog[i] = bread(b) /\ disk[b] = dlog[i]
        BY <2>1, <2>2, <2>3 DEF Copies
    <2>5. QED
        BY <2>4
<1>2. CASE ~\E i \in 1 .. Len(lh) : lh[i] = b
    BY <1>2, Unheld DEF Copies, Cached, bread
<1>3. QED
    BY <1>1, <1>2

\* Nothing that a commit in progress has to do with changes.
LEMMA CopiesKept ==
    ASSUME TypeOK, Copies, boot = "up", Cached', UNCHANGED <<disk, dlog, head, boot>>,
           \A q \in Procs : pc'[q] \in {"write_log", "write_head", "install", "clear"} =>
               \/ pc'[q] = "write_log" /\ tail' = 1
               \/ /\ pc'[q] = pc[q] /\ tail' = tail /\ lh' = lh /\ tail - 1 <= Len(lh)
                  /\ \A i \in 1 .. Len(lh) : bread(lh[i])' = bread(lh[i])
    PROVE  Copies'
<1>0. tail \in Nat /\ Len(lh) \in Nat
    BY DEF TypeOK
<1>1. ASSUME NEW q \in Procs, pc'[q] = "write_log"
      PROVE  \A i \in 1 .. tail' - 1 : dlog'[i] = bread(lh[i])'
    <2>1. CASE tail' = 1
        BY <2>1
    <2>2. CASE /\ pc'[q] = pc[q] /\ tail' = tail /\ lh' = lh /\ tail - 1 <= Len(lh)
               /\ \A i \in 1 .. Len(lh) : bread(lh[i])' = bread(lh[i])
        <3>1. \A i \in 1 .. tail - 1 : dlog[i] = bread(lh[i]) /\ i \in 1 .. Len(lh)
            BY <1>0, <1>1, <2>2 DEF Copies
        <3>2. QED
            BY <2>2, <3>1
    <2>3. QED
        BY <1>1, <2>1, <2>2
<1>2. ASSUME NEW q \in Procs, pc'[q] \in {"write_head", "install", "clear"}
      PROVE  /\ \A i \in 1 .. Len(lh') : dlog'[i] = bread(lh[i])'
             /\ pc'[q] \in {"install", "clear"} => \A i \in 1 .. tail' - 1 : disk[lh[i]]' = dlog'[i]
    <2>1. /\ pc'[q] = pc[q] /\ tail' = tail /\ lh' = lh
          /\ \A i \in 1 .. Len(lh) : bread(lh[i])' = bread(lh[i])
        BY <1>2
    <2>2. QED
        BY <1>2, <2>1 DEF Copies
<1>3. QED
    BY <1>1, <1>2 DEF Copies

LEMMA CopiesStep ==
    ASSUME InUse, TypeOK, Phases, Headers, Pins, Copies, [Next]_vars
    PROVE  Copies'
<1> USE DEF OpPCs, CommitPCs, Goto, wakeup_log, diskVars, bufVars, logVars, opVars
<1>0. /\ pc \in [Procs -> PCs] /\ buf \in [Procs -> Blocks \cup {None}] /\ lh \in Seq(Blocks)
      /\ Len(lh) \in Nat /\ tail \in Nat /\ refcnt \in [Blocks -> 0 .. UINT - 1]
      /\ disk \in [Blocks -> Vals] /\ dlog \in [1 .. LOGSIZE -> Vals \cup {None}]
      /\ cache \in [Blocks -> Vals \cup {None}] /\ head \in Seq(Blocks) /\ Len(lh) <= LOGSIZE
    BY DEF TypeOK
<1>1. CASE UNCHANGED vars
    BY <1>1 DEF vars, Copies, Cached, bread
<1>2. ASSUME NEW p \in Procs, begin_op_sleep(p) PROVE Copies'
    <2>1. Cached'
        BY <1>2, <1>0 DEF begin_op_sleep, Copies, Cached
    <2>2. QED
        BY <1>2, <1>0, <2>1, CopiesKept DEF begin_op_sleep, Phases, Headers, bread
<1>3. ASSUME NEW p \in Procs, begin_op(p) PROVE Copies'
    <2>1. Cached'
        BY <1>3, <1>0 DEF begin_op, Copies, Cached
    <2>2. QED
        BY <1>3, <1>0, <2>1, CopiesKept DEF begin_op, Phases, Headers
<1>4. ASSUME NEW p \in Procs, NEW b \in Blocks, NEW v \in Vals, modify(p, b, v) PROVE Copies'
    <2>1. /\ UNCHANGED <<disk, lh>> /\ cache' = [cache EXCEPT ![b] = v]
          /\ pc' = [pc EXCEPT ![p] = "dirty"] /\ buf' = [buf EXCEPT ![p] = b] /\ pc[p] = "op"
        BY <1>4 DEF modify
    <2>2. pc'[p] = "dirty" /\ buf'[p] = b
        BY <1>0, <2>1
    <2>3. \A q \in Procs : pc[q] = "dirty" => pc'[q] = "dirty" /\ buf'[q] = buf[q]
        BY <1>0, <2>1
    <2>4. Cached'
        <3>1. ASSUME NEW c \in Blocks, c # b
              PROVE  \/ cache'[c] \in {None, disk'[c]}
                     \/ \E i \in 1 .. Len(lh') : lh'[i] = c
                     \/ \E q \in Procs : pc'[q] = "dirty" /\ buf'[q] = c
            <4>1. cache'[c] = cache[c]
                BY <1>0, <2>1, <3>1
            <4>2. QED
                BY <2>1, <2>3, <4>1 DEF Copies, Cached
        <3>2. QED
            BY <2>2, <3>1 DEF Cached
    <2>5. QED
        BY <1>4, <1>0, <2>4, CopiesKept DEF modify, Phases, Headers
<1>5. ASSUME NEW p \in Procs, log_write(p) PROVE Copies'
    <2>0. PICK b \in Blocks : b = buf[p]
        BY <1>5, <1>0 DEF log_write, Phases
    <2>1. /\ UNCHANGED <<disk, cache, buf>> /\ pc' = [pc EXCEPT ![p] = "logged"]
          /\ lh' = IF Logged(b) THEN lh ELSE Append(lh, b)
        BY <1>5, <2>0 DEF log_write
    <2>2. \E i \in 1 .. Len(lh') : lh'[i] = b
        <3>1. CASE Logged(b)
            BY <2>1, <3>1 DEF Logged
        <3>2. CASE ~Logged(b)
            <4>1. Len(lh) + 1 \in 1 .. Len(lh') /\ lh'[Len(lh) + 1] = b
                BY <1>0, <2>1, <3>2
            <4>2. QED
                BY <4>1
        <3>3. QED
            BY <3>1, <3>2
    <2>3. \A i \in 1 .. Len(lh) : i \in 1 .. Len(lh') /\ lh'[i] = lh[i]
        BY <1>0, <2>1
    <2>4. \A q \in Procs : pc[q] = "dirty" => q = p \/ pc'[q] = "dirty"
        BY <1>0, <2>1
    <2>5. ASSUME NEW c \in Blocks, ~(\E i \in 1 .. Len(lh') : lh'[i] = c)
          PROVE  cache'[c] \in {None, disk'[c]} \/ \E q \in Procs : pc'[q] = "dirty" /\ buf'[q] = c
        <3>1. ~(\E i \in 1 .. Len(lh) : lh[i] = c) /\ c # b
            BY <2>2, <2>3, <2>5
        <3>2. QED
            BY <2>0, <2>1, <2>4, <3>1 DEF Copies, Cached
    <2>6. Cached'
        BY <2>5 DEF Cached
    <2>7. QED
        BY <1>5, <1>0, <2>6, CopiesKept DEF log_write, Phases, Headers
<1>6. ASSUME NEW p \in Procs, brelse(p) PROVE Copies'
    <2>1. Cached'
        BY <1>6, <1>0 DEF brelse, Copies, Cached, InUse
    <2>2. QED
        BY <1>6, <1>0, <2>1, CopiesKept DEF brelse, Phases, Headers
<1>7. ASSUME NEW p \in Procs, end_op(p) PROVE Copies'
    <2>1. \A q \in Procs : pc'[q] = "dirty" <=> pc[q] = "dirty"
        BY <1>7, <1>0 DEF end_op
    <2>2. UNCHANGED <<disk, cache, lh, buf>>
        BY <1>7 DEF end_op
    <2>3. Cached'
        BY <2>1, <2>2 DEF Copies, Cached
    <2>4. QED
        BY <1>7, <1>0, <2>3, CopiesKept DEF end_op, Phases, Headers
<1>8. ASSUME NEW p \in Procs, write_log(p) PROVE Copies'
    <2>0. PICK b \in Blocks : b = lh[tail]
        BY <1>8, <1>0 DEF write_log, Headers
    <2>1. /\ pc[p] = "write_log" /\ boot = "up" /\ tail \in 1 .. Len(lh) /\ tail \in 1 .. LOGSIZE
          /\ dlog' = [dlog EXCEPT ![tail] = bread(b)] /\ cache' = [cache EXCEPT ![b] = bread(b)]
          /\ tail' = (IF tail = Len(lh) THEN 1 ELSE tail + 1)
          /\ pc' = [pc EXCEPT ![p] = IF tail = Len(lh) THEN "write_head" ELSE "write_log"]
          /\ UNCHANGED <<disk, head, lh, buf, boot>>
        BY <1>8, <1>0, <2>0 DEF write_log, Headers, Phases
    <2>2. /\ \A c \in Blocks : bread(c)' = bread(c)
          /\ \A c \in Blocks \ {b} : cache'[c] = cache[c]
        BY <2>1, BreadKept, BreadSome
    <2>3. \A q \in Procs : q # p => pc[q] \notin CommitPCs /\ pc'[q] = pc[q]
        BY <1>0, <2>1 DEF Phases
    <2>4. head = <<>>
        BY <2>1, <2>3 DEF Headers
    <2>5. \A i \in 1 .. tail : dlog'[i] = bread(lh[i])'
        <3>1. \A i \in 1 .. tail - 1 : dlog[i] = bread(lh[i])
            BY <2>1 DEF Copies
        <3>2. \A i \in 1 .. tail : lh[i] \in Blocks /\ i \in 1 .. LOGSIZE
            BY <1>0, <2>1
        <3>3. \A i \in 1 .. tail : bread(lh[i])' = bread(lh[i])
            BY <2>1, <2>2, <3>2 DEF bread
        <3>4. \A i \in 1 .. tail : dlog'[i] = bread(lh[i])
            BY <1>0, <2>0, <2>1, <3>1, <3>2
        <3>5. QED
            BY <3>3, <3>4
    <2>6. pc'[p] \in {"write_head", "write_log"} /\ (pc'[p] = "write_head" <=> tail = Len(lh))
        BY <1>0, <2>1
    <2>7. \A c \in Blocks : \/ cache'[c] \in {None, disk'[c]}
                            \/ \E i \in 1 .. Len(lh') : lh'[i] = c
                            \/ \E q \in Procs : pc'[q] = "dirty" /\ buf'[q] = c
        <3>1. Cached
            BY DEF Copies
        <3>2. QED
            BY <2>0, <2>1, <2>2, <2>3, <3>1 DEF Cached
    <2>8. ASSUME NEW q \in Procs, pc'[q] \in CommitPCs PROVE q = p
        BY <2>3, <2>8
    <2>9. \A i \in 1 .. tail' - 1 : tail # Len(lh) => i \in 1 .. tail
        BY <1>0, <2>1
    <2>10. tail = Len(lh) => \A i \in 1 .. Len(lh) : dlog'[i] = bread(lh[i])'
        BY <2>1, <2>5
    <2>11. tail # Len(lh) => \A i \in 1 .. tail' - 1 : dlog'[i] = bread(lh[i])'
        BY <2>1, <2>5, <2>9
    <2>12. QED
        BY <2>1, <2>4, <2>6, <2>7, <2>8, <2>10, <2>11 DEF Copies, Cached
<1>9. ASSUME NEW p \in Procs, write_head(p) PROVE Copies'
    <2>1. /\ pc[p] = "write_head" /\ tail = 1 /\ boot = "up" /\ head' = lh
          /\ UNCHANGED <<disk, dlog, cache, lh, tail, buf, boot>> /\ pc' = [pc EXCEPT ![p] = "install"]
        BY <1>9 DEF write_head, Headers, Phases
    <2>2. \A q \in Procs : q # p => pc'[q] = pc[q] /\ pc[q] \notin CommitPCs
        BY <1>0, <2>1 DEF Phases
    <2>3. \A i \in 1 .. Len(lh) : dlog[i] = bread(lh[i]) /\ lh[i] \in Blocks
        BY <1>0, <2>1 DEF Copies
    <2>4. \A i \in 1 .. Len(lh) : dlog[i] # None
        BY <2>3, BreadSome
    <2>5. pc'[p] = "install"
        BY <1>0, <2>1
    <2>6. \A i \in 1 .. tail - 1 : FALSE
        BY <2>1
    <2>7. Cached'
        BY <1>0, <2>1, <2>2, <2>5 DEF Copies, Cached
    <2>8. \A i \in 1 .. Len(lh) : bread(lh[i])' = bread(lh[i])
        BY <2>1 DEF bread
    <2>9. QED
        BY <2>1, <2>2, <2>3, <2>4, <2>5, <2>6, <2>7, <2>8 DEF Copies
<1>10. ASSUME NEW p \in Procs, install_trans(p) PROVE Copies'
    <2>0. PICK b \in Blocks : b = lh[tail]
        BY <1>10, <1>0 DEF install_trans, Headers
    <2>1. /\ pc[p] = "install" /\ boot = "up" /\ tail \in 1 .. Len(lh)
          /\ disk' = [disk EXCEPT ![b] = dlog[tail]] /\ cache' = [cache EXCEPT ![b] = dlog[tail]]
          /\ tail' = tail + 1
          /\ pc' = [pc EXCEPT ![p] = IF tail = Len(lh) THEN "clear" ELSE "install"]
          /\ UNCHANGED <<dlog, head, lh, buf, boot>>
        BY <1>10, <1>0, <2>0 DEF install_trans, install_block, Headers, Phases
    <2>2. \A i \in 1 .. Len(lh) : dlog[i] = bread(lh[i]) /\ lh[i] \in Blocks
        <3>1. \A i \in 1 .. Len(lh) : lh[i] \in Blocks
            BY <1>0
        <3>2. QED
            BY <2>1, <3>1 DEF Copies
    <2>3. dlog[tail] = bread(b)
        BY <2>0, <2>1, <2>2
    <2>4. /\ \A c \in Blocks : bread(c)' = bread(c)
          /\ \A c \in Blocks \ {b} : cache'[c] = cache[c] /\ disk'[c] = disk[c]
          /\ cache'[b] = disk'[b] /\ disk'[b] = dlog[tail]
        BY <1>0, <2>1, <2>3, BreadKept, BreadSome
    <2>5. \A q \in Procs : q # p => pc[q] \notin CommitPCs /\ pc'[q] = pc[q]
        BY <1>0, <2>1 DEF Phases
    <2>6. pc'[p] \in {"install", "clear"}
        BY <1>0, <2>1
    <2>7. \A i \in 1 .. Len(lh) : dlog[i] = bread(lh[i])'
        BY <2>1, <2>2, <2>4 DEF bread
    <2>8. ASSUME NEW i \in 1 .. tail PROVE disk'[lh[i]] = dlog[i]
        <3>1. CASE i = tail
            BY <2>0, <2>4, <3>1
        <3>2. CASE i # tail
            <4>1. i \in 1 .. tail - 1 /\ i \in 1 .. Len(lh) /\ lh[i] # b
                BY <1>0, <2>0, <2>1, <3>2 DEF Headers, NoRepeats
            <4>2. disk[lh[i]] = dlog[i]
                BY <2>1, <4>1 DEF Copies
            <4>3. QED
                BY <2>2, <2>4, <4>1, <4>2
        <3>3. QED
            BY <3>1, <3>2
    <2>9. Cached'
        <3>1. Cached
            BY DEF Copies
        <3>2. QED
            BY <2>1, <2>4, <2>5, <3>1 DEF Cached
    <2>10. tail' - 1 = tail
        BY <1>0, <2>1
    <2>11. \A q \in Procs : pc'[q] \in CommitPCs => q = p
        BY <2>5
    <2>12. QED
        BY <2>1, <2>6, <2>7, <2>8, <2>9, <2>10, <2>11 DEF Copies, Cached
<1>11. ASSUME NEW p \in Procs, clear(p) PROVE Copies'
    <2>1. /\ pc[p] = "clear" /\ boot = "up" /\ tail - 1 = Len(lh) /\ lh' = <<>> /\ head' = <<>>
          /\ UNCHANGED <<disk, dlog, cache, buf, boot>> /\ pc' = [pc EXCEPT ![p] = "done"]
        BY <1>11, <1>0 DEF clear, Headers, Phases
    <2>2. \A q \in Procs : pc'[q] \notin CommitPCs \ {"done"} /\ pc[q] # "dirty"
        BY <1>0, <2>1 DEF Phases
    <2>3. \A i \in 1 .. Len(lh) : dlog[i] = bread(lh[i]) /\ disk[lh[i]] = dlog[i]
        BY <2>1 DEF Copies
    <2>4. \A b \in Blocks : cache[b] \in {None, disk[b]}
        BY <2>2, <2>3 DEF Copies, Cached, bread
    <2>5. QED
        BY <2>1, <2>2, <2>4 DEF Copies, Cached
<1>12. ASSUME NEW p \in Procs, end_op_done(p) PROVE Copies'
    <2>1. /\ UNCHANGED <<disk, dlog, head, lh, tail, cache, buf, boot>>
          /\ \A q \in Procs : pc[q] # "dirty" <=> pc'[q] # "dirty"
          /\ \A q \in Procs : pc'[q] \in {"write_log", "write_head", "install", "clear"} => pc'[q] = pc[q]
        BY <1>12, <1>0 DEF end_op_done, wakeup_log, diskVars, bufVars
    <2>2. Cached'
        BY <2>1 DEF Copies, Cached
    <2>3. QED
        BY <2>1, <2>2 DEF Copies, bread
<1>13. ASSUME NEW b \in Blocks, read_block(b) PROVE Copies'
    <2>1. Cached'
        BY <1>13, <1>0 DEF read_block, Copies, Cached
    <2>2. boot = "up" /\ UNCHANGED <<disk, dlog, head, lh, tail, boot, pc>> /\ cache' = [cache EXCEPT ![b] = bread(b)]
        BY <1>13 DEF read_block, bread
    <2>3. \A c \in Blocks : bread(c)' = bread(c)
        BY <2>2, BreadKept, BreadSome
    <2>4. \A i \in 1 .. Len(lh) : bread(lh[i])' = bread(lh[i])
        BY <1>0, <2>2, <2>3 DEF bread
    <2>5. \A q \in Procs : pc[q] \in {"write_log", "write_head", "install", "clear"} => tail - 1 <= Len(lh)
        BY <1>0 DEF Headers
    <2>6. QED
        BY <2>1, <2>2, <2>4, <2>5, CopiesKept
<1>14. ASSUME NEW b \in Blocks, recycle(b) PROVE Copies'
    <2>1. /\ boot = "up" /\ refcnt[b] = 0 /\ cache' = [cache EXCEPT ![b] = None]
          /\ UNCHANGED <<disk, dlog, head, lh, tail, buf, boot, pc>>
        BY <1>14 DEF recycle
    <2>2. \A c \in Blocks : bread(c)' = bread(c)
        BY <1>0, <2>1, UnheldOnDisk DEF bread
    <2>3. \A i \in 1 .. Len(lh) : bread(lh[i])' = bread(lh[i])
        BY <1>0, <2>1, <2>2 DEF bread
    <2>4. Cached'
        <3>1. \A c \in Blocks : cache'[c] \in {cache[c], None}
            BY <1>0, <2>1
        <3>2. QED
            BY <2>1, <3>1 DEF Copies, Cached
    <2>5. \A q \in Procs : pc[q] \in {"write_log", "write_head", "install", "clear"} => tail - 1 <= Len(lh)
        BY <1>0 DEF Headers
    <2>6. QED
        BY <2>1, <2>3, <2>4, <2>5, CopiesKept
<1>15. CASE crash
    BY <1>15, <1>0 DEF crash, Copies, Cached, bread
<1>16. CASE read_head
    BY <1>16, <1>0 DEF read_head, Phases, Copies, Cached, bread
<1>17. CASE recover_install
    <2>0. PICK b \in Blocks : b = lh[tail]
        BY <1>17, <1>0 DEF recover_install, Headers
    <2>1. /\ boot = "install" /\ boot' # "up" /\ tail \in 1 .. Len(lh) /\ tail' - 1 = tail
          /\ disk' = [disk EXCEPT ![b] = dlog[tail]] /\ cache' = [cache EXCEPT ![b] = dlog[tail]]
          /\ UNCHANGED <<dlog, head, lh, buf, pc>>
        BY <1>17, <1>0, <2>0 DEF recover_install, install_block, Headers
    <2>2. /\ \A c \in Blocks \ {b} : cache'[c] = cache[c] /\ disk'[c] = disk[c]
          /\ cache'[b] = disk'[b] /\ disk'[b] = dlog[tail]
        BY <1>0, <2>1
    <2>3. \A c \in Blocks : cache'[c] \in {None, disk'[c]}
        BY <2>1, <2>2 DEF Copies
    <2>4. ASSUME NEW i \in 1 .. tail PROVE disk'[lh[i]] = dlog[i]
        <3>1. CASE i = tail
            BY <2>0, <2>2, <3>1
        <3>2. CASE i # tail
            <4>1. i \in 1 .. tail - 1 /\ i \in 1 .. Len(lh) /\ lh[i] # b /\ lh[i] \in Blocks
                BY <1>0, <2>0, <2>1, <3>2 DEF Headers, NoRepeats
            <4>2. disk[lh[i]] = dlog[i]
                BY <2>1, <4>1 DEF Copies
            <4>3. QED
                BY <2>2, <4>1, <4>2
        <3>3. QED
            BY <3>1, <3>2
    <2>5. \A q \in Procs : pc'[q] \notin CommitPCs
        BY <2>1 DEF Phases
    <2>6. QED
        BY <2>1, <2>3, <2>4, <2>5 DEF Copies, Cached
<1>18. CASE recover_clear
    BY <1>18, <1>0 DEF recover_clear, Phases, Headers, Copies, Cached, bread
<1>19. QED
    BY <1>1, <1>2, <1>3, <1>4, <1>5, <1>6, <1>7, <1>8, <1>9, <1>10, <1>11, <1>12, <1>13, <1>14, <1>15, <1>16, <1>17, <1>18 DEF Next, commit, recover_from_log

LEMMA PlusType ==
    ASSUME TypeOK, NEW b \in Blocks, NEW k \in {1, -1}
    PROVE  /\ Plus(refcnt[b], k) \in 0 .. UINT - 1
           /\ [refcnt EXCEPT ![b] = Plus(refcnt[b], k)] \in [Blocks -> 0 .. UINT - 1]
<1>1. refcnt[b] \in Int /\ UINT \in Nat \ {0}
    BY DEF TypeOK
<1>2. \A n \in Int : n % UINT \in 0 .. UINT - 1
    BY <1>1
<1>3. Plus(refcnt[b], k) \in 0 .. UINT - 1
    BY <1>1, <1>2 DEF Plus
<1>4. QED
    BY <1>3 DEF TypeOK

LEMMA TypeStep ==
    ASSUME InUse, LogInv, [Next]_vars
    PROVE  TypeOK'
<1> USE DEF OpPCs, CommitPCs, PCs, Goto, wakeup_log, diskVars, bufVars, logVars, opVars, TypeOK
<1>0. TypeOK /\ LOGSIZE \in Nat /\ Len(lh) \in Nat /\ 1 <= LOGSIZE + 1
    BY DEF LogInv
<1>1. CASE UNCHANGED vars
    BY <1>1, <1>0 DEF vars
<1>2. ASSUME NEW p \in Procs, begin_op_sleep(p) PROVE TypeOK'
    BY <1>2, <1>0 DEF begin_op_sleep
<1>3. ASSUME NEW p \in Procs, begin_op(p) PROVE TypeOK'
    BY <1>3, <1>0 DEF begin_op
<1>4. ASSUME NEW p \in Procs, NEW b \in Blocks, NEW v \in Vals, modify(p, b, v) PROVE TypeOK'
    <2>1. refcnt' \in [Blocks -> 0 .. UINT - 1]
        BY <1>4, <1>0, PlusType DEF modify
    <2>2. cache' \in [Blocks -> Vals \cup {None}] /\ buf' \in [Procs -> Blocks \cup {None}] /\ pc' \in [Procs -> PCs]
        BY <1>4, <1>0 DEF modify
    <2>3. nw' \in [Procs -> 0 .. OpWrites]
        BY <1>4, <1>0 DEF modify
    <2>4. QED
        BY <1>4, <1>0, <2>1, <2>2, <2>3 DEF modify
<1>5. ASSUME NEW p \in Procs, log_write(p) PROVE TypeOK'
    <2>1. buf[p] \in Blocks /\ Len(lh) + 2 <= LOGSIZE
        BY <1>5, <1>0, LogWriteUses DEF LogInv, Phases, log_write
    <2>2. lh' \in Seq(Blocks) /\ Len(lh') <= LOGSIZE
        BY <1>5, <1>0, <2>1 DEF log_write
    <2>3. refcnt' \in [Blocks -> 0 .. UINT - 1]
        <3>1. CASE Logged(buf[p])
            BY <1>5, <1>0, <3>1 DEF log_write
        <3>2. CASE ~Logged(buf[p])
            BY <1>5, <1>0, <2>1, <3>2, PlusType DEF log_write
        <3>3. QED
            BY <3>1, <3>2
    <2>4. panicked' \in BOOLEAN /\ pc' \in [Procs -> PCs]
        BY <1>5, <1>0 DEF log_write
    <2>5. QED
        BY <1>5, <1>0, <2>2, <2>3, <2>4 DEF log_write
<1>6. ASSUME NEW p \in Procs, brelse(p) PROVE TypeOK'
    <2>1. buf[p] \in Blocks
        BY <1>6, <1>0 DEF brelse, LogInv, Phases, InUse
    <2>2. refcnt' \in [Blocks -> 0 .. UINT - 1]
        BY <1>6, <1>0, <2>1, PlusType DEF brelse
    <2>3. QED
        BY <1>6, <1>0, <2>2 DEF brelse
<1>7. ASSUME NEW p \in Procs, end_op(p) PROVE TypeOK'
    <2>1. outstanding - 1 \in Nat
        BY <1>7, LastOne DEF LogInv, end_op
    <2>2. 1 \in 1 .. LOGSIZE + 1
        BY <1>0
    <2>3. pc' \in [Procs -> PCs]
        BY <1>7, <1>0 DEF end_op
    <2>4. committing' \in BOOLEAN /\ tail' \in 1 .. LOGSIZE + 1
        BY <1>7, <1>0, <2>2 DEF end_op
    <2>5. QED
        BY <1>7, <1>0, <2>1, <2>3, <2>4 DEF end_op
<1>8. ASSUME NEW p \in Procs, write_log(p) PROVE TypeOK'
    <2>1. tail \in 1 .. Len(lh) /\ tail \in 1 .. LOGSIZE /\ lh[tail] \in Blocks
        BY <1>8, <1>0 DEF LogInv, Headers, write_log
    <2>2. bread(lh[tail]) \in Vals
        BY <1>0, <2>1, BreadSome DEF LogInv
    <2>3. dlog' \in [1 .. LOGSIZE -> Vals \cup {None}] /\ cache' \in [Blocks -> Vals \cup {None}]
        BY <1>8, <1>0, <2>1, <2>2 DEF write_log
    <2>4. tail' \in 1 .. LOGSIZE + 1 /\ pc' \in [Procs -> PCs]
        BY <1>8, <1>0, <2>1 DEF write_log
    <2>5. QED
        BY <1>8, <1>0, <2>3, <2>4 DEF write_log
<1>9. ASSUME NEW p \in Procs, write_head(p) PROVE TypeOK'
    BY <1>9, <1>0 DEF write_head
<1>10. ASSUME NEW p \in Procs, install_trans(p) PROVE TypeOK'
    <2>1. tail \in 1 .. Len(lh) /\ tail \in 1 .. LOGSIZE /\ lh[tail] \in Blocks /\ head = lh
        BY <1>10, <1>0 DEF LogInv, Headers, Phases, install_trans
    <2>2. dlog[tail] \in Vals
        BY <1>0, <2>1 DEF LogInv, Copies
    <2>3. disk' \in [Blocks -> Vals] /\ cache' \in [Blocks -> Vals \cup {None}]
        BY <1>10, <1>0, <2>1, <2>2 DEF install_trans, install_block
    <2>4. refcnt' \in [Blocks -> 0 .. UINT - 1]
        BY <1>10, <1>0, <2>1, PlusType DEF install_trans, install_block
    <2>5. tail' \in 1 .. LOGSIZE + 1 /\ pc' \in [Procs -> PCs] /\ boot' \in {"read_head", "install", "clear", "up"}
        BY <1>10, <1>0, <2>1 DEF install_trans
    <2>6. QED
        BY <1>10, <1>0, <2>3, <2>4, <2>5 DEF install_trans
<1>11. ASSUME NEW p \in Procs, clear(p) PROVE TypeOK'
    BY <1>11, <1>0 DEF clear
<1>12. ASSUME NEW p \in Procs, end_op_done(p) PROVE TypeOK'
    BY <1>12, <1>0 DEF end_op_done
<1>13. ASSUME NEW b \in Blocks, read_block(b) PROVE TypeOK'
    BY <1>13, <1>0 DEF read_block
<1>14. ASSUME NEW b \in Blocks, recycle(b) PROVE TypeOK'
    BY <1>14, <1>0 DEF recycle
<1>15. CASE crash
    <2>1. 0 \in 0 .. UINT - 1 /\ 0 \in 0 .. OpWrites /\ 1 \in 1 .. LOGSIZE + 1
        BY <1>0
    <2>2. <<>> \in Seq(Blocks) /\ Len(<<>>) <= LOGSIZE
        BY <1>0
    <2>3. /\ cache' \in [Blocks -> Vals \cup {None}] /\ refcnt' \in [Blocks -> 0 .. UINT - 1]
          /\ pc' \in [Procs -> PCs] /\ buf' \in [Procs -> Blocks \cup {None}] /\ nw' \in [Procs -> 0 .. OpWrites]
        BY <1>15, <2>1 DEF crash
    <2>4. lh' \in Seq(Blocks) /\ Len(lh') <= LOGSIZE /\ tail' \in 1 .. LOGSIZE + 1
        BY <1>15, <2>1, <2>2 DEF crash
    <2>5. QED
        BY <1>15, <1>0, <2>3, <2>4 DEF crash
<1>16. CASE read_head
    BY <1>16, <1>0 DEF read_head
<1>17. CASE recover_install
    <2>1. tail \in 1 .. Len(lh) /\ tail \in 1 .. LOGSIZE /\ lh[tail] \in Blocks /\ head = lh
        BY <1>17, <1>0 DEF LogInv, Headers, Phases, recover_install
    <2>2. dlog[tail] \in Vals
        BY <1>0, <2>1 DEF LogInv, Copies
    <2>3. disk' \in [Blocks -> Vals] /\ cache' \in [Blocks -> Vals \cup {None}]
        BY <1>17, <1>0, <2>1, <2>2 DEF recover_install, install_block
    <2>4. refcnt' \in [Blocks -> 0 .. UINT - 1]
        <3>1. refcnt' = [refcnt EXCEPT ![lh[tail]] = refcnt[lh[tail]]]
            BY <1>17 DEF recover_install, install_block, InUse
        <3>2. QED
            BY <1>0, <2>1, <3>1
    <2>5. tail' \in 1 .. LOGSIZE + 1 /\ pc' \in [Procs -> PCs] /\ boot' \in {"read_head", "install", "clear", "up"}
        BY <1>17, <1>0, <2>1 DEF recover_install
    <2>6. QED
        BY <1>17, <1>0, <2>3, <2>4, <2>5 DEF recover_install
<1>18. CASE recover_clear
    BY <1>18, <1>0 DEF recover_clear
<1>19. QED
    BY <1>1, <1>2, <1>3, <1>4, <1>5, <1>6, <1>7, <1>8, <1>9, <1>10, <1>11, <1>12, <1>13, <1>14, <1>15, <1>16, <1>17, <1>18 DEF Next, commit, recover_from_log

\* What begin_op() reserves covers every log_write(), and a commit waits for the last call.
LEMMA PanicStep ==
    ASSUME InUse, LogInv, [Next]_vars
    PROVE  ~panicked'
<1>1. ASSUME NEW p \in Procs, log_write(p) PROVE ~panicked'
    <2>1. Len(lh) + 2 <= LOGSIZE /\ outstanding >= 1 /\ LOGSIZE <= NLOG /\ ~panicked
        BY <1>1, LogWriteUses DEF LogInv, InUse
    <2>2. Len(lh) \in Nat /\ outstanding \in Nat
        BY DEF LogInv, TypeOK
    <2>3. ~log_write_panics
        BY <2>1, <2>2 DEF log_write_panics
    <2>4. QED
        BY <1>1, <2>1, <2>3 DEF log_write
<1>2. ASSUME NEW p \in Procs, end_op(p) PROVE ~panicked'
    BY <1>2 DEF LogInv, Phases, OpPCs, end_op
<1>3. CASE UNCHANGED panicked
    BY <1>3 DEF LogInv
<1>4. QED
    BY <1>1, <1>2, <1>3 DEF Next, vars, commit, recover_from_log, begin_op_sleep, begin_op, modify, brelse, write_log, write_head, install_trans, clear, end_op_done, read_block, recycle, crash, read_head, recover_install, recover_clear

LEMMA LogInit == InUse /\ Init => LogInv
<1> SUFFICES ASSUME InUse, Init PROVE LogInv
    OBVIOUS
<1> USE DEF Init
<1>1. TypeOK
    <2>1. 0 \in 0 .. UINT - 1 /\ 0 \in 0 .. OpWrites /\ 1 \in 1 .. LOGSIZE + 1
        OBVIOUS
    <2>2. <<>> \in Seq(Blocks) /\ Len(<<>>) <= LOGSIZE
        OBVIOUS
    <2>3. /\ cache \in [Blocks -> Vals \cup {None}] /\ refcnt \in [Blocks -> 0 .. UINT - 1]
          /\ pc \in [Procs -> PCs] /\ buf \in [Procs -> Blocks \cup {None}] /\ nw \in [Procs -> 0 .. OpWrites]
          /\ dlog \in [1 .. LOGSIZE -> Vals \cup {None}]
        BY <2>1 DEF PCs
    <2>4. lh \in Seq(Blocks) /\ Len(lh) <= LOGSIZE /\ head \in Seq(Blocks) /\ Len(head) <= LOGSIZE
        BY <2>2
    <2>5. QED
        BY <2>1, <2>3, <2>4 DEF TypeOK
<1>2. Phases /\ Headers /\ Copies
    BY DEF Phases, Headers, Copies, Cached, OpPCs, CommitPCs, NoRepeats
<1>3. Active = {} /\ Reserved = {}
    BY DEF Active, Reserved, OpPCs
<1>4. Reservations
    BY <1>3, FS_EmptySet DEF Reservations
<1>5. Pins
    <2>1. \A b \in Blocks : refcnt[b] = 0 /\ ~Pinned(b) /\ ~(\E p \in Procs : buf[p] = b)
        BY DEF Pinned
    <2>2. QED
        BY <2>1 DEF Pins
<1>6. QED
    BY <1>1, <1>2, <1>4, <1>5 DEF LogInv

LEMMA LogStep == InUse /\ LogInv /\ [Next]_vars => LogInv'
<1> SUFFICES ASSUME InUse, LogInv, [Next]_vars PROVE LogInv'
    OBVIOUS
<1>1. TypeOK' /\ ~panicked'
    BY TypeStep, PanicStep
<1>2. Phases' /\ Headers' /\ Reservations'
    BY PhasesStep, HeadersStep, ReservationsStep DEF LogInv
<1>3. Pins' /\ Copies'
    BY PinsStep, CopiesStep DEF LogInv
<1>4. QED
    BY <1>1, <1>2, <1>3 DEF LogInv

-----------------------------------------------------------------------------
(* The theorems.                                                           *)

\* The inductive invariant holds in every state of the log.
THEOREM LogInvariant == ASSUME InUse PROVE Spec => []LogInv
<1>1. Init => LogInv
    BY LogInit
<1>2. LogInv /\ [Next]_vars => LogInv'
    BY LogStep
<1>3. QED
    BY <1>1, <1>2, PTL DEF Spec

\* One process at most holds a buffer locked.
LEMMA Holders ==
    ASSUME Phases, NEW b \in Blocks
    PROVE  Cardinality({p \in Procs : buf[p] = b}) = IF \E p \in Procs : buf[p] = b THEN 1 ELSE 0
<1>1. CASE \E p \in Procs : buf[p] = b
    <2>1. PICK p \in Procs : buf[p] = b
        BY <1>1
    <2>2. {q \in Procs : buf[q] = b} = {p}
        BY <2>1 DEF Phases
    <2>3. QED
        BY <1>1, <2>2, FS_Singleton
<1>2. CASE ~\E p \in Procs : buf[p] = b
    <2>1. {q \in Procs : buf[q] = b} = {}
        BY <1>2
    <2>2. QED
        BY <1>2, <2>1, FS_EmptySet
<1>3. QED
    BY <1>1, <1>2

LEMMA InvImpliesLogOK == LogInv => LogOK
<1> SUFFICES ASSUME LogInv PROVE LogOK
    OBVIOUS
<1>1. PinsMatch
    <2>1. ASSUME NEW b \in Blocks
          PROVE  /\ refcnt[b] = (IF \E p \in Procs : buf[p] = b THEN 1 ELSE 0) + (IF Pinned(b) THEN 1 ELSE 0)
                 /\ Cardinality({p \in Procs : buf[p] = b}) = IF \E p \in Procs : buf[p] = b THEN 1 ELSE 0
        BY Holders DEF LogInv, Pins
    <2>2. QED
        BY <2>1 DEF PinsMatch, Pinned
<1>2. CommitAlone
    <2>1. ASSUME NEW p \in Procs, pc[p] \in CommitPCs PROVE outstanding = 0
        <3>1. Active = {}
            BY <2>1 DEF LogInv, Phases, Active
        <3>2. QED
            BY <3>1, FS_EmptySet DEF LogInv, Reservations
    <2>2. QED
        BY <2>1 DEF CommitAlone, LogInv, Phases, Reservations
<1>3. QED
    BY <1>1, <1>2 DEF LogOK, LogInv

\* Pins, calls and commits agree, and no panic() of log.c is reached (log.c:125-234).
THEOREM LogBookkeeping == ASSUME InUse PROVE Spec => []LogOK
BY LogInvariant, InvImpliesLogOK, PTL

LEMMA InvImpliesQuiet == LogInv => QuietIsDurable
<1> SUFFICES ASSUME LogInv, boot = "up", outstanding = 0, ~committing PROVE Durable = View
    BY DEF QuietIsDurable
<1>1. Active = {}
    BY ActiveFinite, FS_EmptySet DEF LogInv, Reservations
<1>2. \A p \in Procs : pc[p] \notin OpPCs \cup CommitPCs
    BY <1>1 DEF LogInv, Phases, Active
<1>3. lh = <<>> /\ head = <<>>
    BY <1>2 DEF LogInv, Headers, CommitPCs
<1>4. \A b \in Blocks : bread(b) = disk[b]
    BY <1>2, <1>3 DEF LogInv, Copies, Cached, bread, OpPCs
<1>5. QED
    BY <1>3, <1>4 DEF Durable, View

\* When no call is outstanding and no commit runs, the disk has everything (log.c:148-171).
THEOREM QuietDurable == ASSUME InUse PROVE Spec => []QuietIsDurable
BY LogInvariant, InvImpliesQuiet, PTL
-----------------------------------------------------------------------------
(* The log implements TxnDisk: what a recovery would leave on the disk     *)
(* changes only when write_head() commits, and what bread() returns only   *)
(* when a call changes a block or the machine stops.                       *)

InHead(b) == \E i \in 1 .. Len(head) : head[i] = b

LEMMA DurableIs ==
    ASSUME LogInv
    PROVE  /\ \A i \in 1 .. Len(head) : Durable[head[i]] = dlog[i]
           /\ \A b \in Blocks : ~InHead(b) => Durable[b] = disk[b]
<1>1. ASSUME NEW i \in 1 .. Len(head) PROVE Durable[head[i]] = dlog[i]
    <2>1. head[i] \in Blocks
        BY DEF LogInv, TypeOK
    <2>2. (CHOOSE k \in 1 .. Len(head) : head[k] = head[i]) = i
        BY DEF LogInv, Headers, NoRepeats
    <2>3. QED
        BY <2>1, <2>2 DEF Durable
<1>2. QED
    BY <1>1 DEF Durable, InHead

LEMMA DurableMap == Durable = [b \in Blocks |-> Durable[b]]
BY DEF Durable

LEMMA DurableKept ==
    ASSUME UNCHANGED <<head, dlog>>, \A b \in Blocks : ~InHead(b) => disk'[b] = disk[b]
    PROVE  Durable' = Durable
BY DEF Durable, InHead

\* Once all is installed, nothing is left in the log that the disk has not.
LEMMA DurableInstalled ==
    ASSUME LogInv, \A i \in 1 .. Len(head) : disk[head[i]] = dlog[i]
    PROVE  \A b \in Blocks : Durable[b] = disk[b]
BY DurableIs DEF InHead

LEMMA EmptyLog == head = <<>> => \A b \in Blocks : Durable[b] = disk[b]
BY DEF Durable

LEMMA ViewKept ==
    ASSUME boot = "up", UNCHANGED boot, \A b \in Blocks : bread(b)' = bread(b)
    PROVE  View' = View
BY DEF View

LEMMA DownView == boot # "up" => View = Durable
BY DEF View

LEMMA InitRefines == InUse /\ Init => TD!Init
<1> SUFFICES ASSUME InUse, Init PROVE TD!Init
    OBVIOUS
<1>1. Durable = [b \in Blocks |-> disk[b]] /\ Active = {}
    BY DEF Init, Durable, Active, OpPCs
<1>2. View = Durable
    BY DEF Init, View
<1>3. QED
    BY <1>1, <1>2 DEF TD!Init, Init

LEMMA StepRefines ==
    ASSUME InUse, LogInv, [Next]_vars
    PROVE  [TD!Next]_(TD!vars)
<1> USE DEF OpPCs, CommitPCs, Goto, wakeup_log, diskVars, bufVars, logVars, opVars
<1>0. /\ TypeOK /\ Phases /\ Headers /\ Pins /\ Copies
      /\ pc \in [Procs -> PCs] /\ lh \in Seq(Blocks) /\ Len(lh) \in Nat
      /\ disk \in [Blocks -> Vals] /\ cache \in [Blocks -> Vals \cup {None}]
    BY DEF LogInv, TypeOK
<1>1. CASE UNCHANGED vars
    BY <1>1 DEF vars, TD!vars, Durable, View, Active, bread
<1>2. ASSUME NEW p \in Procs, begin_op_sleep(p) PROVE [TD!Next]_(TD!vars)
    <2>1. UNCHANGED Durable
        BY <1>2, DurableKept DEF begin_op_sleep
    <2>2. UNCHANGED View
        BY <1>2, ViewKept DEF begin_op_sleep, bread, LogInv, Phases
    <2>3. UNCHANGED Active
        BY <1>2, <1>0 DEF begin_op_sleep, Active
    <2>4. QED
        BY <2>1, <2>2, <2>3 DEF TD!vars
<1>3. ASSUME NEW p \in Procs, begin_op(p) PROVE [TD!Next]_(TD!vars)
    <2>1. UNCHANGED Durable
        BY <1>3, DurableKept DEF begin_op
    <2>2. UNCHANGED View
        BY <1>3, ViewKept DEF begin_op, bread
    <2>3. Active' = Active \cup {p} /\ p \notin Active
        BY <1>3, <1>0 DEF begin_op, Active
    <2>4. QED
        BY <2>1, <2>2, <2>3 DEF TD!Next, TD!Begin
<1>4. ASSUME NEW p \in Procs, NEW b \in Blocks, NEW v \in Vals, modify(p, b, v) PROVE [TD!Next]_(TD!vars)
    <2>1. UNCHANGED Durable
        BY <1>4, DurableKept DEF modify
    <2>2. boot = "up" /\ boot' = "up" /\ cache' = [cache EXCEPT ![b] = v] /\ v # None /\ UNCHANGED disk
        BY <1>4, <1>0 DEF modify, Phases
    <2>3. \A c \in Blocks : bread(c)' = IF c = b THEN v ELSE bread(c)
        BY <1>0, <2>2 DEF bread, TypeOK
    <2>4. View' = [View EXCEPT ![b] = v]
        BY <2>2, <2>3 DEF View
    <2>5. UNCHANGED Active /\ p \in Active
        BY <1>4, <1>0 DEF modify, Active
    <2>6. QED
        BY <2>1, <2>4, <2>5 DEF TD!Next, TD!Write
<1>5. ASSUME NEW p \in Procs, log_write(p) PROVE [TD!Next]_(TD!vars)
    <2>1. UNCHANGED Durable
        BY <1>5, DurableKept DEF log_write
    <2>2. UNCHANGED View
        BY <1>5, ViewKept DEF log_write, bread, LogInv, Phases
    <2>3. UNCHANGED Active
        BY <1>5, <1>0 DEF log_write, Active
    <2>4. QED
        BY <2>1, <2>2, <2>3 DEF TD!vars
<1>6. ASSUME NEW p \in Procs, brelse(p) PROVE [TD!Next]_(TD!vars)
    <2>1. UNCHANGED Durable
        BY <1>6, DurableKept DEF brelse
    <2>2. UNCHANGED View
        BY <1>6, ViewKept DEF brelse, bread, LogInv, Phases
    <2>3. UNCHANGED Active
        BY <1>6, <1>0 DEF brelse, Active
    <2>4. QED
        BY <2>1, <2>2, <2>3 DEF TD!vars
<1>7. ASSUME NEW p \in Procs, end_op(p) PROVE [TD!Next]_(TD!vars)
    <2>1. UNCHANGED Durable
        BY <1>7, DurableKept DEF end_op
    <2>2. UNCHANGED View
        BY <1>7, <1>0, ViewKept DEF end_op, bread, Phases
    <2>3. Active' = Active \ {p} /\ p \in Active
        BY <1>7, <1>0 DEF end_op, Active
    <2>4. QED
        BY <2>1, <2>2, <2>3 DEF TD!Next, TD!End
<1>8. ASSUME NEW p \in Procs, write_log(p) PROVE [TD!Next]_(TD!vars)
    <2>1. /\ pc[p] = "write_log" /\ boot = "up" /\ lh[tail] \in Blocks /\ UNCHANGED <<disk, head, boot>>
          /\ cache' = [cache EXCEPT ![lh[tail]] = bread(lh[tail])] /\ pc'[p] \in CommitPCs
          /\ \A q \in Procs : q # p => pc'[q] = pc[q]
        BY <1>8, <1>0 DEF write_log, Headers, Phases
    <2>2. head = <<>> /\ head' = <<>>
        BY <1>0, <2>1 DEF Headers, Phases
    <2>3. UNCHANGED Durable
        BY <2>1, <2>2 DEF Durable
    <2>4. UNCHANGED View
        <3>1. \A c \in Blocks : bread(c)' = bread(c)
            BY <1>0, <2>1, BreadKept, BreadSome
        <3>2. QED
            BY <2>1, <3>1, ViewKept
    <2>5. UNCHANGED Active
        BY <2>1 DEF Active
    <2>6. QED
        BY <2>3, <2>4, <2>5 DEF TD!vars
<1>9. ASSUME NEW p \in Procs, write_head(p) PROVE [TD!Next]_(TD!vars)
    <2>1. /\ pc[p] = "write_head" /\ boot = "up" /\ head' = lh /\ UNCHANGED <<disk, dlog, cache, boot>>
          /\ pc' = [pc EXCEPT ![p] = "install"]
        BY <1>9, <1>0 DEF write_head, Phases
    <2>2. Active = {} /\ Active' = {}
        BY <1>0, <2>1 DEF Active, Phases
    <2>3. UNCHANGED View
        BY <2>1, ViewKept DEF bread
    <2>4. \A i \in 1 .. Len(lh) : dlog[i] = bread(lh[i])
        BY <1>0, <2>1 DEF Copies
    <2>5. \A b \in Blocks : (~\E i \in 1 .. Len(lh) : lh[i] = b) => bread(b) = disk[b]
        BY <1>0, <2>1 DEF Copies, Cached, Phases, bread
    <2>6. ASSUME NEW b \in Blocks PROVE Durable'[b] = bread(b)
        <3>1. CASE \E i \in 1 .. Len(lh) : lh[i] = b
            <4> DEFINE k == CHOOSE i \in 1 .. Len(lh) : lh[i] = b
            <4>1. k \in 1 .. Len(lh) /\ lh[k] = b
                BY <3>1
            <4>2. Durable'[b] = dlog[k]
                BY <2>1, <3>1 DEF Durable
            <4>3. QED
                BY <2>4, <4>1, <4>2
        <3>2. CASE ~\E i \in 1 .. Len(lh) : lh[i] = b
            BY <2>1, <2>5, <3>2 DEF Durable
        <3>3. QED
            BY <3>1, <3>2
    <2>7. Durable' = View
        <3>1. (Durable = [b \in Blocks |-> Durable[b]])'
            BY DurableMap, PTL
        <3>2. View = [b \in Blocks |-> bread(b)]
            BY <2>1 DEF View
        <3>3. QED
            BY <2>6, <3>1, <3>2
    <2>8. QED
        BY <2>2, <2>3, <2>7 DEF TD!Next, TD!Commit
<1>10. ASSUME NEW p \in Procs, install_trans(p) PROVE [TD!Next]_(TD!vars)
    <2>1. /\ pc[p] = "install" /\ boot = "up" /\ tail \in 1 .. Len(lh) /\ lh[tail] \in Blocks /\ head = lh
          /\ disk' = [disk EXCEPT ![lh[tail]] = dlog[tail]] /\ cache' = [cache EXCEPT ![lh[tail]] = dlog[tail]]
          /\ UNCHANGED <<head, dlog, boot>> /\ pc'[p] \in CommitPCs /\ \A q \in Procs : q # p => pc'[q] = pc[q]
        BY <1>10, <1>0 DEF install_trans, install_block, Headers, Phases
    <2>2. \A b \in Blocks : ~InHead(b) => disk'[b] = disk[b]
        BY <1>0, <2>1 DEF InHead, TypeOK
    <2>3. UNCHANGED Durable
        BY <2>1, <2>2, DurableKept
    <2>4. dlog[tail] = bread(lh[tail])
        BY <1>0, <2>1 DEF Copies
    <2>5. UNCHANGED View
        <3>1. \A c \in Blocks : bread(c)' = bread(c)
            BY <1>0, <2>1, <2>4, BreadKept, BreadSome
        <3>2. QED
            BY <2>1, <3>1, ViewKept
    <2>6. UNCHANGED Active
        BY <2>1 DEF Active
    <2>7. QED
        BY <2>3, <2>5, <2>6 DEF TD!vars
<1>11. ASSUME NEW p \in Procs, clear(p) PROVE [TD!Next]_(TD!vars)
    <2>1. /\ pc[p] = "clear" /\ boot = "up" /\ tail - 1 = Len(lh) /\ head = lh /\ head' = <<>>
          /\ UNCHANGED <<disk, cache, boot>> /\ pc'[p] = "done" /\ \A q \in Procs : q # p => pc'[q] = pc[q]
        BY <1>11, <1>0 DEF clear, Headers, Phases
    <2>2. \A i \in 1 .. Len(head) : disk[head[i]] = dlog[i]
        BY <1>0, <2>1 DEF Copies
    <2>3. \A b \in Blocks : Durable[b] = disk[b]
        BY <1>0, <2>2, DurableInstalled
    <2>4. \A b \in Blocks : Durable'[b] = disk[b]
        BY <2>1 DEF Durable
    <2>5. UNCHANGED Durable
        <3>1. Durable = [b \in Blocks |-> Durable[b]] /\ Durable' = [b \in Blocks |-> Durable'[b]]
            <4>1. (Durable = [b \in Blocks |-> Durable[b]])'
                BY DurableMap, PTL
            <4>2. QED
                BY <4>1, DurableMap
        <3>2. QED
            BY <2>3, <2>4, <3>1
    <2>6. UNCHANGED View
        BY <2>1, ViewKept DEF bread
    <2>7. UNCHANGED Active
        BY <2>1 DEF Active
    <2>8. QED
        BY <2>5, <2>6, <2>7 DEF TD!vars
<1>12. ASSUME NEW p \in Procs, end_op_done(p) PROVE [TD!Next]_(TD!vars)
    <2>1. UNCHANGED Durable
        BY <1>12, DurableKept DEF end_op_done
    <2>2. UNCHANGED View
        BY <1>12, ViewKept DEF end_op_done, bread, LogInv, Phases
    <2>3. UNCHANGED Active
        BY <1>12, <1>0 DEF end_op_done, Active
    <2>4. QED
        BY <2>1, <2>2, <2>3 DEF TD!vars
<1>13. ASSUME NEW b \in Blocks, read_block(b) PROVE [TD!Next]_(TD!vars)
    <2>1. UNCHANGED Durable
        BY <1>13, DurableKept DEF read_block
    <2>2. UNCHANGED View
        BY <1>13, ViewKept, BreadKept, BreadSome DEF read_block, bread, LogInv, Phases
    <2>3. UNCHANGED Active
        BY <1>13, <1>0 DEF read_block, Active
    <2>4. QED
        BY <2>1, <2>2, <2>3 DEF TD!vars
<1>14. ASSUME NEW b \in Blocks, recycle(b) PROVE [TD!Next]_(TD!vars)
    <2>1. boot = "up" /\ refcnt[b] = 0 /\ cache' = [cache EXCEPT ![b] = None] /\ UNCHANGED <<disk, dlog, head, boot, pc>>
        BY <1>14 DEF recycle
    <2>2. \A c \in Blocks : bread(c)' = bread(c)
        BY <1>0, <2>1, UnheldOnDisk DEF bread, TypeOK
    <2>3. UNCHANGED <<Durable, View>>
        BY <2>1, <2>2, DurableKept, ViewKept
    <2>4. UNCHANGED Active
        BY <2>1 DEF Active
    <2>5. QED
        BY <2>3, <2>4 DEF TD!vars
<1>15. CASE crash
    <2>1. UNCHANGED Durable
        BY <1>15, DurableKept DEF crash
    <2>2. View' = Durable'
        BY <1>15, DownView DEF crash, View
    <2>3. Active' = {}
        BY <1>15 DEF crash, Active
    <2>4. QED
        BY <2>1, <2>2, <2>3 DEF TD!Next, TD!Crash
<1>16. CASE read_head
    <2>1. UNCHANGED Durable
        BY <1>16, DurableKept DEF read_head
    <2>2. View = Durable /\ View' = Durable'
        BY <1>16 DEF read_head, View
    <2>3. UNCHANGED Active
        BY <1>16 DEF read_head, Active
    <2>4. QED
        BY <2>1, <2>2, <2>3 DEF TD!vars
<1>17. CASE recover_install
    <2>1. UNCHANGED Durable
        <3>1. /\ tail \in 1 .. Len(head) /\ disk' = [disk EXCEPT ![head[tail]] = dlog[tail]] /\ UNCHANGED <<head, dlog>>
            BY <1>17, <1>0 DEF recover_install, install_block, Headers
        <3>2. \A b \in Blocks : ~InHead(b) => disk'[b] = disk[b]
            BY <1>0, <3>1 DEF InHead, TypeOK
        <3>3. QED
            BY <3>1, <3>2, DurableKept
    <2>2. View = Durable /\ View' = Durable'
        BY <1>17 DEF recover_install, View
    <2>3. UNCHANGED Active
        BY <1>17 DEF recover_install, Active
    <2>4. QED
        BY <2>1, <2>2, <2>3 DEF TD!vars
<1>18. CASE recover_clear
    <2>1. boot = "clear" /\ boot' = "up" /\ head = lh /\ tail - 1 = Len(lh) /\ head' = <<>> /\ UNCHANGED <<disk, cache, pc>>
        BY <1>18, <1>0 DEF recover_clear, Headers
    <2>2. \A i \in 1 .. Len(head) : disk[head[i]] = dlog[i]
        BY <1>0, <2>1 DEF Copies
    <2>3. \A b \in Blocks : Durable[b] = disk[b]
        BY <1>0, <2>2, DurableInstalled
    <2>4. \A b \in Blocks : Durable'[b] = disk[b]
        BY <2>1 DEF Durable
    <2>5. UNCHANGED Durable
        <3>1. Durable = [b \in Blocks |-> Durable[b]] /\ Durable' = [b \in Blocks |-> Durable'[b]]
            <4>1. (Durable = [b \in Blocks |-> Durable[b]])'
                BY DurableMap, PTL
            <4>2. QED
                BY <4>1, DurableMap
        <3>2. QED
            BY <2>3, <2>4, <3>1
    <2>6. \A b \in Blocks : bread(b)' = disk[b]
        BY <1>0, <2>1 DEF Copies, bread
    <2>7. View' = Durable'
        BY <2>1, <2>4, <2>6 DEF View, Durable
    <2>8. View = Durable
        BY <2>1, DownView
    <2>9. UNCHANGED Active
        BY <2>1 DEF Active
    <2>10. QED
        BY <2>5, <2>7, <2>8, <2>9 DEF TD!vars
<1>19. QED
    BY <1>1, <1>2, <1>3, <1>4, <1>5, <1>6, <1>7, <1>8, <1>9, <1>10, <1>11, <1>12, <1>13, <1>14, <1>15, <1>16, <1>17, <1>18 DEF Next, commit, recover_from_log

\* log.c implements TxnDisk: a crash at any point, during a commit or a recovery too, and the
\* recovery after it yield exactly what the last commit made durable.
THEOREM LogIsAtomic == ASSUME InUse PROVE Spec => Atomicity
<1>1. Init => TD!Init
    BY InitRefines
<1>2. LogInv /\ [Next]_vars => [TD!Next]_(TD!vars)
    BY StepRefines
<1>3. Spec => []LogInv
    BY LogInvariant
<1>4. QED
    BY <1>1, <1>2, <1>3, PTL DEF Spec, TD!Spec, Atomicity

=============================================================================
