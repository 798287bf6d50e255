---------------------------- MODULE InodeProofs ----------------------------
(***************************************************************************)
(* Inodes.  InodeOK is not inductive by itself: InodeInv adds who is where *)
(* in a call, and what its variables then refer to.                        *)
(***************************************************************************)
EXTENDS Inode, FiniteSetTheorems, WellFoundedInduction, TLAPS

\* Where a process is: an iput() is part of what comes after it.
Putting(a) == a.pc \in {"iput", "iput_free", "iput_invalid", "iput_drop"}
Label(a) == IF Putting(a) THEN a.then ELSE a.pc

\* Where ip, and where dp, refers to an inode.
Linking == {"link_path", "link_new", "link_put", "link_bad"}
WithIp == {"namex", "open", "create", "create_new", "create_end", "link_old", "link_new",
           "unlink", "unlink_entry", "unlink_inode", "chdir", "chdir_set"}
WithDp == Linking \cup {"create_new", "unlink_entry", "unlink_bad"}

\* The local variables of p go with where p is.
Shape(p) ==
    LET a == at[p]
        l == Label(a) IN
    /\ l \in WithIp \cup WithDp \cup {"idle", "exit_cwd"}
    /\ a.put # 0 <=> Putting(a)
    /\ a.ip # 0 <=> l \in WithIp
    /\ a.dp # 0 <=> l \in WithDp \/ (l = "namex" /\ a.second)
    /\ l \in Linking => a.second
    /\ a.second \/ l = "link_old" => a.call.op = "link"
    /\ a.then = "chdir_set" => l = "chdir_set"
    /\ l # "idle" => cwd[p] # 0
    /\ l \notin {"idle", "exit_cwd"} => a.call.op \in PathOps
    /\ a.pc \in {"iput_free", "iput_invalid"} => a.put # a.ip /\ a.put # a.dp

Types == {"free", "dir", "file"}
Dinodes == [type : Types, nlink : Int, blks : SUBSET Blocks]
Entries == [ref : Int, valid : BOOLEAN, lock : Procs \cup {Nobody},
            type : Types, nlink : Int, blks : SUBSET Blocks]
IsFrame(a) ==
    /\ a = [pc |-> a.pc, call |-> a.call, rest |-> a.rest, second |-> a.second,
            ip |-> a.ip, dp |-> a.dp, put |-> a.put, then |-> a.then, stray |-> a.stray]
    /\ a.ip \in Inums \cup {0} /\ a.dp \in Inums \cup {0} /\ a.put \in Inums \cup {0}
    /\ a.second \in BOOLEAN
Entered(d) == \A n \in DOMAIN d : d[n] \in Inums

NamesTyped ==
    /\ dir = [i \in Inums |-> dir[i]] /\ \A i \in Inums : Entered(dir[i])
    /\ cwd \in [Procs -> Inums \cup {0}]
    /\ ofile \in [Procs -> [ip : Inums \cup {0}, gen : Nat]]
    /\ gen \in [Inums -> Nat]

InodeTyped ==
    /\ dinode \in [Inums -> Dinodes] /\ bitmap \subseteq Blocks /\ icache \in [Inums -> Entries]
    /\ NamesTyped
    /\ at = [p \in Procs |-> at[p]] /\ \A p \in Procs : IsFrame(at[p])

RefsCounted == \A i \in Inums : icache[i].ref = References(i)
LocksHeld == \A i \in Inums, p \in Procs : icache[i].lock = p <=> i \in Locked(p)

\* What is locked is valid; what is valid, and not just being freed, is what the
\* disk has, and allocated.
Freeing(i) == \E p \in Procs : at[p].pc = "iput_invalid" /\ at[p].put = i
Copy(i) == [type |-> icache[i].type, nlink |-> icache[i].nlink, blks |-> icache[i].blks]
CopyOK(i) ==
    /\ icache[i].lock # Nobody => icache[i].valid
    /\ icache[i].ref > 0 /\ icache[i].valid /\ ~Freeing(i) =>
           dinode[i] = Copy(i) /\ dinode[i].type # "free"

BlocksOwned ==
    /\ \A i, j \in Inums : i # j => dinode[i].blks \cap dinode[j].blks = {}
    /\ bitmap = UNION {dinode[i].blks : i \in Inums}
    /\ \A i \in Inums : dinode[i].type = "free" => dinode[i].blks = {}

InodeInv ==
    /\ InodeTyped
    /\ \A p \in Procs : Shape(p)
    /\ RefsCounted /\ LocksHeld
    /\ \A i \in Inums : CopyOK(i)
    /\ BlocksOwned

-----------------------------------------------------------------------------
(* Lemmas.                                                                 *)

Bit(b) == IF b THEN 1 ELSE 0

\* The references that p holds on i, read from where p is.
Slots(p, i) ==
    Bit(at[p].ip = i) + Bit(at[p].dp = i) + Bit(at[p].put = i) + Bit(ofile[p].ip = i)
    + Bit((IF Label(at[p]) = "chdir_set" THEN 0 ELSE cwd[p]) = i)

\* Only p moves.
Others(p) ==
    /\ at' = [q \in Procs |-> at'[q]]
    /\ \A q \in Procs \ {p} : at'[q] = at[q]
    /\ \A q \in Procs \ {p} : ofile'[q] = ofile[q] /\ cwd'[q] = cwd[q]

\* The number of processes of which something holds.
LEMMA CountStep ==
    ASSUME NEW S \in SUBSET Procs, NEW T \in SUBSET Procs, NEW p \in Procs,
           \A q \in Procs \ {p} : q \in S <=> q \in T
    PROVE  /\ Cardinality(S) \in Nat /\ Cardinality(T) \in Nat
           /\ Cardinality(T) + Bit(p \in S) = Cardinality(S) + Bit(p \in T)
<1>1. IsFiniteSet(S) /\ IsFiniteSet(T)
    BY InodeAssumption, FS_Subset DEF InodeAssumption
<1>2. Cardinality(S) \in Nat /\ Cardinality(T) \in Nat
    BY <1>1, FS_CardinalityType
<1>3. CASE p \in S <=> p \in T
  <2>1. S = T
      BY <1>3
  <2>2. QED
      BY <1>2, <2>1 DEF Bit
<1>4. CASE p \in S /\ p \notin T
  <2>1. S = T \cup {p}
      BY <1>4
  <2>2. Cardinality(S) = Cardinality(T) + 1
      BY <1>1, <1>4, <2>1, FS_AddElement
  <2>3. QED
      BY <1>2, <1>4, <2>2 DEF Bit
<1>5. CASE p \notin S /\ p \in T
  <2>1. T = S \cup {p}
      BY <1>5
  <2>2. Cardinality(T) = Cardinality(S) + 1
      BY <1>1, <1>5, <2>1, FS_AddElement
  <2>3. QED
      BY <1>2, <1>5, <2>2 DEF Bit
<1>6. QED
    BY <1>3, <1>4, <1>5

LEMMA CountOne ==
    ASSUME NEW S \in SUBSET Procs, NEW p \in Procs
    PROVE  Cardinality(S) \in Nat /\ Cardinality(S) >= Bit(p \in S)
<1>1. IsFiniteSet(S) /\ Cardinality(S) \in Nat /\ Cardinality(S \ {p}) \in Nat
    BY InodeAssumption, FS_Subset, FS_CardinalityType DEF InodeAssumption
<1>2. Cardinality(S \ {p}) + Bit(p \in S) = Cardinality(S) + Bit(p \in S \ {p})
    BY CountStep
<1>3. QED
    BY <1>1, <1>2 DEF Bit

\* A process in a set, and two of them.
LEMMA CountTwo ==
    ASSUME NEW S \in SUBSET Procs, NEW p \in Procs, NEW q \in Procs, p # q
    PROVE  /\ Cardinality(S) \in Nat /\ Cardinality(S) >= Bit(p \in S)
           /\ Cardinality(S) >= Bit(p \in S) + Bit(q \in S)
<1>1. IsFiniteSet(S) /\ Cardinality(S) \in Nat /\ Cardinality(S \ {p}) \in Nat
    BY InodeAssumption, FS_Subset, FS_CardinalityType DEF InodeAssumption
<1>2. Cardinality(S \ {p}) + Bit(p \in S) = Cardinality(S)
  <2>1. Cardinality(S \ {p}) + Bit(p \in S) = Cardinality(S) + Bit(p \in S \ {p})
      BY CountStep
  <2>2. Bit(p \in S \ {p}) = 0
      BY DEF Bit
  <2>3. QED
      BY <1>1, <2>1, <2>2 DEF Bit
<1>3. Cardinality(S \ {p, q}) \in Nat /\ Cardinality(S \ {p, q}) + Bit(q \in S) = Cardinality(S \ {p})
  <2>1. /\ Cardinality(S \ {p, q}) \in Nat
        /\ Cardinality(S \ {p, q}) + Bit(q \in S \ {p}) = Cardinality(S \ {p}) + Bit(q \in S \ {p, q})
      BY CountStep
  <2>2. Bit(q \in S \ {p, q}) = 0 /\ Bit(q \in S \ {p}) = Bit(q \in S)
      BY DEF Bit
  <2>3. QED
      BY <1>1, <2>1, <2>2 DEF Bit
<1>4. QED
    BY <1>1, <1>2, <1>3 DEF Bit

\* CwdRef() in terms of where p is.
LEMMA CwdRefLabel ==
    ASSUME NEW p, Shape(p)
    PROVE  CwdRef(p) = IF Label(at[p]) = "chdir_set" THEN 0 ELSE cwd[p]
BY DEF CwdRef, Shape, Label, Putting

\* The references to i change by those of p.
LEMMA RefStep ==
    ASSUME \A q \in Procs : Shape(q), \A q \in Procs : Shape(q)', NEW p \in Procs, Others(p), NEW i
    PROVE  /\ References(i) \in Int /\ References(i)' \in Int
           /\ References(i)' + Slots(p, i) = References(i) + Slots(p, i)'
<1>1. \A q \in Procs \ {p} : at'[q] = at[q] /\ ofile'[q] = ofile[q] /\ CwdRef(q)' = CwdRef(q)
    BY DEF Others, CwdRef
<1>2. /\ CwdRef(p) = IF Label(at[p]) = "chdir_set" THEN 0 ELSE cwd[p]
      /\ CwdRef(p)' = IF Label(at'[p]) = "chdir_set" THEN 0 ELSE cwd'[p]
    BY CwdRefLabel DEF CwdRef, Shape, Label, Putting
<1> DEFINE A1 == {q \in Procs : at[q].ip = i}     B1 == {q \in Procs : at'[q].ip = i}
           A2 == {q \in Procs : at[q].dp = i}     B2 == {q \in Procs : at'[q].dp = i}
           A3 == {q \in Procs : at[q].put = i}    B3 == {q \in Procs : at'[q].put = i}
           A4 == {q \in Procs : ofile[q].ip = i}  B4 == {q \in Procs : ofile'[q].ip = i}
           A5 == {q \in Procs : CwdRef(q) = i}    B5 == {q \in Procs : CwdRef(q)' = i}
<1>3. /\ Cardinality(A1) \in Nat /\ Cardinality(B1) \in Nat
      /\ Cardinality(B1) + Bit(at[p].ip = i) = Cardinality(A1) + Bit(at'[p].ip = i)
  <2>1. (p \in A1 <=> at[p].ip = i) /\ (p \in B1 <=> at'[p].ip = i)
      OBVIOUS
  <2>2. \A q \in Procs \ {p} : q \in A1 <=> q \in B1
      BY <1>1
  <2> HIDE DEF A1, B1
  <2>3. A1 \in SUBSET Procs /\ B1 \in SUBSET Procs
      BY DEF A1, B1
  <2>4. QED
      BY <2>1, <2>2, <2>3, CountStep DEF Bit
<1>4. /\ Cardinality(A2) \in Nat /\ Cardinality(B2) \in Nat
      /\ Cardinality(B2) + Bit(at[p].dp = i) = Cardinality(A2) + Bit(at'[p].dp = i)
  <2>1. (p \in A2 <=> at[p].dp = i) /\ (p \in B2 <=> at'[p].dp = i)
      OBVIOUS
  <2>2. \A q \in Procs \ {p} : q \in A2 <=> q \in B2
      BY <1>1
  <2> HIDE DEF A2, B2
  <2>3. A2 \in SUBSET Procs /\ B2 \in SUBSET Procs
      BY DEF A2, B2
  <2>4. QED
      BY <2>1, <2>2, <2>3, CountStep DEF Bit
<1>5. /\ Cardinality(A3) \in Nat /\ Cardinality(B3) \in Nat
      /\ Cardinality(B3) + Bit(at[p].put = i) = Cardinality(A3) + Bit(at'[p].put = i)
  <2>1. (p \in A3 <=> at[p].put = i) /\ (p \in B3 <=> at'[p].put = i)
      OBVIOUS
  <2>2. \A q \in Procs \ {p} : q \in A3 <=> q \in B3
      BY <1>1
  <2> HIDE DEF A3, B3
  <2>3. A3 \in SUBSET Procs /\ B3 \in SUBSET Procs
      BY DEF A3, B3
  <2>4. QED
      BY <2>1, <2>2, <2>3, CountStep DEF Bit
<1>6. /\ Cardinality(A4) \in Nat /\ Cardinality(B4) \in Nat
      /\ Cardinality(B4) + Bit(ofile[p].ip = i) = Cardinality(A4) + Bit(ofile'[p].ip = i)
  <2>1. (p \in A4 <=> ofile[p].ip = i) /\ (p \in B4 <=> ofile'[p].ip = i)
      OBVIOUS
  <2>2. \A q \in Procs \ {p} : q \in A4 <=> q \in B4
      BY <1>1
  <2> HIDE DEF A4, B4
  <2>3. A4 \in SUBSET Procs /\ B4 \in SUBSET Procs
      BY DEF A4, B4
  <2>4. QED
      BY <2>1, <2>2, <2>3, CountStep DEF Bit
<1>7. /\ Cardinality(A5) \in Nat /\ Cardinality(B5) \in Nat
      /\ Cardinality(B5) + Bit(CwdRef(p) = i) = Cardinality(A5) + Bit(CwdRef(p)' = i)
  <2>1. (p \in A5 <=> CwdRef(p) = i) /\ (p \in B5 <=> CwdRef(p)' = i)
      OBVIOUS
  <2>2. \A q \in Procs \ {p} : q \in A5 <=> q \in B5
      BY <1>1
  <2> HIDE DEF A5, B5
  <2>3. A5 \in SUBSET Procs /\ B5 \in SUBSET Procs
      BY DEF A5, B5
  <2>4. QED
      BY <2>1, <2>2, <2>3, CountStep DEF Bit
<1>8. /\ References(i) = Cardinality(A1) + Cardinality(A2) + Cardinality(A3) + Cardinality(A4) + Cardinality(A5)
      /\ References(i)' = Cardinality(B1) + Cardinality(B2) + Cardinality(B3) + Cardinality(B4) + Cardinality(B5)
    BY DEF References
<1>9. /\ Slots(p, i) = Bit(at[p].ip = i) + Bit(at[p].dp = i) + Bit(at[p].put = i) + Bit(ofile[p].ip = i)
                       + Bit(CwdRef(p) = i)
      /\ Slots(p, i)' = Bit(at'[p].ip = i) + Bit(at'[p].dp = i) + Bit(at'[p].put = i) + Bit(ofile'[p].ip = i)
                        + Bit(CwdRef(p)' = i)
    BY <1>2 DEF Slots, Bit
<1> HIDE DEF A1, A2, A3, A4, A5, B1, B2, B3, B4, B5
<1>10. QED
    BY <1>3, <1>4, <1>5, <1>6, <1>7, <1>8, <1>9 DEF Bit

LEMMA SlotsNat == ASSUME NEW p, NEW i PROVE Slots(p, i) \in Nat /\ Slots(p, i)' \in Nat
BY DEF Slots, Bit

\* A reference count is at least what one process holds, or two.
LEMMA RefHeld ==
    ASSUME RefsCounted, \A q \in Procs : Shape(q), NEW p \in Procs, NEW i \in Inums
    PROVE  /\ icache[i].ref \in Nat /\ icache[i].ref >= Slots(p, i)
           /\ \A q \in Procs \ {p} : icache[i].ref >= Slots(p, i) + Slots(q, i)
<1> DEFINE A1 == {q \in Procs : at[q].ip = i}
           A2 == {q \in Procs : at[q].dp = i}
           A3 == {q \in Procs : at[q].put = i}
           A4 == {q \in Procs : ofile[q].ip = i}
           A5 == {q \in Procs : CwdRef(q) = i}
<1>1. /\ icache[i].ref = Cardinality(A1) + Cardinality(A2) + Cardinality(A3) + Cardinality(A4) + Cardinality(A5)
      /\ IsFiniteSet(Procs)
    BY InodeAssumption DEF RefsCounted, References, InodeAssumption
<1>2. \A q \in Procs : Slots(q, i) = Bit(q \in A1) + Bit(q \in A2) + Bit(q \in A3) + Bit(q \in A4) + Bit(q \in A5)
    BY CwdRefLabel DEF Slots
<1>3. \A q \in Procs : Slots(q, i) \in Nat
    BY SlotsNat
<1>4. A1 \in SUBSET Procs /\ A2 \in SUBSET Procs /\ A3 \in SUBSET Procs /\ A4 \in SUBSET Procs /\ A5 \in SUBSET Procs
    OBVIOUS
<1> HIDE DEF A1, A2, A3, A4, A5
<1>5. ASSUME NEW q \in Procs \ {p} PROVE icache[i].ref >= Slots(p, i) + Slots(q, i)
  <2>1. /\ Cardinality(A1) >= Bit(p \in A1) + Bit(q \in A1) /\ Cardinality(A1) \in Nat
        /\ Cardinality(A2) >= Bit(p \in A2) + Bit(q \in A2) /\ Cardinality(A2) \in Nat
        /\ Cardinality(A3) >= Bit(p \in A3) + Bit(q \in A3) /\ Cardinality(A3) \in Nat
        /\ Cardinality(A4) >= Bit(p \in A4) + Bit(q \in A4) /\ Cardinality(A4) \in Nat
        /\ Cardinality(A5) >= Bit(p \in A5) + Bit(q \in A5) /\ Cardinality(A5) \in Nat
      BY <1>4, CountTwo
  <2>2. QED
      BY <1>1, <1>2, <2>1 DEF Bit
<1>6. icache[i].ref \in Nat /\ icache[i].ref >= Slots(p, i)
  <2>1. /\ Cardinality(A1) \in Nat /\ Cardinality(A1) >= Bit(p \in A1)
        /\ Cardinality(A2) \in Nat /\ Cardinality(A2) >= Bit(p \in A2)
        /\ Cardinality(A3) \in Nat /\ Cardinality(A3) >= Bit(p \in A3)
        /\ Cardinality(A4) \in Nat /\ Cardinality(A4) >= Bit(p \in A4)
        /\ Cardinality(A5) \in Nat /\ Cardinality(A5) >= Bit(p \in A5)
      BY <1>4, CountOne
  <2>2. QED
      BY <1>1, <1>2, <2>1 DEF Bit
<1>7. QED
    BY <1>5, <1>6

\* What p has locked, by label.
LockedAt(a) ==
    (IF Label(a) \in {"create_new", "unlink_entry", "unlink_bad"} THEN {a.dp} ELSE {})
    \cup (IF Label(a) \in {"create_end", "unlink_inode"} THEN {a.ip} ELSE {})
    \cup (IF a.pc \in {"iput_free", "iput_invalid"} THEN {a.put} ELSE {})

LEMMA LockedLabel == \A p : Locked(p) = LockedAt(at[p]) /\ Locked(p)' = LockedAt(at'[p])
BY DEF Locked, LockedAt, Label, Putting

\* Who locks an inode has a reference to it.
LEMMA LockedSlot == ASSUME NEW p, NEW i, i \in Locked(p) PROVE Slots(p, i) >= 1
<1>1. at[p].ip = i \/ at[p].dp = i \/ at[p].put = i
    BY LockedLabel DEF LockedAt
<1>2. QED
    BY <1>1 DEF Slots, Bit

LEMMA LockedRef ==
    ASSUME InodeInv, NEW i \in Inums, icache[i].lock # Nobody
    PROVE  icache[i].ref > 0 /\ icache[i].ref \in Nat
<1>1. icache[i].lock \in Procs /\ i \in Locked(icache[i].lock)
    BY DEF InodeInv, InodeTyped, NamesTyped, Entries, LocksHeld
<1>2. icache[i].ref \in Nat /\ icache[i].ref >= Slots(icache[i].lock, i)
    BY <1>1, RefHeld DEF InodeInv
<1>3. QED
    BY <1>1, <1>2, LockedSlot, SlotsNat

LEMMA RefNat ==
    ASSUME InodeInv, NEW p \in Procs, NEW i \in Inums
    PROVE  icache[i].ref \in Nat /\ (Slots(p, i) > 0 => icache[i].ref > 0)
BY RefHeld, SlotsNat DEF InodeInv

\* Who frees an inode has it locked.
LEMMA FreeingLocked == ASSUME LocksHeld, NEW i \in Inums, Freeing(i) PROVE icache[i].lock \in Procs
<1>1. PICK p \in Procs : at[p].pc = "iput_invalid" /\ at[p].put = i
    BY DEF Freeing
<1>2. i \in Locked(p)
    BY <1>1, LockedLabel DEF LockedAt
<1>3. QED
    BY <1>2 DEF LocksHeld

\* What ilock() leaves.
Record(h, k, d) == [ref |-> h, valid |-> TRUE, lock |-> k, type |-> d.type, nlink |-> d.nlink, blks |-> d.blks]

LEMMA LoadedRecord ==
    ASSUME InodeInv, NEW i \in Inums, icache[i].ref > 0, ilock(i)
    PROVE  Loaded(i) = Record(icache[i].ref, Nobody, dinode[i]) /\ dinode[i].type # "free"
<1>1. icache[i] \in Entries /\ dinode[i] \in Dinodes /\ icache[i].lock = Nobody
    BY DEF InodeInv, InodeTyped, NamesTyped, ilock
<1>2. ~Freeing(i)
    BY <1>1, FreeingLocked, InodeAssumption DEF InodeInv, InodeAssumption
<1>3. CASE icache[i].valid
  <2>1. dinode[i] = Copy(i) /\ dinode[i].type # "free"
      BY <1>2, <1>3 DEF InodeInv, CopyOK
  <2>2. dinode[i].type = icache[i].type /\ dinode[i].nlink = icache[i].nlink /\ dinode[i].blks = icache[i].blks
      BY <2>1 DEF Copy
  <2>3. QED
      BY <1>1, <1>3, <2>1, <2>2 DEF Loaded, Record, Entries
<1>4. CASE ~icache[i].valid
    BY <1>1, <1>4 DEF Loaded, Record, Entries, ilock, NoType
<1>5. QED
    BY <1>1, <1>3, <1>4 DEF Entries

\* What is locked is as on the disk.
LEMMA HeldRecord ==
    ASSUME InodeInv, NEW p \in Procs, NEW i \in Inums, i \in Locked(p), at[p].pc # "iput_invalid"
    PROVE  icache[i] = Record(icache[i].ref, p, dinode[i]) /\ dinode[i].type # "free" /\ icache[i].ref > 0
<1>1. icache[i] \in Entries /\ dinode[i] \in Dinodes /\ icache[i].lock = p /\ p # Nobody
    BY InodeAssumption DEF InodeInv, InodeTyped, NamesTyped, LocksHeld, InodeAssumption
<1>2. ~Freeing(i)
  <2>1. SUFFICES ASSUME NEW q \in Procs, at[q].pc = "iput_invalid", at[q].put = i PROVE FALSE
      BY DEF Freeing
  <2>2. i \in Locked(q)
      BY <2>1, LockedLabel DEF LockedAt
  <2>3. QED
      BY <1>1, <2>1, <2>2 DEF InodeInv, LocksHeld
<1>3. icache[i].ref > 0 /\ icache[i].valid
    BY <1>1, LockedRef DEF InodeInv, CopyOK
<1>4. dinode[i] = Copy(i) /\ dinode[i].type # "free"
    BY <1>2, <1>3 DEF InodeInv, CopyOK
<1>5. dinode[i].type = icache[i].type /\ dinode[i].nlink = icache[i].nlink /\ dinode[i].blks = icache[i].blks
    BY <1>4 DEF Copy
<1>6. QED
    BY <1>1, <1>3, <1>4, <1>5 DEF Record, Entries

-----------------------------------------------------------------------------
(* A step of p.                                                            *)

\* The new copy of i: as before and perhaps unlocked, or not valid, or as it
\* is on the disk now.
EntryKept(i) ==
    /\ dinode'[i] = dinode[i] /\ Copy(i)' = Copy(i) /\ icache'[i].valid = icache[i].valid
    /\ icache'[i].lock \in {icache[i].lock, Nobody}
    /\ icache'[i].ref > 0 => icache[i].ref > 0
Dropped(i) == ~icache'[i].valid /\ icache'[i].lock = Nobody
Fresh(i) == icache'[i].valid /\ dinode'[i] = Copy(i)' /\ dinode'[i].type # "free"

LEMMA CopyStep ==
    ASSUME InodeInv, NEW p \in Procs, Others(p), NEW i \in Inums,
           at[p].pc = "iput_invalid" => at[p].put # i, EntryKept(i) \/ Dropped(i) \/ Fresh(i)
    PROVE  CopyOK(i)'
<1>1. Freeing(i) => Freeing(i)'
    BY DEF Freeing, Others
<1>2. CASE EntryKept(i)
    BY <1>1, <1>2, InodeAssumption DEF InodeInv, CopyOK, EntryKept, InodeAssumption
<1>3. CASE Dropped(i)
    BY <1>3 DEF CopyOK, Dropped
<1>4. CASE Fresh(i)
    BY <1>4 DEF CopyOK, Fresh
<1>5. QED
    BY <1>2, <1>3, <1>4

\* The locks of i: p takes it, lets go of it, or nothing changes.
LockStep(p, i) ==
    /\ icache'[i].lock = p <=> i \in LockedAt(at'[p])
    /\ icache'[i].lock = icache[i].lock \/ {icache[i].lock, icache'[i].lock} \subseteq {p, Nobody}

RefChange(p, i) == icache'[i].ref + Slots(p, i) = icache[i].ref + Slots(p, i)'

LEMMA InodeStep ==
    ASSUME InodeInv, NEW p \in Procs, Others(p), InodeTyped', Shape(p)',
           \A i \in Inums : RefChange(p, i) /\ LockStep(p, i) /\ CopyOK(i)',
           BlocksOwned'
    PROVE  InodeInv'
<1>1. \A q \in Procs : Shape(q)'
  <2>1. SUFFICES ASSUME NEW q \in Procs, q # p PROVE Shape(q)'
      OBVIOUS
  <2>2. at'[q] = at[q] /\ cwd'[q] = cwd[q] /\ Shape(q)
      BY <2>1 DEF Others, InodeInv
  <2>3. QED
      BY <2>2 DEF Shape
<1>2. RefsCounted'
  <2>1. SUFFICES ASSUME NEW i \in Inums PROVE icache'[i].ref = References(i)'
      BY DEF RefsCounted
  <2>2. /\ References(i) \in Int /\ References(i)' \in Int
        /\ References(i)' + Slots(p, i) = References(i) + Slots(p, i)'
      BY <1>1, RefStep DEF InodeInv
  <2>3. icache[i].ref = References(i) /\ icache'[i].ref \in Int
      BY DEF InodeInv, RefsCounted, InodeTyped, NamesTyped, Entries
  <2>4. Slots(p, i) \in Nat /\ Slots(p, i)' \in Nat
      BY SlotsNat
  <2>5. QED
      BY <2>2, <2>3, <2>4 DEF RefChange
<1>3. LocksHeld'
  <2>1. SUFFICES ASSUME NEW i \in Inums, NEW q \in Procs PROVE icache'[i].lock = q <=> i \in Locked(q)'
      BY DEF LocksHeld
  <2>2. CASE q = p
      BY <2>2, LockedLabel DEF LockStep
  <2>3. CASE q # p
    <3>1. Locked(q)' = Locked(q)
        BY <2>3, LockedLabel DEF Others
    <3>2. icache[i].lock = q <=> i \in Locked(q)
        BY DEF InodeInv, LocksHeld
    <3>3. QED
        BY <2>3, <3>1, <3>2, InodeAssumption DEF LockStep, InodeAssumption
  <2>4. QED
      BY <2>2, <2>3
<1>4. QED
    BY <1>1, <1>2, <1>3 DEF InodeInv

\* The blocks: nothing changes, i gives its blocks back, i gets one.
LEMMA BlocksSame ==
    ASSUME BlocksOwned, bitmap' = bitmap,
           \A i \in Inums : dinode'[i].blks = dinode[i].blks /\ (dinode'[i].type = "free" => dinode[i].type = "free")
    PROVE  BlocksOwned'
<1>1. UNION {dinode'[i].blks : i \in Inums} = UNION {dinode[i].blks : i \in Inums}
    OBVIOUS
<1>2. QED
    BY <1>1 DEF BlocksOwned

LEMMA BlocksFreed ==
    ASSUME BlocksOwned, NEW i \in Inums, bitmap' = bitmap \ dinode[i].blks, dinode'[i].blks = {},
           \A j \in Inums \ {i} : dinode'[j] = dinode[j]
    PROVE  BlocksOwned'
<1>1. bitmap' = UNION {dinode'[j].blks : j \in Inums}
  <2>1. ASSUME NEW x PROVE x \in bitmap' <=> \E j \in Inums : x \in dinode'[j].blks
      BY DEF BlocksOwned
  <2>2. QED
      BY <2>1
<1>2. QED
    BY <1>1 DEF BlocksOwned

LEMMA BlocksAdded ==
    ASSUME BlocksOwned, NEW i \in Inums, NEW b, b \notin bitmap, bitmap' = bitmap \cup {b},
           dinode'[i].blks = {b}, dinode[i].blks = {}, dinode'[i].type # "free",
           \A j \in Inums \ {i} : dinode'[j].blks = dinode[j].blks /\ dinode'[j].type = dinode[j].type
    PROVE  BlocksOwned'
<1>1. bitmap' = UNION {dinode'[j].blks : j \in Inums}
  <2>1. ASSUME NEW x PROVE x \in bitmap' <=> \E j \in Inums : x \in dinode'[j].blks
    <3>1. x \in bitmap <=> \E j \in Inums : x \in dinode[j].blks
        BY DEF BlocksOwned
    <3>2. QED
        BY <3>1
  <2>2. QED
      BY <2>1
<1>2. ASSUME NEW j \in Inums, NEW k \in Inums, j # k PROVE dinode'[j].blks \cap dinode'[k].blks = {}
  <2>1. \A m \in Inums : b \notin dinode[m].blks
      BY DEF BlocksOwned
  <2>2. QED
      BY <1>2, <2>1 DEF BlocksOwned
<1>3. QED
    BY <1>1, <1>2 DEF BlocksOwned

\* Natural numbers have a least element in every set that is not empty.
LEMMA LeastIn ==
    ASSUME NEW S, S \subseteq Nat, S # {}
    PROVE  Least(S) \in S
<1> DEFINE R == {ss \in Nat \X Nat : ss[1] < ss[2]}
<1>1. IsWellFoundedOn(R, Nat)
    BY NatLessThanWellFounded DEF OpToRel
<1> HIDE DEF R
<1>2. PICK i \in S : \A j \in S : ~(<<j, i>> \in R)
    BY <1>1, WFMin
<1>3. ASSUME NEW j \in S PROVE i <= j
  <2>1. i \in Nat /\ j \in Nat /\ ~(<<j, i>> \in R)
      BY <1>2
  <2>2. ~(j < i)
      BY <2>1 DEF R
  <2>3. QED
      BY <2>1, <2>2
<1>4. QED
    BY <1>3 DEF Least

\* Where p goes: at label pc, then to label then, with these references and
\* otherwise what a says.
Moved(p, a, pc, then, ip, dp, put) ==
    /\ at' = [q \in Procs |-> at'[q]] /\ \A q \in Procs \ {p} : at'[q] = at[q]
    /\ IsFrame(at'[p])
    /\ at'[p].pc = pc /\ at'[p].then = then
    /\ at'[p].ip = ip /\ at'[p].dp = dp /\ at'[p].put = put
    /\ at'[p].second = a.second /\ at'[p].call = a.call

LEMMA GotoMoves ==
    ASSUME InodeTyped, NEW p \in Procs, NEW a, IsFrame(a), NEW l, l # "idle", Goto(p, a, l)
    PROVE  Moved(p, a, l, a.then, a.ip, a.dp, a.put)
BY DEF InodeTyped, NamesTyped, Goto, Moved, IsFrame

LEMMA IdleMoves ==
    ASSUME InodeTyped, NEW p \in Procs, NEW a, Goto(p, a, "idle")
    PROVE  Moved(p, Idle, "idle", "idle", 0, 0, 0)
BY DEF InodeTyped, NamesTyped, Goto, Moved, IsFrame, Idle

LEMMA PutMoves ==
    ASSUME InodeTyped, NEW p \in Procs, NEW a, IsFrame(a), NEW l, NEW i \in Inums \cup {0}, PutThen(p, a, i, l)
    PROVE  Moved(p, a, "iput", l, a.ip, a.dp, i)
BY DEF InodeTyped, NamesTyped, Goto, PutThen, Moved, IsFrame

LEMMA PutIpMoves ==
    ASSUME InodeTyped, NEW p \in Procs, NEW a, IsFrame(a), NEW l, PutIp(p, a, l)
    PROVE  Moved(p, a, "iput", l, 0, a.dp, a.ip)
<1>1. IsFrame([a EXCEPT !.ip = 0])
    BY DEF IsFrame
<1>2. Moved(p, [a EXCEPT !.ip = 0], "iput", l, 0, a.dp, a.ip)
    BY <1>1, PutMoves DEF PutIp, IsFrame
<1>3. QED
    BY <1>2 DEF Moved, IsFrame

LEMMA PutDpMoves ==
    ASSUME InodeTyped, NEW p \in Procs, NEW a, IsFrame(a), NEW l, PutDp(p, a, l)
    PROVE  Moved(p, a, "iput", l, a.ip, 0, a.dp)
<1>1. IsFrame([a EXCEPT !.dp = 0])
    BY DEF IsFrame
<1>2. Moved(p, [a EXCEPT !.dp = 0], "iput", l, a.ip, 0, a.dp)
    BY <1>1, PutMoves DEF PutDp, IsFrame
<1>3. QED
    BY <1>2 DEF Moved, IsFrame

\* Another reference to j.
LEMMA IgetEffect ==
    ASSUME NEW ic \in [Inums -> Entries], NEW j \in Inums, ic[j].ref >= 0,
           ic[j].ref = 0 => ic[j].lock = Nobody
    PROVE  /\ iget(ic, j) \in [Inums -> Entries]
           /\ \A i \in Inums \ {j} : iget(ic, j)[i] = ic[i]
           /\ iget(ic, j)[j].ref = ic[j].ref + 1 /\ iget(ic, j)[j].lock = ic[j].lock
           /\ ic[j].ref > 0 => /\ iget(ic, j)[j].valid = ic[j].valid /\ iget(ic, j)[j].type = ic[j].type
                               /\ iget(ic, j)[j].nlink = ic[j].nlink /\ iget(ic, j)[j].blks = ic[j].blks
           /\ ic[j].ref = 0 => ~iget(ic, j)[j].valid
<1>1. NoEntry \in Entries /\ ic[j] \in Entries
    BY DEF NoEntry, Entries, Types
<1>2. CASE ic[j].ref > 0
  <2>1. iget(ic, j) = [ic EXCEPT ![j] = [ic[j] EXCEPT !.ref = ic[j].ref + 1]]
      BY <1>2 DEF iget
  <2>2. [ic[j] EXCEPT !.ref = ic[j].ref + 1] \in Entries
      BY <1>1 DEF Entries
  <2>3. QED
      BY <1>1, <1>2, <2>1, <2>2 DEF Entries
<1>3. CASE ic[j].ref = 0
  <2>1. iget(ic, j) = [ic EXCEPT ![j] = [NoEntry EXCEPT !.ref = 1]]
      BY <1>1, <1>3 DEF iget, NoEntry
  <2>2. [NoEntry EXCEPT !.ref = 1] \in Entries
      BY <1>1 DEF Entries
  <2>3. QED
      BY <1>1, <1>3, <2>1, <2>2 DEF NoEntry
<1>4. QED
    BY <1>1, <1>2, <1>3 DEF Entries

-----------------------------------------------------------------------------
(* iput()                                                                  *)

LEMMA PutDoneMoves ==
    ASSUME InodeTyped, NEW p \in Procs, Shape(p), Putting(at[p]), PutDone(p, at[p]), cwd' = cwd
    PROVE  /\ at' = [q \in Procs |-> at'[q]] /\ \A q \in Procs \ {p} : at'[q] = at[q]
           /\ IsFrame(at'[p]) /\ Shape(p)' /\ Label(at'[p]) = Label(at[p])
           /\ at'[p].pc = at[p].then /\ ~Putting(at'[p])
           /\ at'[p].ip = at[p].ip /\ at'[p].dp = at[p].dp /\ at'[p].put = 0
<1>1. IsFrame(at[p]) /\ IsFrame([at[p] EXCEPT !.put = 0])
    BY DEF InodeTyped, NamesTyped, IsFrame
<1>2. CASE at[p].then = "idle"
  <2>1. Moved(p, Idle, "idle", "idle", 0, 0, 0)
      BY <1>2, IdleMoves DEF PutDone
  <2>2. at[p].ip = 0 /\ at[p].dp = 0
      BY <1>2 DEF Shape, Label, Putting, WithIp, WithDp, Linking
  <2>3. Shape(p)' /\ Label(at'[p]) = Label(at[p]) /\ ~Putting(at'[p])
      BY <1>2, <2>1 DEF Moved, Shape, Label, Putting, WithIp, WithDp, Linking, Idle
  <2>4. QED
      BY <1>2, <2>1, <2>2, <2>3 DEF Moved
<1>3. CASE at[p].then # "idle"
  <2>1. Moved(p, [at[p] EXCEPT !.put = 0], at[p].then, at[p].then, at[p].ip, at[p].dp, 0)
    <3>1. Moved(p, [at[p] EXCEPT !.put = 0], at[p].then, [at[p] EXCEPT !.put = 0].then,
                [at[p] EXCEPT !.put = 0].ip, [at[p] EXCEPT !.put = 0].dp, [at[p] EXCEPT !.put = 0].put)
        BY <1>1, <1>3, GotoMoves DEF PutDone
    <3>2. QED
        BY <1>1, <3>1 DEF IsFrame
  <2>2. Label(at[p]) = at[p].then /\ ~Putting(at'[p]) /\ Label(at'[p]) = at[p].then
      BY <2>1 DEF Moved, Shape, Label, Putting, WithIp, WithDp, Linking
  <2>3. at'[p].second = at[p].second /\ at'[p].call = at[p].call
      BY <1>1, <2>1 DEF Moved, IsFrame
  <2>4. Shape(p)'
      BY <2>1, <2>2, <2>3 DEF Moved, Shape, Putting
  <2>5. QED
      BY <2>1, <2>2, <2>4 DEF Moved
<1>4. QED
    BY <1>2, <1>3

\* A reference goes, and p goes on.
LEMMA IputPutKeeps ==
    ASSUME InodeInv, NEW p \in Procs, Putting(at[p]), at[p].pc # "iput_free", at[p].pc # "iput_invalid",
           NEW i \in Inums, i = at[p].put,
           dinode' = dinode, dir' = dir, bitmap' = bitmap, gen' = gen, cwd' = cwd, ofile' = ofile,
           icache' = [icache EXCEPT ![i].ref = icache[i].ref - 1], PutDone(p, at[p])
    PROVE  InodeInv'
<1>1. IsFrame(at[p]) /\ Shape(p) /\ InodeTyped /\ icache \in [Inums -> Entries] /\ BlocksOwned'
    BY BlocksSame DEF InodeInv, InodeTyped, NamesTyped
<1>2. /\ at' = [q \in Procs |-> at'[q]] /\ \A q \in Procs \ {p} : at'[q] = at[q]
      /\ IsFrame(at'[p]) /\ Shape(p)' /\ Label(at'[p]) = Label(at[p])
      /\ at'[p].pc = at[p].then /\ ~Putting(at'[p])
      /\ at'[p].ip = at[p].ip /\ at'[p].dp = at[p].dp /\ at'[p].put = 0
    BY <1>1, PutDoneMoves
<1>3. Others(p)
    BY <1>2 DEF Others
<1>4. /\ \A j \in Inums \ {i} : icache'[j] = icache[j]
      /\ icache'[i] = [icache[i] EXCEPT !.ref = icache[i].ref - 1] /\ icache' \in [Inums -> Entries]
    BY <1>1 DEF Entries
<1>5. InodeTyped'
    BY <1>1, <1>2, <1>4 DEF InodeTyped, NamesTyped
<1>6. ASSUME NEW j \in Inums PROVE RefChange(p, j) /\ LockStep(p, j) /\ CopyOK(j)'
  <2>1. icache'[j].ref = icache[j].ref - Bit(i = j) /\ icache[j].ref \in Int
      BY <1>1, <1>4 DEF Entries, Bit
  <2>2. RefChange(p, j)
      BY <1>1, <1>2, <2>1, InodeAssumption DEF RefChange, Slots, Bit, InodeAssumption
  <2>3. LockedAt(at'[p]) = LockedAt(at[p])
      BY <1>1, <1>2 DEF LockedAt, Putting
  <2>4. icache[j].lock = p <=> j \in LockedAt(at[p])
      BY LockedLabel DEF InodeInv, LocksHeld
  <2>5. icache'[j].lock = icache[j].lock
      BY <1>1, <1>4 DEF Entries
  <2>6. LockStep(p, j)
      BY <2>3, <2>4, <2>5 DEF LockStep
  <2>7. EntryKept(j)
    <3>1. Copy(j)' = Copy(j) /\ icache'[j].valid = icache[j].valid
        BY <1>1, <1>4 DEF Copy, Entries
    <3>2. icache'[j].ref > 0 => icache[j].ref > 0
        BY <2>1 DEF Bit
    <3>3. QED
        BY <2>5, <3>1, <3>2 DEF EntryKept
  <2>8. QED
      BY <1>1, <1>2, <1>3, <2>2, <2>6, <2>7, CopyStep DEF Putting
<1>7. QED
    BY <1>1, <1>2, <1>3, <1>5, <1>6, InodeStep

LEMMA IputKeeps == ASSUME InodeInv, NEW p \in Procs, iput(p) PROVE InodeInv'
<1>0. PICK i \in Inums : i = at[p].put
    BY DEF iput, InodeInv, InodeTyped, NamesTyped, IsFrame, Shape, Putting
<1>1. /\ at[p].pc = "iput" /\ Putting(at[p]) /\ i = at[p].put /\ IsFrame(at[p]) /\ Shape(p) /\ InodeTyped
      /\ icache \in [Inums -> Entries]
    BY <1>0 DEF iput, InodeInv, InodeTyped, NamesTyped, IsFrame, Shape, Putting
<1>2. /\ dinode' = dinode /\ dir' = dir /\ bitmap' = bitmap /\ gen' = gen /\ cwd' = cwd /\ ofile' = ofile
    BY DEF iput, disk
<1>3. BlocksOwned'
    BY <1>2, BlocksSame DEF InodeInv
<1>4. icache[i].ref \in Nat /\ icache[i].ref > 0
  <2>1. Slots(p, i) > 0
      BY <1>1 DEF Slots, Bit
  <2>2. QED
      BY <1>1, <2>1, RefNat
<1>5. CASE icache[i].ref = 1 /\ icache[i].valid /\ icache[i].nlink = 0
  <2>1. icache[i].lock = Nobody /\ icache' = [icache EXCEPT ![i].lock = p] /\ Goto(p, at[p], "iput_free")
      BY <1>1, <1>5 DEF iput
  <2>2. Moved(p, at[p], "iput_free", at[p].then, at[p].ip, at[p].dp, i)
      BY <1>1, <2>1, GotoMoves
  <2>3. Others(p)
      BY <1>2, <2>2 DEF Moved, Others
  <2>4. /\ \A j \in Inums \ {i} : icache'[j] = icache[j]
        /\ icache'[i] = [icache[i] EXCEPT !.lock = p] /\ icache' \in [Inums -> Entries]
      BY <1>1, <2>1 DEF Entries
  <2>5. InodeTyped'
      BY <1>1, <1>2, <2>2, <2>4 DEF InodeTyped, NamesTyped, Moved
  <2>6. Shape(p)' /\ Label(at'[p]) = Label(at[p])
    <3>1. i # at[p].ip /\ i # at[p].dp
      <4>1. 1 >= Slots(p, i)
          BY <1>5, RefHeld DEF InodeInv
      <4>2. QED
          BY <1>1, <4>1 DEF Slots, Bit
    <3>2. QED
        BY <1>1, <1>2, <2>2, <3>1 DEF Shape, Moved, Label, Putting
  <2>7. ASSUME NEW j \in Inums PROVE RefChange(p, j) /\ LockStep(p, j) /\ CopyOK(j)'
    <3>1. icache'[j].ref = icache[j].ref
        BY <1>1, <2>4 DEF Entries
    <3>2. RefChange(p, j)
        BY <1>1, <1>2, <2>2, <2>6, <3>1 DEF RefChange, Slots, Moved
    <3>3. LockedAt(at'[p]) = LockedAt(at[p]) \cup {i}
        BY <1>1, <2>2, <2>6 DEF LockedAt, Moved
    <3>4. icache[j].lock = p <=> j \in LockedAt(at[p])
        BY LockedLabel DEF InodeInv, LocksHeld
    <3>5. LockStep(p, j)
        BY <1>1, <2>1, <2>4, <3>3, <3>4 DEF LockStep, Entries
    <3>6. EntryKept(j) \/ Fresh(j)
      <4>1. CASE j = i
        <5>1. ~Freeing(i)
            BY <1>1, <2>1, FreeingLocked, InodeAssumption DEF InodeInv, InodeAssumption
        <5>2. dinode[i] = Copy(i) /\ dinode[i].type # "free"
            BY <1>1, <1>4, <1>5, <5>1 DEF InodeInv, CopyOK
        <5>3. Copy(i)' = Copy(i) /\ icache'[i].valid
            BY <1>1, <1>5, <2>4 DEF Copy, Entries
        <5>4. QED
            BY <1>2, <4>1, <5>2, <5>3 DEF Fresh
      <4>2. CASE j # i
          BY <1>2, <2>4, <4>2 DEF EntryKept, Copy
      <4>3. QED
          BY <4>1, <4>2
    <3>7. QED
        BY <1>1, <2>2, <2>3, <3>2, <3>5, <3>6, CopyStep DEF Moved
  <2>8. QED
      BY <1>3, <2>3, <2>5, <2>6, <2>7, InodeStep
<1>6. CASE ~(icache[i].ref = 1 /\ icache[i].valid /\ icache[i].nlink = 0)
  <2>1. icache' = [icache EXCEPT ![i].ref = icache[i].ref - 1] /\ PutDone(p, at[p])
      BY <1>1, <1>6 DEF iput
  <2>2. QED
      BY <1>1, <1>2, <2>1, IputPutKeeps
<1>7. QED
    BY <1>5, <1>6

LEMMA IputFreeKeeps == ASSUME InodeInv, NEW p \in Procs, iput_free(p) PROVE InodeInv'
<1>0. PICK i \in Inums : i = at[p].put
    BY DEF iput_free, InodeInv, InodeTyped, NamesTyped, IsFrame, Shape, Putting
<1>1. /\ at[p].pc = "iput_free" /\ Putting(at[p]) /\ i = at[p].put /\ IsFrame(at[p]) /\ Shape(p) /\ InodeTyped
      /\ icache \in [Inums -> Entries] /\ dinode \in [Inums -> Dinodes] /\ i \in Locked(p)
    BY <1>0, LockedLabel DEF iput_free, InodeInv, InodeTyped, NamesTyped, IsFrame, Shape, Putting, LockedAt
<1>2. /\ gen' = gen /\ cwd' = cwd /\ ofile' = ofile /\ bitmap' = bitmap \ dinode[i].blks
      /\ dinode' = [dinode EXCEPT ![i] = NoDinode] /\ dir' = [dir EXCEPT ![i] = NoDir]
      /\ icache' = [icache EXCEPT ![i].type = "free", ![i].blks = {}]
  <2>1. icache[i].blks = dinode[i].blks
      BY <1>1, HeldRecord DEF Record
  <2>2. QED
      BY <1>1, <2>1 DEF iput_free
<1>3. Moved(p, at[p], "iput_invalid", at[p].then, at[p].ip, at[p].dp, i)
    BY <1>1, GotoMoves DEF iput_free
<1>4. Others(p)
    BY <1>2, <1>3 DEF Moved, Others
<1>5. /\ \A j \in Inums \ {i} : icache'[j] = icache[j] /\ dinode'[j] = dinode[j]
      /\ icache'[i].ref = icache[i].ref /\ icache'[i].lock = icache[i].lock /\ icache'[i].valid = icache[i].valid
      /\ icache' \in [Inums -> Entries] /\ dinode' \in [Inums -> Dinodes] /\ dinode'[i] = NoDinode
  <2>1. NoDinode \in Dinodes
      BY DEF Dinodes, NoDinode, Types
  <2>2. PICK b \in Entries : b = [icache[i] EXCEPT !.type = "free", !.blks = {}]
    <3>1. PICK u \in Entries : u = icache[i]
        BY <1>1
    <3>2. [u EXCEPT !.type = "free", !.blks = {}] \in Entries
        BY DEF Entries, Types
    <3>3. QED
        BY <3>1, <3>2
  <2>3. b.ref = icache[i].ref /\ b.lock = icache[i].lock /\ b.valid = icache[i].valid
      BY <1>1, <2>2 DEF Entries
  <2>4. icache' = [icache EXCEPT ![i] = b]
      BY <1>1, <1>2, <2>2
  <2>5. QED
      BY <1>1, <1>2, <2>1, <2>3, <2>4
<1>6. InodeTyped'
  <2>1. dir' = [j \in Inums |-> dir'[j]] /\ \A j \in Inums : Entered(dir'[j])
    <3>1. Entered(NoDir)
        BY DEF Entered, NoDir
    <3>2. dir = [j \in Inums |-> dir[j]] /\ \A j \in Inums : Entered(dir[j])
        BY <1>1 DEF InodeTyped, NamesTyped
    <3>3. QED
        BY <1>2, <3>1, <3>2
  <2>2. NamesTyped'
      BY <1>1, <1>2, <2>1 DEF InodeTyped, NamesTyped, Entered
  <2>3. bitmap' \subseteq Blocks /\ at' = [q \in Procs |-> at'[q]] /\ \A q \in Procs : IsFrame(at'[q])
      BY <1>1, <1>2, <1>3 DEF InodeTyped, Moved
  <2>4. QED
      BY <1>5, <2>2, <2>3 DEF InodeTyped
<1>7. Shape(p)' /\ Label(at'[p]) = Label(at[p])
    BY <1>1, <1>2, <1>3 DEF Shape, Moved, Label, Putting
<1>8. BlocksOwned'
    BY <1>1, <1>2, <1>5, BlocksFreed DEF InodeInv, NoDinode
<1>9. ASSUME NEW j \in Inums PROVE RefChange(p, j) /\ LockStep(p, j) /\ CopyOK(j)'
  <2>1. icache'[j].ref = icache[j].ref /\ icache'[j].lock = icache[j].lock
      BY <1>5
  <2>2. RefChange(p, j)
      BY <1>1, <1>2, <1>3, <1>7, <2>1 DEF RefChange, Slots, Moved
  <2>3. LockedAt(at'[p]) = LockedAt(at[p])
      BY <1>1, <1>3, <1>7 DEF LockedAt, Moved
  <2>4. LockStep(p, j)
      BY <2>1, <2>3, LockedLabel DEF LockStep, InodeInv, LocksHeld
  <2>5. CASE j = i
    <3>1. Freeing(i)'
        BY <1>3 DEF Freeing, Moved
    <3>2. icache'[i].valid
        BY <1>1, <1>5, HeldRecord DEF Record
    <3>3. QED
        BY <2>2, <2>4, <2>5, <3>1, <3>2 DEF CopyOK
  <2>6. CASE j # i
    <3>1. EntryKept(j)
        BY <1>5, <2>6 DEF EntryKept, Copy
    <3>2. QED
        BY <1>1, <1>4, <2>2, <2>4, <3>1, CopyStep
  <2>7. QED
      BY <2>5, <2>6
<1>10. QED
    BY <1>4, <1>6, <1>7, <1>8, <1>9, InodeStep

LEMMA IputInvalidKeeps == ASSUME InodeInv, NEW p \in Procs, iput_invalid(p) PROVE InodeInv'
<1>0. PICK i \in Inums : i = at[p].put
    BY DEF iput_invalid, InodeInv, InodeTyped, NamesTyped, IsFrame, Shape, Putting
<1>1. /\ at[p].pc = "iput_invalid" /\ Putting(at[p]) /\ i = at[p].put /\ IsFrame(at[p]) /\ Shape(p) /\ InodeTyped
      /\ icache \in [Inums -> Entries] /\ i \in Locked(p)
    BY <1>0, LockedLabel DEF iput_invalid, InodeInv, InodeTyped, NamesTyped, IsFrame, Shape, Putting, LockedAt
<1>2. /\ gen' = gen /\ cwd' = cwd /\ ofile' = ofile /\ bitmap' = bitmap /\ dinode' = dinode /\ dir' = dir
      /\ icache' = [icache EXCEPT ![i].valid = FALSE, ![i].lock = Nobody]
    BY <1>1 DEF iput_invalid, disk
<1>3. Moved(p, at[p], "iput_drop", at[p].then, at[p].ip, at[p].dp, i)
    BY <1>1, GotoMoves DEF iput_invalid
<1>4. Others(p)
    BY <1>2, <1>3 DEF Moved, Others
<1>5. /\ \A j \in Inums \ {i} : icache'[j] = icache[j]
      /\ icache'[i].ref = icache[i].ref /\ icache'[i].lock = Nobody /\ ~icache'[i].valid
      /\ icache' \in [Inums -> Entries]
  <2>1. icache' = [icache EXCEPT ![i] = [icache[i] EXCEPT !.valid = FALSE, !.lock = Nobody]]
      BY <1>1, <1>2 DEF Entries
  <2>2. [icache[i] EXCEPT !.valid = FALSE, !.lock = Nobody] \in Entries
    <3>1. PICK b \in Entries : b = icache[i]
        BY <1>1
    <3>2. [b EXCEPT !.valid = FALSE, !.lock = Nobody] \in Entries
        BY DEF Entries
    <3>3. QED
        BY <3>1, <3>2
  <2>3. QED
      BY <1>1, <2>1, <2>2 DEF Entries
<1>6. InodeTyped'
    BY <1>1, <1>2, <1>3, <1>5 DEF InodeTyped, NamesTyped, Moved
<1>7. Shape(p)' /\ Label(at'[p]) = Label(at[p])
    BY <1>1, <1>2, <1>3 DEF Shape, Moved, Label, Putting
<1>8. BlocksOwned'
    BY <1>2, BlocksSame DEF InodeInv
<1>9. i \notin LockedAt(at'[p]) /\ \A j \in Inums \ {i} : j \in LockedAt(at'[p]) <=> j \in LockedAt(at[p])
    BY <1>1, <1>3, <1>7 DEF LockedAt, Moved, Shape
<1>10. ASSUME NEW j \in Inums PROVE RefChange(p, j) /\ LockStep(p, j) /\ CopyOK(j)'
  <2>1. icache'[j].ref = icache[j].ref
      BY <1>5
  <2>2. RefChange(p, j)
      BY <1>1, <1>2, <1>3, <1>7, <2>1 DEF RefChange, Slots, Moved
  <2>3. icache[j].lock = p <=> j \in LockedAt(at[p])
      BY LockedLabel DEF InodeInv, LocksHeld
  <2>4. icache[i].lock = p
      BY <1>1 DEF InodeInv, LocksHeld
  <2>5. LockStep(p, j)
      BY <1>5, <1>9, <2>3, <2>4, InodeAssumption DEF LockStep, InodeAssumption
  <2>6. CASE j = i
      BY <1>5, <2>2, <2>5, <2>6 DEF CopyOK
  <2>7. CASE j # i
    <3>1. EntryKept(j)
        BY <1>2, <1>5, <2>7 DEF EntryKept, Copy
    <3>2. QED
        BY <1>1, <1>4, <2>2, <2>5, <2>7, <3>1, CopyStep
  <2>8. QED
      BY <2>6, <2>7
<1>11. QED
    BY <1>4, <1>6, <1>7, <1>8, <1>10, InodeStep

LEMMA IputDropKeeps == ASSUME InodeInv, NEW p \in Procs, iput_drop(p) PROVE InodeInv'
<1>0. PICK i \in Inums : i = at[p].put
    BY DEF iput_drop, InodeInv, InodeTyped, NamesTyped, IsFrame, Shape, Putting
<1>1. /\ at[p].pc = "iput_drop" /\ Putting(at[p]) /\ i = at[p].put /\ IsFrame(at[p]) /\ Shape(p) /\ InodeTyped
      /\ icache \in [Inums -> Entries]
    BY <1>0 DEF iput_drop, InodeInv, InodeTyped, NamesTyped, IsFrame, Shape, Putting
<1>2. /\ dinode' = dinode /\ dir' = dir /\ bitmap' = bitmap /\ gen' = gen /\ cwd' = cwd /\ ofile' = ofile
      /\ icache' = [icache EXCEPT ![i].ref = icache[i].ref - 1] /\ PutDone(p, at[p])
    BY <1>1 DEF iput_drop
<1>3. QED
    BY <1>1, <1>2, IputPutKeeps

-----------------------------------------------------------------------------
(* Path names                                                              *)

\* What iget(j) does after the entry of i has become u.
Gotten(i, u, j) ==
    /\ icache' \in [Inums -> Entries]
    /\ \A k \in Inums : icache'[k].ref = icache[k].ref + Bit(k = j)
    /\ icache'[i].lock = u.lock /\ icache'[i].valid = u.valid
    /\ Copy(i)' = [type |-> u.type, nlink |-> u.nlink, blks |-> u.blks]
    /\ \A k \in Inums \ {i} :
          /\ icache'[k].lock = icache[k].lock
          /\ \/ icache'[k].valid = icache[k].valid /\ Copy(k)' = Copy(k)
                /\ (icache'[k].ref > 0 => icache[k].ref > 0)
             \/ k = j /\ icache[k].ref = 0 /\ ~icache'[k].valid /\ icache'[k].lock = Nobody

LEMMA HeldIget ==
    ASSUME InodeInv, NEW p \in Procs, NEW i \in Inums, NEW u \in Entries, u.ref = icache[i].ref, icache[i].ref > 0,
           NEW j \in Inums, icache' = iget([icache EXCEPT ![i] = u], j)
    PROVE  Gotten(i, u, j)
<1>1. icache \in [Inums -> Entries] /\ icache[j].ref \in Nat
    BY RefNat DEF InodeInv, InodeTyped, NamesTyped
<1> DEFINE ic == [icache EXCEPT ![i] = u]
<1>2. ic \in [Inums -> Entries] /\ (\A k \in Inums : ic[k].ref = icache[k].ref)
      /\ ic[i] = u /\ \A k \in Inums \ {i} : ic[k] = icache[k]
    BY <1>1
<1>3. ic[j].ref >= 0 /\ (ic[j].ref = 0 => ic[j].lock = Nobody)
    BY <1>1, <1>2, LockedRef
<1>4. icache' = iget(ic, j)
    OBVIOUS
<1> HIDE DEF ic
<1>5. /\ icache' \in [Inums -> Entries]
      /\ \A k \in Inums \ {j} : icache'[k] = ic[k]
      /\ icache'[j].ref = ic[j].ref + 1 /\ icache'[j].lock = ic[j].lock
      /\ ic[j].ref > 0 => /\ icache'[j].valid = ic[j].valid /\ icache'[j].type = ic[j].type
                          /\ icache'[j].nlink = ic[j].nlink /\ icache'[j].blks = ic[j].blks
      /\ ic[j].ref = 0 => ~icache'[j].valid
  <2>1. /\ iget(ic, j) \in [Inums -> Entries]
        /\ \A k \in Inums \ {j} : iget(ic, j)[k] = ic[k]
        /\ iget(ic, j)[j].ref = ic[j].ref + 1 /\ iget(ic, j)[j].lock = ic[j].lock
        /\ ic[j].ref > 0 => /\ iget(ic, j)[j].valid = ic[j].valid /\ iget(ic, j)[j].type = ic[j].type
                            /\ iget(ic, j)[j].nlink = ic[j].nlink /\ iget(ic, j)[j].blks = ic[j].blks
        /\ ic[j].ref = 0 => ~iget(ic, j)[j].valid
      BY <1>2, <1>3, IgetEffect
  <2>2. QED
      BY <1>4, <2>1
<1>6. ASSUME NEW k \in Inums PROVE icache'[k].ref = icache[k].ref + Bit(k = j)
  <2>1. icache[k].ref \in Int
      BY <1>1 DEF Entries
  <2>2. CASE k = j
      BY <1>2, <1>5, <2>1, <2>2 DEF Bit
  <2>3. CASE k # j
    <3>1. icache'[k].ref = icache[k].ref
        BY <1>2, <1>5, <2>3
    <3>2. Bit(k = j) = 0
        BY <2>3 DEF Bit
    <3>3. QED
        BY <2>1, <3>1, <3>2
  <2>4. QED
      BY <2>2, <2>3
<1>7. /\ icache'[i].lock = u.lock /\ icache'[i].valid = u.valid
      /\ Copy(i)' = [type |-> u.type, nlink |-> u.nlink, blks |-> u.blks]
    BY <1>2, <1>5 DEF Copy
<1>8. ASSUME NEW k \in Inums \ {i}
      PROVE  /\ icache'[k].lock = icache[k].lock
             /\ \/ icache'[k].valid = icache[k].valid /\ Copy(k)' = Copy(k)
                   /\ (icache'[k].ref > 0 => icache[k].ref > 0)
                \/ k = j /\ icache[k].ref = 0 /\ ~icache'[k].valid /\ icache'[k].lock = Nobody
  <2>1. CASE k # j
      BY <1>2, <1>5, <2>1 DEF Copy
  <2>2. CASE k = j /\ icache[j].ref > 0
      BY <1>2, <1>5, <2>2 DEF Copy
  <2>3. CASE k = j /\ icache[j].ref = 0
      BY <1>2, <1>3, <1>5, <2>3 DEF Copy
  <2>4. QED
      BY <1>1, <2>1, <2>2, <2>3
<1>9. QED
    BY <1>5, <1>6, <1>7, <1>8 DEF Gotten

\* A frame with one variable changed.
LEMMA FrameCall ==
    ASSUME NEW a, IsFrame(a), NEW c
    PROVE  /\ IsFrame([a EXCEPT !.call = c])
           /\ [a EXCEPT !.call = c] =
                 [pc |-> a.pc, call |-> c, rest |-> a.rest, second |-> a.second,
                  ip |-> a.ip, dp |-> a.dp, put |-> a.put, then |-> a.then, stray |-> a.stray]
<1>1. [a EXCEPT !.call = c] =
                 [pc |-> a.pc, call |-> c, rest |-> a.rest, second |-> a.second,
                  ip |-> a.ip, dp |-> a.dp, put |-> a.put, then |-> a.then, stray |-> a.stray]
    BY DEF IsFrame
<1>2. QED
    BY <1>1 DEF IsFrame

LEMMA FrameRest ==
    ASSUME NEW a, IsFrame(a), NEW h
    PROVE  /\ IsFrame([a EXCEPT !.rest = h])
           /\ [a EXCEPT !.rest = h] =
                 [pc |-> a.pc, call |-> a.call, rest |-> h, second |-> a.second,
                  ip |-> a.ip, dp |-> a.dp, put |-> a.put, then |-> a.then, stray |-> a.stray]
<1>1. [a EXCEPT !.rest = h] =
                 [pc |-> a.pc, call |-> a.call, rest |-> h, second |-> a.second,
                  ip |-> a.ip, dp |-> a.dp, put |-> a.put, then |-> a.then, stray |-> a.stray]
    BY DEF IsFrame
<1>2. QED
    BY <1>1 DEF IsFrame

LEMMA FrameSecond ==
    ASSUME NEW a, IsFrame(a), NEW b \in BOOLEAN
    PROVE  /\ IsFrame([a EXCEPT !.second = b])
           /\ [a EXCEPT !.second = b] =
                 [pc |-> a.pc, call |-> a.call, rest |-> a.rest, second |-> b,
                  ip |-> a.ip, dp |-> a.dp, put |-> a.put, then |-> a.then, stray |-> a.stray]
<1>1. [a EXCEPT !.second = b] =
                 [pc |-> a.pc, call |-> a.call, rest |-> a.rest, second |-> b,
                  ip |-> a.ip, dp |-> a.dp, put |-> a.put, then |-> a.then, stray |-> a.stray]
    BY DEF IsFrame
<1>2. QED
    BY <1>1 DEF IsFrame

LEMMA FrameIp ==
    ASSUME NEW a, IsFrame(a), NEW i \in Inums \cup {0}
    PROVE  /\ IsFrame([a EXCEPT !.ip = i])
           /\ [a EXCEPT !.ip = i] =
                 [pc |-> a.pc, call |-> a.call, rest |-> a.rest, second |-> a.second,
                  ip |-> i, dp |-> a.dp, put |-> a.put, then |-> a.then, stray |-> a.stray]
<1>1. [a EXCEPT !.ip = i] =
                 [pc |-> a.pc, call |-> a.call, rest |-> a.rest, second |-> a.second,
                  ip |-> i, dp |-> a.dp, put |-> a.put, then |-> a.then, stray |-> a.stray]
    BY DEF IsFrame
<1>2. QED
    BY <1>1 DEF IsFrame

LEMMA FrameDp ==
    ASSUME NEW a, IsFrame(a), NEW i \in Inums \cup {0}
    PROVE  /\ IsFrame([a EXCEPT !.dp = i])
           /\ [a EXCEPT !.dp = i] =
                 [pc |-> a.pc, call |-> a.call, rest |-> a.rest, second |-> a.second,
                  ip |-> a.ip, dp |-> i, put |-> a.put, then |-> a.then, stray |-> a.stray]
<1>1. [a EXCEPT !.dp = i] =
                 [pc |-> a.pc, call |-> a.call, rest |-> a.rest, second |-> a.second,
                  ip |-> a.ip, dp |-> i, put |-> a.put, then |-> a.then, stray |-> a.stray]
    BY DEF IsFrame
<1>2. QED
    BY <1>1 DEF IsFrame

LEMMA FrameStray ==
    ASSUME NEW a, IsFrame(a), NEW b
    PROVE  /\ IsFrame([a EXCEPT !.stray = b])
           /\ [a EXCEPT !.stray = b] =
                 [pc |-> a.pc, call |-> a.call, rest |-> a.rest, second |-> a.second,
                  ip |-> a.ip, dp |-> a.dp, put |-> a.put, then |-> a.then, stray |-> b]
<1>1. [a EXCEPT !.stray = b] =
                 [pc |-> a.pc, call |-> a.call, rest |-> a.rest, second |-> a.second,
                  ip |-> a.ip, dp |-> a.dp, put |-> a.put, then |-> a.then, stray |-> b]
    BY DEF IsFrame
<1>2. QED
    BY <1>1 DEF IsFrame

\* And with two.
LEMMA FrameAlong ==
    ASSUME NEW a, IsFrame(a), NEW h, NEW i \in Inums \cup {0}
    PROVE  /\ IsFrame([a EXCEPT !.rest = h, !.ip = i])
           /\ [a EXCEPT !.rest = h, !.ip = i] =
                 [pc |-> a.pc, call |-> a.call, rest |-> h, second |-> a.second,
                  ip |-> i, dp |-> a.dp, put |-> a.put, then |-> a.then, stray |-> a.stray]
<1> DEFINE b == [a EXCEPT !.rest = h]
<1>1. IsFrame(b) /\ b = [pc |-> a.pc, call |-> a.call, rest |-> h, second |-> a.second,
                  ip |-> a.ip, dp |-> a.dp, put |-> a.put, then |-> a.then, stray |-> a.stray]
    BY FrameRest
<1> HIDE DEF b
<1>2. IsFrame([b EXCEPT !.ip = i]) /\ [b EXCEPT !.ip = i] =
                 [pc |-> b.pc, call |-> b.call, rest |-> b.rest, second |-> b.second,
                  ip |-> i, dp |-> b.dp, put |-> b.put, then |-> b.then, stray |-> b.stray]
    BY <1>1, FrameIp
<1>3. QED
    BY <1>1, <1>2 DEF b

LEMMA FrameTurn ==
    ASSUME NEW a, IsFrame(a), NEW i \in Inums \cup {0}, NEW h, NEW v
    PROVE  /\ IsFrame([a EXCEPT !.ip = i, !.rest = h, !.stray = v])
           /\ [a EXCEPT !.ip = i, !.rest = h, !.stray = v] =
                 [pc |-> a.pc, call |-> a.call, rest |-> h, second |-> a.second,
                  ip |-> i, dp |-> a.dp, put |-> a.put, then |-> a.then, stray |-> v]
<1> DEFINE b1 == [a EXCEPT !.ip = i]
<1>1. IsFrame(b1) /\ b1 = [pc |-> a.pc, call |-> a.call, rest |-> a.rest, second |-> a.second,
                  ip |-> i, dp |-> a.dp, put |-> a.put, then |-> a.then, stray |-> a.stray]
    BY FrameIp
<1> HIDE DEF b1
<1> DEFINE b2 == [b1 EXCEPT !.rest = h]
<1>2. IsFrame(b2) /\ b2 = [pc |-> a.pc, call |-> a.call, rest |-> h, second |-> a.second,
                  ip |-> i, dp |-> a.dp, put |-> a.put, then |-> a.then, stray |-> a.stray]
  <2>1. IsFrame(b2) /\ b2 = [pc |-> b1.pc, call |-> b1.call, rest |-> h, second |-> b1.second,
                  ip |-> b1.ip, dp |-> b1.dp, put |-> b1.put, then |-> b1.then, stray |-> b1.stray]
      BY <1>1, FrameRest
  <2> HIDE DEF b2
  <2>2. QED
      BY <1>1, <2>1
<1> HIDE DEF b2
<1>3. IsFrame([b2 EXCEPT !.stray = v]) /\ [b2 EXCEPT !.stray = v] =
                 [pc |-> b2.pc, call |-> b2.call, rest |-> b2.rest, second |-> b2.second,
                  ip |-> b2.ip, dp |-> b2.dp, put |-> b2.put, then |-> b2.then, stray |-> v]
    BY <1>2, FrameStray
<1>4. QED
    BY <1>2, <1>3 DEF b1, b2

LEMMA FrameFound ==
    ASSUME NEW a, IsFrame(a), NEW i \in Inums \cup {0}, NEW v
    PROVE  /\ IsFrame([a EXCEPT !.ip = i, !.stray = v])
           /\ [a EXCEPT !.ip = i, !.stray = v] =
                 [pc |-> a.pc, call |-> a.call, rest |-> a.rest, second |-> a.second,
                  ip |-> i, dp |-> a.dp, put |-> a.put, then |-> a.then, stray |-> v]
<1> DEFINE b1 == [a EXCEPT !.ip = i]
<1>1. IsFrame(b1) /\ b1 = [pc |-> a.pc, call |-> a.call, rest |-> a.rest, second |-> a.second,
                  ip |-> i, dp |-> a.dp, put |-> a.put, then |-> a.then, stray |-> a.stray]
    BY FrameIp
<1> HIDE DEF b1
<1>2. IsFrame([b1 EXCEPT !.stray = v]) /\ [b1 EXCEPT !.stray = v] =
                 [pc |-> b1.pc, call |-> b1.call, rest |-> b1.rest, second |-> b1.second,
                  ip |-> b1.ip, dp |-> b1.dp, put |-> b1.put, then |-> b1.then, stray |-> v]
    BY <1>1, FrameStray
<1>3. QED
    BY <1>1, <1>2 DEF b1

LEMMA FrameBoth ==
    ASSUME NEW a, IsFrame(a), NEW j \in Inums \cup {0}, NEW i \in Inums \cup {0}
    PROVE  /\ IsFrame([a EXCEPT !.dp = j, !.ip = i])
           /\ [a EXCEPT !.dp = j, !.ip = i] =
                 [pc |-> a.pc, call |-> a.call, rest |-> a.rest, second |-> a.second,
                  ip |-> i, dp |-> j, put |-> a.put, then |-> a.then, stray |-> a.stray]
<1> DEFINE b1 == [a EXCEPT !.dp = j]
<1>1. IsFrame(b1) /\ b1 = [pc |-> a.pc, call |-> a.call, rest |-> a.rest, second |-> a.second,
                  ip |-> a.ip, dp |-> j, put |-> a.put, then |-> a.then, stray |-> a.stray]
    BY FrameDp
<1> HIDE DEF b1
<1>2. IsFrame([b1 EXCEPT !.ip = i]) /\ [b1 EXCEPT !.ip = i] =
                 [pc |-> b1.pc, call |-> b1.call, rest |-> b1.rest, second |-> b1.second,
                  ip |-> i, dp |-> b1.dp, put |-> b1.put, then |-> b1.then, stray |-> b1.stray]
    BY <1>1, FrameIp
<1>3. QED
    BY <1>1, <1>2 DEF b1

Second(a, j, i, v) == [a EXCEPT !.dp = j, !.ip = i, !.second = v]

LEMMA FrameSecondPath ==
    ASSUME NEW a, IsFrame(a), NEW j \in Inums \cup {0}, NEW i \in Inums \cup {0}, NEW v \in BOOLEAN
    PROVE  /\ IsFrame(Second(a, j, i, v))
           /\ Second(a, j, i, v) =
                 [pc |-> a.pc, call |-> a.call, rest |-> a.rest, second |-> v,
                  ip |-> i, dp |-> j, put |-> a.put, then |-> a.then, stray |-> a.stray]
<1> DEFINE b1 == [a EXCEPT !.dp = j]
<1>1. IsFrame(b1) /\ b1 = [pc |-> a.pc, call |-> a.call, rest |-> a.rest, second |-> a.second,
                  ip |-> a.ip, dp |-> j, put |-> a.put, then |-> a.then, stray |-> a.stray]
    BY FrameDp
<1> HIDE DEF b1
<1> DEFINE b2 == [b1 EXCEPT !.ip = i]
<1>2. IsFrame(b2) /\ b2 = [pc |-> a.pc, call |-> a.call, rest |-> a.rest, second |-> a.second,
                  ip |-> i, dp |-> j, put |-> a.put, then |-> a.then, stray |-> a.stray]
  <2>1. IsFrame(b2) /\ b2 = [pc |-> b1.pc, call |-> b1.call, rest |-> b1.rest, second |-> b1.second,
                  ip |-> i, dp |-> b1.dp, put |-> b1.put, then |-> b1.then, stray |-> b1.stray]
      BY <1>1, FrameIp
  <2> HIDE DEF b2
  <2>2. QED
      BY <1>1, <2>1
<1> HIDE DEF b2
<1>3. IsFrame([b2 EXCEPT !.second = v]) /\ [b2 EXCEPT !.second = v] =
                 [pc |-> b2.pc, call |-> b2.call, rest |-> b2.rest, second |-> v,
                  ip |-> b2.ip, dp |-> b2.dp, put |-> b2.put, then |-> b2.then, stray |-> b2.stray]
    BY <1>2, FrameSecond
<1>4. QED
    BY <1>2, <1>3 DEF b1, b2, Second

\* A lookup starts: p has a reference to where it starts.
LEMMA StartKeeps ==
    ASSUME InodeInv, NEW p \in Procs, NEW a, IsFrame(a), NEW path, namex_start(p, a, path),
           dinode' = dinode, dir' = dir, bitmap' = bitmap, gen' = gen, cwd' = cwd, ofile' = ofile,
           at[p].ip = 0, at[p].put = 0, a.put = 0, a.dp = at[p].dp, a.dp # 0 <=> a.second,
           a.then # "chdir_set", Label(at[p]) # "chdir_set", cwd[p] # 0, LockedAt(at[p]) = {},
           at[p].pc # "iput_invalid", a.second => a.call.op = "link", a.call.op \in PathOps
    PROVE  InodeInv'
<1>1. /\ InodeTyped /\ icache \in [Inums -> Entries] /\ ROOTINO \in Inums /\ 0 \notin Inums /\ cwd[p] \in Inums
      /\ BlocksOwned'
    BY BlocksSame, InodeAssumption DEF InodeInv, InodeTyped, NamesTyped, InodeAssumption
<1>2. PICK i \in Inums : /\ i = IF path.abs THEN ROOTINO ELSE cwd[p]
                         /\ icache' = IF path.abs THEN iget(icache, i) ELSE idup(icache, i)
                         /\ Goto(p, [a EXCEPT !.rest = path.names, !.ip = i], "namex")
    BY <1>1 DEF namex_start
<1>3. /\ icache' \in [Inums -> Entries]
      /\ \A k \in Inums : /\ icache'[k].ref = icache[k].ref + Bit(k = i) /\ icache'[k].lock = icache[k].lock
                          /\ EntryKept(k) \/ Dropped(k)
  <2>1. \A k \in Inums : icache[k].ref \in Nat /\ (icache[k].ref = 0 => icache[k].lock = Nobody)
      BY RefNat, LockedRef
  <2>2. CASE path.abs
    <3>1. /\ iget(icache, i) \in [Inums -> Entries]
          /\ \A k \in Inums \ {i} : iget(icache, i)[k] = icache[k]
          /\ iget(icache, i)[i].ref = icache[i].ref + 1 /\ iget(icache, i)[i].lock = icache[i].lock
          /\ icache[i].ref > 0 => /\ iget(icache, i)[i].valid = icache[i].valid
                                  /\ iget(icache, i)[i].type = icache[i].type
                                  /\ iget(icache, i)[i].nlink = icache[i].nlink
                                  /\ iget(icache, i)[i].blks = icache[i].blks
          /\ icache[i].ref = 0 => ~iget(icache, i)[i].valid
        BY <1>1, <2>1, IgetEffect
    <3>2. icache' = iget(icache, i)
        BY <1>2, <2>2
    <3>3. ASSUME NEW k \in Inums, k # i
          PROVE  /\ icache'[k].ref = icache[k].ref + Bit(k = i) /\ icache'[k].lock = icache[k].lock /\ EntryKept(k)
        BY <2>1, <3>1, <3>2, <3>3 DEF EntryKept, Copy, Bit
    <3>4. icache'[i].ref = icache[i].ref + Bit(i = i) /\ icache'[i].lock = icache[i].lock
        BY <3>1, <3>2 DEF Bit
    <3>5. icache[i].ref > 0 => EntryKept(i)
        BY <3>1, <3>2 DEF EntryKept, Copy
    <3>6. icache[i].ref = 0 => Dropped(i)
        BY <2>1, <3>1, <3>2 DEF Dropped
    <3>7. QED
        BY <2>1, <3>1, <3>2, <3>3, <3>4, <3>5, <3>6
  <2>3. CASE ~path.abs
    <3>1. icache' = [icache EXCEPT ![i] = [icache[i] EXCEPT !.ref = icache[i].ref + 1]]
        BY <1>2, <2>3 DEF idup
    <3>2. /\ icache' \in [Inums -> Entries] /\ \A k \in Inums \ {i} : icache'[k] = icache[k]
          /\ icache'[i] = [icache[i] EXCEPT !.ref = icache[i].ref + 1]
        BY <1>1, <3>1 DEF Entries
    <3>3. icache[i].ref > 0
      <4>1. Slots(p, i) > 0
          BY <1>2, <2>3 DEF Slots, Bit
      <4>2. QED
          BY <4>1, RefNat
    <3>4. ASSUME NEW k \in Inums, k # i
          PROVE  /\ icache'[k].ref = icache[k].ref + Bit(k = i) /\ icache'[k].lock = icache[k].lock /\ EntryKept(k)
        BY <2>1, <3>2, <3>4 DEF EntryKept, Copy, Bit
    <3>5. icache'[i].ref = icache[i].ref + Bit(i = i) /\ icache'[i].lock = icache[i].lock /\ EntryKept(i)
        BY <1>1, <3>2, <3>3 DEF EntryKept, Copy, Bit, Entries
    <3>6. QED
        BY <3>2, <3>4, <3>5
  <2>4. QED
      BY <2>2, <2>3
<1>4. Moved(p, a, "namex", a.then, i, a.dp, 0)
  <2>1. IsFrame([a EXCEPT !.rest = path.names, !.ip = i])
      BY FrameAlong
  <2>2. Moved(p, [a EXCEPT !.rest = path.names, !.ip = i], "namex", a.then, i, a.dp, 0)
    <3> DEFINE b == [a EXCEPT !.rest = path.names, !.ip = i]
    <3>1. Moved(p, b, "namex", b.then, b.ip, b.dp, b.put)
        BY <1>1, <1>2, <2>1, GotoMoves
    <3>2. QED
        BY <3>1 DEF IsFrame
  <2>3. QED
      BY <2>2 DEF Moved, IsFrame
<1>5. Others(p)
    BY <1>4 DEF Moved, Others
<1>6. InodeTyped'
    BY <1>1, <1>3, <1>4 DEF InodeTyped, NamesTyped, Moved, Entered
<1>7. Label(at'[p]) = "namex" /\ LockedAt(at'[p]) = {}
    BY <1>4 DEF Moved, Label, Putting, LockedAt
<1>8. Shape(p)'
    BY <1>1, <1>4, <1>7 DEF Shape, Moved, WithIp, WithDp, Linking, Putting
<1>9. ASSUME NEW k \in Inums PROVE RefChange(p, k) /\ LockStep(p, k) /\ CopyOK(k)'
  <2>1. icache[k].ref \in Int
      BY <1>1 DEF Entries
  <2>2. RefChange(p, k)
      BY <1>1, <1>3, <1>4, <1>7, <2>1 DEF RefChange, Slots, Moved, Bit
  <2>3. LockStep(p, k)
      BY <1>3, <1>7, LockedLabel DEF LockStep, InodeInv, LocksHeld
  <2>4. QED
      BY <1>3, <1>5, <2>2, <2>3, CopyStep
<1>10. QED
    BY <1>1, <1>5, <1>6, <1>8, <1>9, InodeStep

LEMMA NamexBeginKeeps == ASSUME InodeInv, NEW p \in Procs, NEW c, begin(p, c) PROVE InodeInv'
<1>1. /\ at[p].pc = "idle" /\ cwd[p] # 0 /\ c.op \in PathOps /\ namex_start(p, [Idle EXCEPT !.call = c], c.path)
      /\ dinode' = dinode /\ dir' = dir /\ bitmap' = bitmap /\ gen' = gen /\ cwd' = cwd /\ ofile' = ofile
    BY DEF begin, disk
<1>2. at[p].ip = 0 /\ at[p].dp = 0 /\ at[p].put = 0 /\ Label(at[p]) = "idle" /\ LockedAt(at[p]) = {}
  <2>1. Shape(p)
      BY DEF InodeInv
  <2>2. QED
      BY <1>1, <2>1 DEF Shape, Label, Putting, LockedAt, WithIp, WithDp, Linking
<1> DEFINE a == [Idle EXCEPT !.call = c]
<1>3. /\ IsFrame(a) /\ a.ip = 0 /\ a.put = 0 /\ a.dp = 0 /\ ~a.second /\ a.then = "idle" /\ a.call = c
  <2>1. IsFrame(Idle) /\ Idle.ip = 0 /\ Idle.put = 0 /\ Idle.dp = 0 /\ ~Idle.second /\ Idle.then = "idle"
      BY DEF Idle, IsFrame
  <2>2. IsFrame(a) /\ a = [pc |-> Idle.pc, call |-> c, rest |-> Idle.rest, second |-> Idle.second,
                          ip |-> Idle.ip, dp |-> Idle.dp, put |-> Idle.put, then |-> Idle.then,
                          stray |-> Idle.stray]
      BY <2>1, FrameCall
  <2> HIDE DEF a
  <2>3. QED
      BY <2>1, <2>2
<1> HIDE DEF a
<1>4. namex_start(p, a, c.path)
    BY <1>1 DEF a
<1>5. QED
    BY <1>1, <1>2, <1>3, <1>4, StartKeeps

LEMMA LinkPathKeeps == ASSUME InodeInv, NEW p \in Procs, link_path(p) PROVE InodeInv'
<1>1. /\ at[p].pc = "link_path" /\ namex_start(p, at[p], at[p].call.new) /\ Shape(p) /\ IsFrame(at[p])
      /\ dinode' = dinode /\ dir' = dir /\ bitmap' = bitmap /\ gen' = gen /\ cwd' = cwd /\ ofile' = ofile
    BY DEF link_path, disk, InodeInv, InodeTyped, NamesTyped
<1>2. /\ at[p].ip = 0 /\ at[p].put = 0 /\ Label(at[p]) = "link_path" /\ LockedAt(at[p]) = {}
      /\ at[p].second /\ at[p].dp # 0 /\ at[p].then # "chdir_set" /\ cwd[p] # 0
      /\ at[p].call.op \in PathOps /\ at[p].call.op = "link"
    BY <1>1 DEF Shape, Label, Putting, LockedAt, WithIp, WithDp, Linking
<1>3. QED
    BY <1>1, <1>2, StartKeeps

\* A step that takes and drops no lock or reference, but may look at an inode
\* and move references from one variable to another.
Looked ==
    \/ icache' = icache
    \/ \E i \in Inums : icache[i].ref > 0 /\ ilock(i) /\ icache' = [icache EXCEPT ![i] = Loaded(i)]

LEMMA LookEffect ==
    ASSUME InodeInv, Looked, dinode' = dinode
    PROVE  /\ icache' \in [Inums -> Entries]
           /\ \A k \in Inums : /\ icache'[k].ref = icache[k].ref /\ icache'[k].lock = icache[k].lock
                               /\ EntryKept(k) \/ Fresh(k)
<1>1. icache \in [Inums -> Entries] /\ dinode \in [Inums -> Dinodes]
    BY DEF InodeInv, InodeTyped
<1>2. CASE icache' = icache
    BY <1>1, <1>2 DEF EntryKept, Copy
<1>3. ASSUME NEW i \in Inums, icache[i].ref > 0, ilock(i), icache' = [icache EXCEPT ![i] = Loaded(i)]
      PROVE  /\ icache' \in [Inums -> Entries]
             /\ \A k \in Inums : /\ icache'[k].ref = icache[k].ref /\ icache'[k].lock = icache[k].lock
                                 /\ EntryKept(k) \/ Fresh(k)
  <2>1. Loaded(i) = Record(icache[i].ref, Nobody, dinode[i]) /\ dinode[i].type # "free"
      BY <1>3, LoadedRecord
  <2>2. icache[i].lock = Nobody
      BY <1>3 DEF ilock
  <2>3. Record(icache[i].ref, Nobody, dinode[i]) \in Entries
      BY <1>1 DEF Record, Entries, Dinodes
  <2>4. /\ icache' \in [Inums -> Entries] /\ icache'[i] = Record(icache[i].ref, Nobody, dinode[i])
        /\ \A k \in Inums \ {i} : icache'[k] = icache[k]
      BY <1>1, <1>3, <2>1, <2>3
  <2>5. Fresh(i)
    <3>1. Copy(i)' = dinode[i]
        BY <1>1, <2>4 DEF Copy, Record, Dinodes
    <3>2. QED
        BY <2>1, <2>4, <3>1 DEF Fresh, Record
  <2>6. icache'[i].ref = icache[i].ref /\ icache'[i].lock = icache[i].lock
      BY <2>2, <2>4 DEF Record
  <2>7. \A k \in Inums \ {i} : icache'[k].ref = icache[k].ref /\ icache'[k].lock = icache[k].lock /\ EntryKept(k)
      BY <2>4 DEF EntryKept, Copy
  <2>8. QED
      BY <2>4, <2>5, <2>6, <2>7
<1>4. QED
    BY <1>2, <1>3 DEF Looked

LEMMA LookKeeps ==
    ASSUME InodeInv, NEW p \in Procs, Looked, dinode' = dinode, bitmap' = bitmap, NamesTyped', Others(p),
           IsFrame(at'[p]), Shape(p)', at[p].pc # "iput_invalid",
           \A k \in Inums : k \in LockedAt(at'[p]) <=> k \in LockedAt(at[p]),
           \A k \in Inums : Slots(p, k)' = Slots(p, k)
    PROVE  InodeInv'
<1>1. /\ icache' \in [Inums -> Entries]
      /\ \A k \in Inums : /\ icache'[k].ref = icache[k].ref /\ icache'[k].lock = icache[k].lock
                          /\ EntryKept(k) \/ Fresh(k)
    BY LookEffect
<1>2. InodeTyped'
    BY <1>1 DEF InodeInv, InodeTyped, Others
<1>3. BlocksOwned'
    BY BlocksSame DEF InodeInv
<1>4. ASSUME NEW k \in Inums PROVE RefChange(p, k) /\ LockStep(p, k) /\ CopyOK(k)'
  <2>1. RefChange(p, k)
      BY <1>1 DEF RefChange
  <2>2. LockStep(p, k)
      BY <1>1, LockedLabel DEF LockStep, InodeInv, LocksHeld
  <2>3. CopyOK(k)'
      BY <1>1, CopyStep
  <2>4. QED
      BY <2>1, <2>2, <2>3
<1>5. QED
    BY <1>2, <1>3, <1>4, InodeStep

\* In namex(): ip is the inode it has come to, dp the inode link() links.
AtNamex(p, i) ==
    /\ at[p].pc = "namex" /\ at[p].ip = i /\ at[p].put = 0 /\ IsFrame(at[p]) /\ Shape(p)
    /\ at[p].dp # 0 <=> at[p].second
    /\ at[p].second => at[p].call.op = "link"
    /\ at[p].call.op \in PathOps /\ at[p].then # "chdir_set" /\ cwd[p] # 0
    /\ Label(at[p]) = "namex" /\ LockedAt(at[p]) = {}
    /\ icache[i].ref > 0

LEMMA NamexAt ==
    ASSUME InodeInv, NEW p \in Procs, at[p].pc = "namex"
    PROVE  \E i \in Inums : AtNamex(p, i)
<1>1. IsFrame(at[p]) /\ Shape(p)
    BY DEF InodeInv, InodeTyped
<1>2. Label(at[p]) = "namex" /\ LockedAt(at[p]) = {} /\ at[p].put = 0
    BY <1>1 DEF Shape, Label, Putting, LockedAt
<1>3. PICK i \in Inums : i = at[p].ip
    BY <1>1, <1>2 DEF IsFrame, Shape, WithIp
<1>4. Slots(p, i) > 0
    BY <1>3 DEF Slots, Bit
<1>5. icache[i].ref > 0
    BY <1>4, RefNat
<1>6. QED
    BY <1>1, <1>2, <1>3, <1>5 DEF AtNamex, Shape, WithDp, Linking

LEMMA FoundLabel ==
    ASSUME NEW p \in Procs, NEW i, AtNamex(p, i)
    PROVE  /\ Found(at[p]) \in {"link_new", "link_old", "create", "open", "unlink", "chdir"}
           /\ Found(at[p]) = "link_new" <=> at[p].second
           /\ Found(at[p]) = "link_old" => at[p].call.op = "link"
<1>1. at[p].call.op \in {"create", "mkdir", "unlink", "open", "link", "chdir"}
    BY DEF AtNamex, PathOps, ParentOps
<1>2. QED
    BY <1>1 DEF AtNamex, Found

\* The lookup is over: the call goes on, or ends with an iput().
LEMMA FoundKeeps ==
    ASSUME InodeInv, NEW p \in Procs, NEW i \in Inums, AtNamex(p, i), Looked, Goto(p, at[p], Found(at[p])),
           dinode' = dinode, dir' = dir, bitmap' = bitmap, gen' = gen, cwd' = cwd, ofile' = ofile
    PROVE  InodeInv'
<1>1. /\ Found(at[p]) \in {"link_new", "link_old", "create", "open", "unlink", "chdir"}
      /\ Found(at[p]) = "link_new" <=> at[p].second
      /\ Found(at[p]) = "link_old" => at[p].call.op = "link"
    BY FoundLabel
<1>2. InodeTyped /\ IsFrame(at[p])
    BY DEF InodeInv, AtNamex
<1>3. Moved(p, at[p], Found(at[p]), at[p].then, at[p].ip, at[p].dp, at[p].put)
    BY <1>1, <1>2, GotoMoves
<1>4. Label(at'[p]) = Found(at[p]) /\ LockedAt(at'[p]) = {}
    BY <1>1, <1>3 DEF Moved, Label, Putting, LockedAt
<1>5. Shape(p)'
    BY <1>1, <1>3, <1>4 DEF Moved, Shape, AtNamex, WithIp, WithDp, Linking, Putting
<1>6. Others(p) /\ IsFrame(at'[p]) /\ NamesTyped'
    BY <1>2, <1>3 DEF Moved, Others, InodeTyped, NamesTyped, Entered
<1>7. ASSUME NEW k \in Inums PROVE Slots(p, k)' = Slots(p, k)
    BY <1>1, <1>3, <1>4 DEF Slots, Moved, AtNamex
<1>8. QED
    BY <1>4, <1>5, <1>6, <1>7, LookKeeps DEF AtNamex

LEMMA FailedKeeps ==
    ASSUME InodeInv, NEW p \in Procs, NEW i \in Inums, AtNamex(p, i), Looked, PutIp(p, at[p], Failed(at[p])),
           dinode' = dinode, dir' = dir, bitmap' = bitmap, gen' = gen, cwd' = cwd, ofile' = ofile
    PROVE  InodeInv'
<1>1. Failed(at[p]) = IF at[p].second THEN "link_bad" ELSE "idle"
    BY DEF Failed
<1>2. InodeTyped /\ IsFrame(at[p]) /\ 0 \notin Inums
    BY InodeAssumption DEF InodeInv, AtNamex, InodeAssumption
<1>3. Moved(p, at[p], "iput", Failed(at[p]), 0, at[p].dp, i)
    BY <1>2, PutIpMoves DEF AtNamex
<1>4. Label(at'[p]) = Failed(at[p]) /\ LockedAt(at'[p]) = {}
    BY <1>1, <1>3 DEF Moved, Label, Putting, LockedAt
<1>5. Shape(p)'
    BY <1>1, <1>2, <1>3, <1>4 DEF Moved, Shape, AtNamex, WithIp, WithDp, Linking, Putting
<1>6. Others(p) /\ IsFrame(at'[p]) /\ NamesTyped'
    BY <1>2, <1>3 DEF Moved, Others, InodeTyped, NamesTyped, Entered
<1>7. ASSUME NEW k \in Inums PROVE Slots(p, k)' = Slots(p, k)
    BY <1>1, <1>2, <1>3, <1>4 DEF Slots, Moved, AtNamex, Bit
<1>8. QED
    BY <1>4, <1>5, <1>6, <1>7, LookKeeps DEF AtNamex

LEMMA NamexEndKeeps == ASSUME InodeInv, NEW p \in Procs, namex_end(p) PROVE InodeInv'
<1>1. /\ at[p].pc = "namex" /\ Looked
      /\ dinode' = dinode /\ dir' = dir /\ bitmap' = bitmap /\ gen' = gen /\ cwd' = cwd /\ ofile' = ofile
      /\ PutIp(p, at[p], Failed(at[p])) \/ Goto(p, at[p], Found(at[p]))
    BY DEF namex_end, disk, Looked
<1>2. PICK i \in Inums : AtNamex(p, i)
    BY <1>1, NamexAt
<1>3. QED
    BY <1>1, <1>2, FoundKeeps, FailedKeeps

LEMMA NamexKeeps == ASSUME InodeInv, NEW p \in Procs, namex(p) PROVE InodeInv'
<1>1. /\ at[p].pc = "namex" /\ ilock(at[p].ip)
      /\ dinode' = dinode /\ dir' = dir /\ bitmap' = bitmap /\ gen' = gen /\ cwd' = cwd /\ ofile' = ofile
    BY DEF namex, disk
<1>2. PICK i \in Inums : AtNamex(p, i)
    BY <1>1, NamexAt
<1>3. at[p].ip = i /\ ilock(i) /\ icache[i].ref > 0
    BY <1>1, <1>2 DEF AtNamex
<1>4. CASE icache' = [icache EXCEPT ![i] = Loaded(i)] /\ Goto(p, at[p], Found(at[p]))
    BY <1>1, <1>2, <1>3, <1>4, FoundKeeps DEF Looked
<1>5. CASE icache' = [icache EXCEPT ![i] = Loaded(i)] /\ PutIp(p, at[p], Failed(at[p]))
    BY <1>1, <1>2, <1>3, <1>5, FailedKeeps DEF Looked
<1>6. ASSUME NEW h, NEW v, NEW j \in Inums, icache' = iget([icache EXCEPT ![i] = Loaded(i)], j),
             PutThen(p, [at[p] EXCEPT !.ip = j, !.rest = h, !.stray = v], i, "namex")
      PROVE  InodeInv'
  <2>1. InodeTyped /\ IsFrame(at[p]) /\ 0 \notin Inums /\ BlocksOwned'
      BY <1>1, <1>2, InodeAssumption, BlocksSame DEF InodeInv, AtNamex, InodeAssumption
  <2>2. Moved(p, at[p], "iput", "namex", j, at[p].dp, i)
    <3> DEFINE b == [at[p] EXCEPT !.ip = j, !.rest = h, !.stray = v]
    <3>1. IsFrame(b) /\ b = [pc |-> at[p].pc, call |-> at[p].call, rest |-> h, second |-> at[p].second,
                             ip |-> j, dp |-> at[p].dp, put |-> at[p].put, then |-> at[p].then, stray |-> v]
        BY <2>1, FrameTurn
    <3> HIDE DEF b
    <3>2. Moved(p, b, "iput", "namex", b.ip, b.dp, i)
      <4>1. PutThen(p, b, i, "namex")
          BY <1>6 DEF b
      <4>2. QED
          BY <2>1, <3>1, <4>1, PutMoves
    <3>3. QED
        BY <3>1, <3>2 DEF Moved
  <2>3. Others(p)
      BY <1>1, <2>2 DEF Moved, Others
  <2>4. Label(at'[p]) = "namex" /\ LockedAt(at'[p]) = {}
      BY <2>2 DEF Moved, Label, Putting, LockedAt
  <2>5. Shape(p)'
      BY <1>1, <1>2, <2>1, <2>2, <2>4 DEF Moved, Shape, AtNamex, WithIp, WithDp, Linking, Putting
  <2>6. Loaded(i) = Record(icache[i].ref, Nobody, dinode[i]) /\ dinode[i].type # "free" /\ icache[i].lock = Nobody
      BY <1>3, LoadedRecord DEF ilock
  <2>7. Loaded(i) \in Entries /\ Loaded(i).ref = icache[i].ref /\ Loaded(i).lock = Nobody /\ Loaded(i).valid
        /\ [type |-> Loaded(i).type, nlink |-> Loaded(i).nlink, blks |-> Loaded(i).blks] = dinode[i]
      BY <2>1, <2>6 DEF Record, Entries, Dinodes, InodeTyped
  <2>8. /\ icache' \in [Inums -> Entries]
        /\ \A k \in Inums : icache'[k].ref = icache[k].ref + Bit(k = j)
        /\ icache'[i].lock = Nobody /\ icache'[i].valid /\ Copy(i)' = dinode[i]
        /\ \A k \in Inums \ {i} :
              /\ icache'[k].lock = icache[k].lock
              /\ \/ icache'[k].valid = icache[k].valid /\ Copy(k)' = Copy(k)
                    /\ (icache'[k].ref > 0 => icache[k].ref > 0)
                 \/ k = j /\ icache[k].ref = 0 /\ ~icache'[k].valid /\ icache'[k].lock = Nobody
    <3>0. PICK u \in Entries : u = Loaded(i)
        BY <2>7
    <3>1. u.ref = icache[i].ref /\ u.lock = Nobody /\ u.valid
          /\ [type |-> u.type, nlink |-> u.nlink, blks |-> u.blks] = dinode[i]
          /\ icache' = iget([icache EXCEPT ![i] = u], j)
        BY <1>6, <2>7, <3>0
    <3>2. Gotten(i, u, j)
        BY <1>3, <3>1, HeldIget
    <3>3. QED
        BY <3>0, <3>1, <3>2 DEF Gotten
  <2>9. InodeTyped'
      BY <1>1, <2>1, <2>2, <2>8 DEF InodeTyped, NamesTyped, Moved, Entered
  <2>10. ASSUME NEW k \in Inums PROVE RefChange(p, k) /\ LockStep(p, k) /\ CopyOK(k)'
    <3>1. RefChange(p, k)
      <4>1. icache[k].ref \in Int
          BY <2>1 DEF InodeTyped, Entries
      <4>2. QED
          BY <1>1, <1>2, <2>1, <2>2, <2>4, <2>8, <4>1 DEF RefChange, Slots, Moved, Bit, AtNamex
    <3>2. LockStep(p, k)
        BY <1>2, <2>4, <2>6, <2>8, LockedLabel DEF LockStep, InodeInv, LocksHeld, AtNamex
    <3>3. EntryKept(k) \/ Dropped(k) \/ Fresh(k)
        BY <1>1, <2>6, <2>8 DEF EntryKept, Dropped, Fresh
    <3>4. QED
        BY <1>2, <2>3, <3>1, <3>2, <3>3, CopyStep DEF AtNamex
  <2>11. QED
      BY <2>1, <2>3, <2>5, <2>9, <2>10, InodeStep
<1>7. QED
  <2>1. \A n \in DOMAIN dir[i] : dir[i][n] \in Inums
      BY DEF InodeInv, InodeTyped, NamesTyped, Entered
  <2>2. QED
      BY <1>3, <1>4, <1>5, <1>6, <2>1 DEF namex

-----------------------------------------------------------------------------
(* Entries with some fields changed.                                       *)

\* d with other links and blocks.
Written(d, n, s) == [type |-> d.type, nlink |-> n, blks |-> s]

\* An entry with other fields.
Relinked(a, b, n, s) == [a EXCEPT !.lock = b, !.nlink = n, !.blks = s]
LinkedAnd(a, b, n) == [a EXCEPT !.lock = b, !.nlink = n]
LinkedThen(a, n, b) == [a EXCEPT !.nlink = n, !.lock = b]

LEMMA RecordLock ==
    ASSUME NEW a, NEW h, NEW k, NEW d, NEW b, a = Record(h, k, d)
    PROVE  [a EXCEPT !.lock = b] = Record(h, b, d)
<1>1. a.ref = h /\ a.valid = TRUE /\ a.lock = k /\ a.type = d.type /\ a.nlink = d.nlink /\ a.blks = d.blks
    BY DEF Record
<1>2. a = [ref |-> a.ref, valid |-> a.valid, lock |-> a.lock, type |-> a.type, nlink |-> a.nlink, blks |-> a.blks]
    BY <1>1 DEF Record
<1>3. [a EXCEPT !.lock = b] =
         [ref |-> a.ref, valid |-> a.valid, lock |-> b, type |-> a.type, nlink |-> a.nlink, blks |-> a.blks]
    BY <1>2
<1>4. QED
    BY <1>1, <1>3 DEF Record, Written

LEMMA RecordLinks ==
    ASSUME NEW a, NEW h, NEW k, NEW d, NEW n, a = Record(h, k, d)
    PROVE  [a EXCEPT !.nlink = n] = Record(h, k, Written(d, n, d.blks))
<1>1. a.ref = h /\ a.valid = TRUE /\ a.lock = k /\ a.type = d.type /\ a.nlink = d.nlink /\ a.blks = d.blks
    BY DEF Record
<1>2. a = [ref |-> a.ref, valid |-> a.valid, lock |-> a.lock, type |-> a.type, nlink |-> a.nlink, blks |-> a.blks]
    BY <1>1 DEF Record
<1>3. [a EXCEPT !.nlink = n] =
         [ref |-> a.ref, valid |-> a.valid, lock |-> a.lock, type |-> a.type, nlink |-> n, blks |-> a.blks]
    BY <1>2
<1>4. QED
    BY <1>1, <1>3 DEF Record, Written

LEMMA RecordBlks ==
    ASSUME NEW a, NEW h, NEW k, NEW d, NEW s, a = Record(h, k, d)
    PROVE  [a EXCEPT !.blks = s] = Record(h, k, Written(d, d.nlink, s))
<1>1. a.ref = h /\ a.valid = TRUE /\ a.lock = k /\ a.type = d.type /\ a.nlink = d.nlink /\ a.blks = d.blks
    BY DEF Record
<1>2. a = [ref |-> a.ref, valid |-> a.valid, lock |-> a.lock, type |-> a.type, nlink |-> a.nlink, blks |-> a.blks]
    BY <1>1 DEF Record
<1>3. [a EXCEPT !.blks = s] =
         [ref |-> a.ref, valid |-> a.valid, lock |-> a.lock, type |-> a.type, nlink |-> a.nlink, blks |-> s]
    BY <1>2
<1>4. QED
    BY <1>1, <1>3 DEF Record, Written

LEMMA RecordLinksLock ==
    ASSUME NEW a, NEW h, NEW k, NEW d, NEW n, NEW b, a = Record(h, k, d)
    PROVE  /\ LinkedThen(a, n, b) = Record(h, b, Written(d, n, d.blks))
           /\ LinkedAnd(a, b, n) = Record(h, b, Written(d, n, d.blks))
<1> DEFINE x == [a EXCEPT !.nlink = n]
           y == [a EXCEPT !.lock = b]
<1>1. x = Record(h, k, Written(d, n, d.blks)) /\ y = Record(h, b, d)
    BY RecordLinks, RecordLock
<1> HIDE DEF x, y
<1>2. [x EXCEPT !.lock = b] = Record(h, b, Written(d, n, d.blks))
    BY <1>1, RecordLock
<1>3. [y EXCEPT !.nlink = n] = Record(h, b, Written(d, n, d.blks))
    BY <1>1, RecordLinks
<1>4. QED
    BY <1>2, <1>3 DEF x, y, LinkedThen, LinkedAnd

LEMMA RecordAll ==
    ASSUME NEW a, NEW h, NEW k, NEW d, NEW b, NEW n, NEW s, a = Record(h, k, d)
    PROVE  Relinked(a, b, n, s) = Record(h, b, Written(d, n, s))
<1> DEFINE x == [a EXCEPT !.lock = b]
<1>1. x = Record(h, b, d)
    BY RecordLock
<1> HIDE DEF x
<1> DEFINE y == [x EXCEPT !.nlink = n]
<1>2. y = Record(h, b, Written(d, n, d.blks))
    BY <1>1, RecordLinks
<1> HIDE DEF y
<1>3. [y EXCEPT !.blks = s] = Record(h, b, Written(Written(d, n, d.blks), Written(d, n, d.blks).nlink, s))
    BY <1>2, RecordBlks
<1>4. Written(Written(d, n, d.blks), Written(d, n, d.blks).nlink, s) = Written(d, n, s)
    BY DEF Written
<1>5. QED
    BY <1>3, <1>4 DEF x, y, Relinked

\* What iupdate() writes.
LEMMA IupdateRecord ==
    ASSUME NEW dn, NEW i, NEW h, NEW k, NEW d \in Dinodes
    PROVE  iupdate(dn, Record(h, k, d), i) = [dn EXCEPT ![i] = d]
BY DEF iupdate, Record, Dinodes

LEMMA WrittenOK ==
    ASSUME NEW d \in Dinodes, NEW n \in Int, NEW s \in SUBSET Blocks
    PROVE  /\ Written(d, n, s) \in Dinodes /\ Written(d, n, s).type = d.type
           /\ Written(d, n, s).nlink = n /\ Written(d, n, s).blks = s
           /\ Written(d, d.nlink, d.blks) = d
BY DEF Written, Dinodes

-----------------------------------------------------------------------------
(* Steps on one inode.                                                     *)

LEMMA EntryEffect ==
    ASSUME NEW i \in Inums, NEW h \in Int, NEW k \in Procs \cup {Nobody}, NEW d \in Dinodes, d.type # "free"
    PROVE  /\ Record(h, k, d) \in Entries /\ Record(h, k, d).ref = h /\ Record(h, k, d).lock = k
           /\ icache'[i] = Record(h, k, d) /\ dinode'[i] = d => Fresh(i)
<1>1. Record(h, k, d) \in Entries /\ Record(h, k, d).ref = h /\ Record(h, k, d).lock = k
    BY DEF Record, Entries, Dinodes
<1>2. ASSUME icache'[i] = Record(h, k, d), dinode'[i] = d PROVE Fresh(i)
  <2>1. Copy(i)' = [type |-> d.type, nlink |-> d.nlink, blks |-> d.blks] /\ icache'[i].valid
      BY <1>2 DEF Copy, Record
  <2>2. [type |-> d.type, nlink |-> d.nlink, blks |-> d.blks] = d
      BY DEF Dinodes
  <2>3. QED
      BY <1>2, <2>1, <2>2 DEF Fresh
<1>3. QED
    BY <1>1, <1>2

\* p locks, unlocks or writes inode i, which nobody else has locked.
LEMMA EntryWriteKeeps ==
    ASSUME InodeInv, NEW p \in Procs, NEW i \in Inums, NEW k \in {p, Nobody}, NEW d \in Dinodes, d.type # "free",
           icache[i].lock \in {p, Nobody},
           icache' = [icache EXCEPT ![i] = Record(icache[i].ref, k, d)], dinode' = [dinode EXCEPT ![i] = d],
           bitmap' \subseteq Blocks, BlocksOwned', NamesTyped', Others(p), IsFrame(at'[p]), Shape(p)',
           at[p].pc # "iput_invalid", \A j \in Inums : Slots(p, j)' = Slots(p, j),
           i \in LockedAt(at'[p]) <=> k = p,
           \A j \in Inums \ {i} : j \in LockedAt(at'[p]) <=> j \in LockedAt(at[p])
    PROVE  InodeInv'
<1>1. icache \in [Inums -> Entries] /\ dinode \in [Inums -> Dinodes] /\ icache[i].ref \in Int
    BY DEF InodeInv, InodeTyped, Entries
<1>2. /\ Record(icache[i].ref, k, d) \in Entries /\ Record(icache[i].ref, k, d).ref = icache[i].ref
      /\ Record(icache[i].ref, k, d).lock = k
      /\ icache'[i] = Record(icache[i].ref, k, d) /\ dinode'[i] = d => Fresh(i)
  <2>1. PICK h \in Int, l \in Procs \cup {Nobody} : h = icache[i].ref /\ l = k
      BY <1>1
  <2>2. /\ Record(h, l, d) \in Entries /\ Record(h, l, d).ref = h /\ Record(h, l, d).lock = l
        /\ icache'[i] = Record(h, l, d) /\ dinode'[i] = d => Fresh(i)
      BY EntryEffect
  <2>3. QED
      BY <2>1, <2>2
<1>3. /\ icache' \in [Inums -> Entries] /\ dinode' \in [Inums -> Dinodes]
      /\ icache'[i].ref = icache[i].ref /\ icache'[i].lock = k /\ Fresh(i)
      /\ \A j \in Inums \ {i} : icache'[j] = icache[j] /\ dinode'[j] = dinode[j]
    BY <1>1, <1>2
<1>4. InodeTyped'
    BY <1>3 DEF InodeInv, InodeTyped, Others
<1>5. ASSUME NEW j \in Inums PROVE RefChange(p, j) /\ LockStep(p, j) /\ CopyOK(j)'
  <2>1. RefChange(p, j)
      BY <1>3 DEF RefChange
  <2>2. icache[j].lock = p <=> j \in LockedAt(at[p])
      BY LockedLabel DEF InodeInv, LocksHeld
  <2>3. LockStep(p, j)
      BY <1>3, <2>2, InodeAssumption DEF LockStep, InodeAssumption
  <2>4. EntryKept(j) \/ Fresh(j)
      BY <1>3 DEF EntryKept, Copy
  <2>5. CopyOK(j)'
      BY <2>4, CopyStep
  <2>6. QED
      BY <2>1, <2>3, <2>5
<1>6. QED
    BY <1>4, <1>5, InodeStep

\* Where ip is an inode that the call is to lock.
AtIp(p, i, l) ==
    /\ at[p].pc = l /\ at[p].ip = i /\ at[p].put = 0 /\ IsFrame(at[p]) /\ Shape(p) /\ Label(at[p]) = l
    /\ at[p].dp # 0 <=> l \in WithDp
    /\ at[p].call.op \in PathOps /\ (at[p].then = "chdir_set" => l = "chdir_set") /\ cwd[p] # 0
    /\ icache[i].ref > 0 /\ 0 \notin Inums

LEMMA IpAt ==
    ASSUME InodeInv, NEW p \in Procs, NEW l, at[p].pc = l, l \in WithIp, l # "namex"
    PROVE  \E i \in Inums : AtIp(p, i, l)
<1>1. IsFrame(at[p]) /\ Shape(p)
    BY DEF InodeInv, InodeTyped
<1>2. Label(at[p]) = l /\ at[p].put = 0
    BY <1>1 DEF Shape, Label, Putting, WithIp
<1>3. PICK i \in Inums : i = at[p].ip
    BY <1>1, <1>2 DEF IsFrame, Shape
<1>4. Slots(p, i) > 0
    BY <1>3 DEF Slots, Bit
<1>5. icache[i].ref > 0
    BY <1>4, RefNat
<1>6. QED
    BY <1>1, <1>2, <1>3, <1>5, InodeAssumption DEF AtIp, Shape, InodeAssumption, WithIp

\* A call ends with iput(ip), or leaves the reference to the open file.
Ended(p) ==
    /\ Others(p) /\ NamesTyped' /\ IsFrame(at'[p]) /\ Shape(p)' /\ LockedAt(at'[p]) = {}
    /\ \A k \in Inums : Slots(p, k)' = Slots(p, k)

LEMMA EndMoves ==
    ASSUME InodeInv, NEW p \in Procs, NEW i \in Inums, NEW l, AtIp(p, i, l), l \notin WithDp, l # "chdir_set",
           dir' = dir, gen' = gen, cwd' = cwd,
           (PutIp(p, at[p], "idle") /\ ofile' = ofile) \/ (\E u : Opened(p, at[p], u))
    PROVE  Ended(p)
<1>1. InodeTyped /\ IsFrame(at[p]) /\ 0 \notin Inums /\ at[p].dp = 0
    BY DEF InodeInv, AtIp
<1>2. CASE PutIp(p, at[p], "idle") /\ ofile' = ofile
  <2>1. Moved(p, at[p], "iput", "idle", 0, 0, i)
      BY <1>1, <1>2, PutIpMoves DEF AtIp
  <2>2. Label(at'[p]) = "idle" /\ LockedAt(at'[p]) = {}
      BY <2>1 DEF Moved, Label, Putting, LockedAt
  <2>3. Shape(p)'
      BY <1>1, <2>1, <2>2 DEF Moved, Shape, AtIp, WithIp, WithDp, Linking, Putting
  <2>4. Others(p) /\ IsFrame(at'[p]) /\ NamesTyped'
      BY <1>1, <1>2, <2>1 DEF Moved, Others, InodeTyped, NamesTyped, Entered
  <2>5. ASSUME NEW k \in Inums PROVE Slots(p, k)' = Slots(p, k)
      BY <1>1, <1>2, <2>1, <2>2 DEF Slots, Moved, AtIp, Bit
  <2>6. QED
      BY <2>2, <2>3, <2>4, <2>5 DEF Ended
<1>3. CASE ofile[p].ip = 0 /\ Goto(p, at[p], "idle") /\ ofile' = [ofile EXCEPT ![p] = [ip |-> at[p].ip, gen |-> gen[at[p].ip]]]
  <2>1. Moved(p, Idle, "idle", "idle", 0, 0, 0)
      BY <1>1, <1>3, IdleMoves
  <2>2. Label(at'[p]) = "idle" /\ LockedAt(at'[p]) = {}
      BY <2>1 DEF Moved, Label, Putting, LockedAt
  <2>3. Shape(p)'
      BY <1>1, <2>1, <2>2 DEF Moved, Shape, WithIp, WithDp, Linking, Putting, Idle
  <2>4. ofile' = [ofile EXCEPT ![p] = [ip |-> i, gen |-> gen[i]]] /\ ofile' \in [Procs -> [ip : Inums \cup {0}, gen : Nat]]
      BY <1>1, <1>3 DEF AtIp, InodeTyped, NamesTyped
  <2>5. Others(p) /\ IsFrame(at'[p]) /\ NamesTyped'
      BY <1>1, <2>1, <2>4 DEF Moved, Others, InodeTyped, NamesTyped, Entered
  <2>6. ofile'[p].ip = i
      BY <1>1, <2>4 DEF InodeTyped, NamesTyped
  <2>7. ASSUME NEW k \in Inums PROVE Slots(p, k)' = Slots(p, k)
      BY <1>1, <1>3, <2>1, <2>2, <2>6 DEF Slots, Moved, AtIp, Bit
  <2>8. QED
      BY <2>2, <2>3, <2>5, <2>7 DEF Ended
<1>4. QED
    BY <1>2, <1>3 DEF Opened

-----------------------------------------------------------------------------
(* open() and create()                                                     *)

\* The same for one entry.
GotAt(k, i, u, j) ==
    /\ icache'[k].ref = icache[k].ref + Bit(k = j)
    /\ icache'[k].lock = IF k = i THEN u.lock ELSE icache[k].lock
    /\ k = i => icache'[k].valid = u.valid /\ Copy(k)' = [type |-> u.type, nlink |-> u.nlink, blks |-> u.blks]
    /\ k # i => \/ icache'[k].valid = icache[k].valid /\ Copy(k)' = Copy(k)
                   /\ (icache'[k].ref > 0 => icache[k].ref > 0)
                \/ k = j /\ icache[k].ref = 0 /\ ~icache'[k].valid /\ icache'[k].lock = Nobody

LEMMA GottenAt ==
    ASSUME NEW i \in Inums, NEW u \in Entries, NEW j \in Inums, Gotten(i, u, j), NEW k \in Inums
    PROVE  GotAt(k, i, u, j)
BY DEF Gotten, GotAt

LEMMA OpenKeeps == ASSUME InodeInv, NEW p \in Procs, open(p) PROVE InodeInv'
<1>1. at[p].pc = "open" /\ ilock(at[p].ip) /\ dir' = dir /\ gen' = gen /\ cwd' = cwd
    BY DEF open
<1>2. PICK i \in Inums : AtIp(p, i, "open")
    BY <1>1, IpAt DEF WithIp
<1>3. at[p].ip = i /\ ilock(i) /\ icache[i].ref > 0 /\ InodeTyped
    BY <1>1, <1>2 DEF AtIp, InodeInv
<1>4. Loaded(i) = Record(icache[i].ref, Nobody, dinode[i]) /\ dinode[i].type # "free" /\ icache[i].lock = Nobody
    BY <1>3, LoadedRecord DEF ilock
<1>5. Ended(p)
  <2>1. (PutIp(p, at[p], "idle") /\ ofile' = ofile) \/ (\E u : Opened(p, at[p], u))
      BY <1>3 DEF open
  <2>2. QED
      BY <1>1, <1>2, <2>1, EndMoves DEF WithDp, Linking
<1>6. LockedAt(at[p]) = {} /\ at[p].pc # "iput_invalid"
    BY <1>1, <1>2 DEF AtIp, LockedAt
<1>7. PICK t \in {Loaded(i), [Loaded(i) EXCEPT !.blks = {}]} :
        /\ icache' = [icache EXCEPT ![i] = t]
        /\ dinode' = IF t.blks = Loaded(i).blks THEN dinode ELSE iupdate(dinode, t, i)
        /\ bitmap' = bitmap \ (Loaded(i).blks \ t.blks)
    BY <1>3 DEF open, Truncated
<1>8. CASE t = Loaded(i)
  <2>1. Looked /\ dinode' = dinode /\ bitmap' = bitmap
      BY <1>3, <1>7, <1>8 DEF Looked
  <2>2. QED
      BY <1>5, <1>6, <2>1, LookKeeps DEF Ended
<1>9. CASE t = [Loaded(i) EXCEPT !.blks = {}]
  <2>1. dinode[i] \in Dinodes /\ dinode \in [Inums -> Dinodes] /\ bitmap \subseteq Blocks
      BY <1>3 DEF InodeTyped
  <2>2. PICK d \in Dinodes : d = Written(dinode[i], dinode[i].nlink, {})
      BY <2>1, WrittenOK DEF Dinodes
  <2>3. d.type = dinode[i].type /\ d.blks = {}
      BY <2>2 DEF Written
  <2>4. t = Record(icache[i].ref, Nobody, d) /\ Loaded(i).blks = dinode[i].blks /\ t.blks = {}
    <3>1. t = Record(icache[i].ref, Nobody, d)
      <4>1. PICK b, h, o : b = Loaded(i) /\ h = icache[i].ref /\ o = dinode[i]
          OBVIOUS
      <4>2. b = Record(h, Nobody, o)
          BY <1>4, <4>1
      <4>3. [b EXCEPT !.blks = {}] = Record(h, Nobody, Written(o, o.nlink, {}))
          BY <4>2, RecordBlks
      <4>4. QED
          BY <1>9, <2>2, <4>1, <4>3
    <3>2. QED
        BY <1>4, <2>3, <3>1 DEF Record
  <2>5. iupdate(dinode, t, i) = [dinode EXCEPT ![i] = d]
      BY <2>4, IupdateRecord
  <2>6. dinode' = [dinode EXCEPT ![i] = d]
    <3>1. CASE dinode[i].blks = {}
      <4>1. dinode[i] = d
          BY <2>1, <2>2, <3>1, WrittenOK DEF Dinodes
      <4>2. dinode' = dinode
          BY <1>7, <2>4, <3>1
      <4>3. QED
          BY <2>1, <4>1, <4>2
    <3>2. CASE dinode[i].blks # {}
        BY <1>7, <2>4, <2>5, <3>2
    <3>3. QED
        BY <3>1, <3>2
  <2>7. bitmap' = bitmap \ dinode[i].blks /\ bitmap' \subseteq Blocks
      BY <1>7, <2>1, <2>4
  <2>8. BlocksOwned'
      BY <2>1, <2>3, <2>6, <2>7, BlocksFreed DEF InodeInv
  <2>9. QED
      BY <1>4, <1>5, <1>6, <1>7, <2>3, <2>4, <2>6, <2>7, <2>8, EntryWriteKeeps, InodeAssumption DEF Ended, InodeAssumption
<1>10. QED
    BY <1>7, <1>8, <1>9

LEMMA CreateEndKeeps == ASSUME InodeInv, NEW p \in Procs, create_end(p) PROVE InodeInv'
<1>1. at[p].pc = "create_end" /\ dir' = dir /\ gen' = gen /\ cwd' = cwd /\ dinode' = dinode /\ bitmap' = bitmap
    BY DEF create_end, disk
<1>2. PICK i \in Inums : AtIp(p, i, "create_end")
    BY <1>1, IpAt DEF WithIp
<1>3. at[p].ip = i /\ icache[i].ref > 0 /\ InodeTyped /\ LockedAt(at[p]) = {i} /\ at[p].pc # "iput_invalid"
    BY <1>1, <1>2 DEF AtIp, InodeInv, LockedAt
<1>4. icache[i] = Record(icache[i].ref, p, dinode[i]) /\ dinode[i].type # "free" /\ icache[i].lock = p
    BY <1>3, HeldRecord, LockedLabel DEF InodeInv, LocksHeld
<1>5. Ended(p)
  <2>1. (PutIp(p, at[p], "idle") /\ ofile' = ofile) \/ (\E u : Opened(p, at[p], u))
      BY DEF create_end
  <2>2. QED
      BY <1>1, <1>2, <2>1, EndMoves DEF WithDp, Linking
<1>6. icache' = [icache EXCEPT ![i] = Record(icache[i].ref, Nobody, dinode[i])]
  <2>1. icache' = [icache EXCEPT ![i] = [icache[i] EXCEPT !.lock = Nobody]]
      BY <1>3 DEF create_end
  <2>2. [icache[i] EXCEPT !.lock = Nobody] = Record(icache[i].ref, Nobody, dinode[i])
      BY <1>4, RecordLock
  <2>3. QED
      BY <2>1, <2>2
<1>7. dinode' = [dinode EXCEPT ![i] = dinode[i]] /\ bitmap' \subseteq Blocks /\ BlocksOwned' /\ dinode[i] \in Dinodes
    BY <1>1, <1>3, BlocksSame DEF InodeInv, InodeTyped
<1>8. QED
    BY <1>3, <1>4, <1>5, <1>6, <1>7, EntryWriteKeeps, InodeAssumption DEF Ended, InodeAssumption

\* ip moves to another inode, and where it was becomes dp, or put.
LEMMA RefMoves ==
    ASSUME NEW p \in Procs, NEW k \in Inums, NEW j, NEW d, 0 \notin Inums, Others(p), cwd' = cwd, ofile' = ofile,
           Label(at[p]) # "chdir_set", Label(at'[p]) # "chdir_set", icache[k].ref \in Int,
           icache'[k].ref = icache[k].ref + Bit(k = j),
           at[p].ip = d, at'[p].ip = j,
           \/ at[p].put = 0 /\ at'[p].put = d /\ at'[p].dp = at[p].dp
           \/ at[p].dp = 0 /\ at'[p].dp = d /\ at'[p].put = at[p].put
    PROVE  RefChange(p, k)
BY DEF RefChange, Slots, Bit

\* The name is there: p goes on with its inode, and puts the parent.
LEMMA CreateFoundKeeps ==
    ASSUME InodeInv, NEW p \in Procs, NEW d \in Inums, AtIp(p, d, "create"), ilock(d), NEW v, NEW j \in Inums,
           icache' = iget([icache EXCEPT ![d] = Loaded(d)], j),
           PutThen(p, [at[p] EXCEPT !.ip = j, !.stray = v], d, "open"),
           dinode' = dinode, dir' = dir, bitmap' = bitmap, gen' = gen, cwd' = cwd, ofile' = ofile
    PROVE  InodeInv'
<1>1. /\ InodeTyped /\ IsFrame(at[p]) /\ at[p].ip = d /\ at[p].put = 0 /\ at[p].dp = 0 /\ icache[d].ref > 0
      /\ 0 \notin Inums /\ at[p].pc = "create" /\ Label(at[p]) = "create" /\ BlocksOwned'
    BY BlocksSame DEF AtIp, InodeInv, WithDp, Linking
<1>2. Moved(p, at[p], "iput", "open", j, 0, d)
  <2> DEFINE b == [at[p] EXCEPT !.ip = j, !.stray = v]
  <2>1. IsFrame(b) /\ b = [pc |-> at[p].pc, call |-> at[p].call, rest |-> at[p].rest, second |-> at[p].second,
                           ip |-> j, dp |-> at[p].dp, put |-> at[p].put, then |-> at[p].then, stray |-> v]
      BY <1>1, FrameFound
  <2>2. PutThen(p, b, d, "open")
      OBVIOUS
  <2> HIDE DEF b
  <2>3. Moved(p, b, "iput", "open", b.ip, b.dp, d)
      BY <1>1, <2>1, <2>2, PutMoves
  <2>4. QED
      BY <1>1, <2>1, <2>3 DEF Moved
<1>3. Others(p)
    BY <1>2 DEF Moved, Others
<1>4. Label(at'[p]) = "open" /\ LockedAt(at'[p]) = {} /\ LockedAt(at[p]) = {}
    BY <1>1, <1>2 DEF Moved, Label, Putting, LockedAt
<1>5. Shape(p)'
    BY <1>1, <1>2, <1>4 DEF Moved, Shape, AtIp, WithIp, WithDp, Linking, Putting
<1>6. Loaded(d) = Record(icache[d].ref, Nobody, dinode[d]) /\ dinode[d].type # "free" /\ icache[d].lock = Nobody
    BY <1>1, LoadedRecord DEF ilock
<1>7. PICK u \in Entries : u = Loaded(d) /\ u.ref = icache[d].ref /\ u.lock = Nobody /\ u.valid
                           /\ [type |-> u.type, nlink |-> u.nlink, blks |-> u.blks] = dinode[d]
    BY <1>1, <1>6 DEF Record, Entries, Dinodes, InodeTyped
<1>8. Gotten(d, u, j)
  <2>1. icache' = iget([icache EXCEPT ![d] = u], j)
      BY <1>7
  <2>2. QED
      BY <1>1, <1>7, <2>1, HeldIget
<1>9. InodeTyped'
    BY <1>1, <1>2, <1>8 DEF InodeTyped, NamesTyped, Moved, Entered, Gotten
<1>10. ASSUME NEW k \in Inums PROVE RefChange(p, k) /\ LockStep(p, k) /\ CopyOK(k)'
  <2>0. /\ icache'[k].ref = icache[k].ref + Bit(k = j) /\ icache[k].ref \in Int
        /\ icache'[k].lock = IF k = d THEN u.lock ELSE icache[k].lock
        /\ k = d => icache'[k].valid = u.valid /\ Copy(k)' = [type |-> u.type, nlink |-> u.nlink, blks |-> u.blks]
        /\ k # d => \/ icache'[k].valid = icache[k].valid /\ Copy(k)' = Copy(k)
                       /\ (icache'[k].ref > 0 => icache[k].ref > 0)
                    \/ k = j /\ icache[k].ref = 0 /\ ~icache'[k].valid /\ icache'[k].lock = Nobody
    <3>1. icache[k].ref \in Int
        BY <1>1 DEF InodeTyped, Entries
    <3>2. GotAt(k, d, u, j)
        BY <1>8, GottenAt
    <3>3. QED
        BY <3>1, <3>2 DEF GotAt
  <2>1. RefChange(p, k)
    <3>1. /\ Label(at[p]) # "chdir_set" /\ Label(at'[p]) # "chdir_set" /\ at[p].ip = d
          /\ at'[p].ip = j /\ at[p].put = 0 /\ at'[p].put = d /\ at'[p].dp = at[p].dp
        BY <1>1, <1>2, <1>4 DEF Moved
    <3>2. 0 \notin Inums /\ icache[k].ref \in Int /\ icache'[k].ref = icache[k].ref + Bit(k = at'[p].ip)
        BY <1>1, <2>0, <3>1
    <3>3. QED
        BY <1>3, <3>1, <3>2, RefMoves
  <2>2. LockStep(p, k)
    <3>1. icache'[k].lock = icache[k].lock
        BY <1>6, <1>7, <2>0
    <3>2. QED
        BY <1>4, <3>1, LockedLabel DEF LockStep, InodeInv, LocksHeld
  <2>3. EntryKept(k) \/ Dropped(k) \/ Fresh(k)
      BY <1>6, <1>7, <2>0 DEF EntryKept, Dropped, Fresh
  <2>4. QED
      BY <1>1, <1>3, <2>1, <2>2, <2>3, CopyStep
<1>11. QED
    BY <1>1, <1>3, <1>5, <1>9, <1>10, InodeStep

\* ialloc() gives an inode that is free on the disk.
LEMMA CreateAllocKeeps ==
    ASSUME InodeInv, NEW p \in Procs, NEW d \in Inums, AtIp(p, d, "create"), ilock(d),
           NEW i \in Inums, dinode[i].type = "free", NEW n \in Dinodes, n.type # "free", n.blks = {},
           dinode' = [dinode EXCEPT ![i] = n], gen' = [gen EXCEPT ![i] = gen[i] + 1],
           icache' = iget([icache EXCEPT ![d] = [Loaded(d) EXCEPT !.lock = p]], i),
           Goto(p, [at[p] EXCEPT !.dp = d, !.ip = i], "create_new"),
           dir' = dir, bitmap' = bitmap, cwd' = cwd, ofile' = ofile
    PROVE  InodeInv'
<1>1. /\ InodeTyped /\ IsFrame(at[p]) /\ at[p].ip = d /\ at[p].put = 0 /\ at[p].dp = 0 /\ icache[d].ref > 0
      /\ 0 \notin Inums /\ at[p].pc = "create" /\ Label(at[p]) = "create" /\ at[p].then # "chdir_set"
    BY DEF AtIp, InodeInv, WithDp, Linking
<1>2. Moved(p, at[p], "create_new", at[p].then, i, d, 0)
  <2> DEFINE b == [at[p] EXCEPT !.dp = d, !.ip = i]
  <2>1. IsFrame(b) /\ b = [pc |-> at[p].pc, call |-> at[p].call, rest |-> at[p].rest, second |-> at[p].second,
                           ip |-> i, dp |-> d, put |-> at[p].put, then |-> at[p].then, stray |-> at[p].stray]
      BY <1>1, FrameBoth
  <2>2. Goto(p, b, "create_new")
      OBVIOUS
  <2> HIDE DEF b
  <2>3. Moved(p, b, "create_new", b.then, b.ip, b.dp, b.put)
      BY <1>1, <2>1, <2>2, GotoMoves
  <2>4. QED
      BY <1>1, <2>1, <2>3 DEF Moved
<1>3. Others(p)
    BY <1>2 DEF Moved, Others
<1>4. Label(at'[p]) = "create_new" /\ LockedAt(at'[p]) = {d} /\ LockedAt(at[p]) = {}
    BY <1>1, <1>2 DEF Moved, Label, Putting, LockedAt
<1>5. Shape(p)'
    BY <1>1, <1>2, <1>4 DEF Moved, Shape, AtIp, WithIp, WithDp, Linking, Putting
<1>6. /\ Loaded(d) = Record(icache[d].ref, Nobody, dinode[d]) /\ dinode[d].type # "free"
      /\ icache[d].lock = Nobody /\ dinode[d] \in Dinodes /\ d # i
    BY <1>1, LoadedRecord DEF ilock, InodeTyped
<1>7. [Loaded(d) EXCEPT !.lock = p] = Record(icache[d].ref, p, dinode[d])
    BY <1>6, RecordLock
<1>8. PICK u \in Entries : u = [Loaded(d) EXCEPT !.lock = p] /\ u.ref = icache[d].ref /\ u.lock = p /\ u.valid
                           /\ [type |-> u.type, nlink |-> u.nlink, blks |-> u.blks] = dinode[d]
  <2>1. dinode[d] \in Dinodes /\ icache[d].ref \in Int
      BY <1>1 DEF InodeTyped, Entries
  <2>2. PICK h \in Int, o \in Dinodes : h = icache[d].ref /\ o = dinode[d]
      BY <2>1
  <2>3. PICK u \in Entries : u = Record(h, p, o)
      BY DEF Record, Entries, Dinodes
  <2>4. /\ u.ref = h /\ u.lock = p /\ u.valid
        /\ [type |-> u.type, nlink |-> u.nlink, blks |-> u.blks] = o
      BY <2>3 DEF Record, Dinodes
  <2>5. QED
      BY <1>7, <2>2, <2>3, <2>4
<1>9. Gotten(d, u, i)
  <2>1. icache' = iget([icache EXCEPT ![d] = u], i)
      BY <1>8
  <2>2. QED
      BY <1>1, <1>8, <2>1, HeldIget
<1>10. /\ dinode' \in [Inums -> Dinodes] /\ dinode'[i] = n /\ \A k \in Inums \ {i} : dinode'[k] = dinode[k]
       /\ gen' \in [Inums -> Nat]
    BY <1>1 DEF InodeTyped, NamesTyped
<1>11. InodeTyped'
    BY <1>1, <1>2, <1>9, <1>10 DEF InodeTyped, NamesTyped, Moved, Entered, Gotten
<1>12. BlocksOwned'
  <2>1. dinode[i].blks = {}
      BY DEF InodeInv, BlocksOwned
  <2>2. QED
      BY <1>10, <2>1, BlocksSame DEF InodeInv
<1>13. ASSUME NEW k \in Inums PROVE RefChange(p, k) /\ LockStep(p, k) /\ CopyOK(k)'
  <2>0. /\ icache'[k].ref = icache[k].ref + Bit(k = i) /\ icache[k].ref \in Int
        /\ icache'[k].lock = IF k = d THEN u.lock ELSE icache[k].lock
        /\ k = d => icache'[k].valid = u.valid /\ Copy(k)' = [type |-> u.type, nlink |-> u.nlink, blks |-> u.blks]
        /\ k # d => \/ icache'[k].valid = icache[k].valid /\ Copy(k)' = Copy(k)
                       /\ (icache'[k].ref > 0 => icache[k].ref > 0)
                    \/ k = i /\ icache[k].ref = 0 /\ ~icache'[k].valid /\ icache'[k].lock = Nobody
    <3>1. icache[k].ref \in Int
        BY <1>1 DEF InodeTyped, Entries
    <3>2. GotAt(k, d, u, i)
        BY <1>9, GottenAt
    <3>3. QED
        BY <3>1, <3>2 DEF GotAt
  <2>1. RefChange(p, k)
    <3>1. /\ Label(at[p]) # "chdir_set" /\ Label(at'[p]) # "chdir_set" /\ at[p].ip = d
          /\ at'[p].ip = i /\ at[p].dp = 0 /\ at'[p].dp = d /\ at'[p].put = at[p].put
        BY <1>1, <1>2, <1>4 DEF Moved
    <3>2. 0 \notin Inums /\ icache[k].ref \in Int /\ icache'[k].ref = icache[k].ref + Bit(k = at'[p].ip)
        BY <1>1, <2>0, <3>1
    <3>3. QED
        BY <1>3, <3>1, <3>2, RefMoves
  <2>2. LockStep(p, k)
    <3>1. icache[k].lock # p
        BY <1>4, LockedLabel DEF InodeInv, LocksHeld
    <3>2. QED
        BY <1>4, <1>6, <1>8, <2>0, <3>1 DEF LockStep
  <2>3. CASE k # i
    <3>1. EntryKept(k) \/ Dropped(k) \/ Fresh(k)
        BY <1>6, <1>8, <1>10, <2>0, <2>3 DEF EntryKept, Dropped, Fresh
    <3>2. QED
        BY <1>1, <1>3, <2>1, <2>2, <3>1, CopyStep
  <2>4. CASE k = i
    <3>1. CASE Freeing(i)
      <4>1. Freeing(i)'
          BY <1>1, <1>3, <3>1 DEF Freeing, Others
      <4>2. icache'[i].lock # Nobody => icache'[i].valid
          BY <1>6, <1>9 DEF Gotten, InodeInv, CopyOK
      <4>3. QED
          BY <2>1, <2>2, <2>4, <4>1, <4>2 DEF CopyOK
    <3>2. CASE ~Freeing(i)
      <4>1. ~icache'[i].valid /\ icache'[i].lock = Nobody
        <5>1. CASE icache[i].ref = 0
          <6>1. icache'[i].lock = Nobody /\ icache[i].lock = Nobody
              BY <1>6, <2>0, <2>4, <5>1, LockedRef
          <6>2. icache'[i].ref = 1
              BY <2>0, <2>4, <5>1 DEF Bit
          <6>3. QED
              BY <1>6, <2>0, <2>4, <5>1, <6>1, <6>2
        <5>2. CASE icache[i].ref > 0
          <6>1. ~icache[i].valid /\ icache[i].lock = Nobody
              BY <3>2, <5>2 DEF InodeInv, CopyOK
          <6>2. QED
              BY <1>6, <2>0, <2>4, <6>1
        <5>3. QED
            BY <5>1, <5>2, RefNat
      <4>2. QED
          BY <2>1, <2>2, <2>4, <4>1 DEF CopyOK
    <3>3. QED
        BY <3>1, <3>2
  <2>5. QED
      BY <2>3, <2>4
<1>14. QED
    BY <1>3, <1>5, <1>11, <1>12, <1>13, InodeStep

LEMMA CreateKeeps == ASSUME InodeInv, NEW p \in Procs, create(p) PROVE InodeInv'
<1>1. /\ at[p].pc = "create" /\ ilock(at[p].ip)
      /\ dir' = dir /\ bitmap' = bitmap /\ cwd' = cwd /\ ofile' = ofile
    BY DEF create
<1>2. PICK d \in Inums : AtIp(p, d, "create")
    BY <1>1, IpAt DEF WithIp
<1>3. at[p].ip = d /\ ilock(d) /\ \A n \in DOMAIN dir[d] : dir[d][n] \in Inums
    BY <1>1, <1>2 DEF AtIp, InodeInv, InodeTyped, NamesTyped, Entered
<1>4. CASE LastName(at[p]) \in DOMAIN dir[d]
  <2>1. dinode' = dinode /\ gen' = gen
      BY <1>3, <1>4 DEF create
  <2>2. ASSUME NEW v, NEW j \in Inums, icache' = iget([icache EXCEPT ![d] = Loaded(d)], j),
               PutThen(p, [at[p] EXCEPT !.ip = j, !.stray = v], d, "open")
        PROVE  InodeInv'
      BY <1>1, <1>2, <1>3, <2>1, <2>2, CreateFoundKeeps
  <2>3. QED
      BY <1>3, <1>4, <2>2 DEF create
<1>5. CASE LastName(at[p]) \notin DOMAIN dir[d]
  <2> DEFINE S == {j \in Inums : dinode[j].type = "free"}
  <2>1. Least(S) \in S
    <3>1. S \subseteq Nat /\ S # {}
        BY <1>3, <1>5, InodeAssumption DEF create, InodeAssumption
    <3> HIDE DEF S
    <3>2. QED
        BY <3>1, LeastIn
  <2>2. PICK i \in Inums, t \in {"dir", "file"} :
          /\ dinode[i].type = "free" /\ dinode' = [dinode EXCEPT ![i] = [NoDinode EXCEPT !.type = t]]
          /\ gen' = [gen EXCEPT ![i] = gen[i] + 1]
          /\ icache' = iget([icache EXCEPT ![d] = [Loaded(d) EXCEPT !.lock = p]], i)
          /\ Goto(p, [at[p] EXCEPT !.dp = d, !.ip = i], "create_new")
    <3>1. PICK i \in Inums : i = Least(S) /\ dinode[i].type = "free"
        BY <2>1
    <3>2. PICK t \in {"dir", "file"} : t = IF at[p].call.op = "mkdir" THEN "dir" ELSE "file"
        OBVIOUS
    <3>3. QED
        BY <1>3, <1>5, <3>1, <3>2 DEF create
  <2>3. PICK n \in Dinodes : n = [NoDinode EXCEPT !.type = t] /\ n.type # "free" /\ n.blks = {}
    <3>1. NoDinode \in Dinodes /\ NoDinode.blks = {}
        BY DEF NoDinode, Dinodes, Types
    <3>2. [NoDinode EXCEPT !.type = t] = [type |-> t, nlink |-> 0, blks |-> {}]
        BY DEF NoDinode
    <3>3. [type |-> t, nlink |-> 0, blks |-> {}] \in Dinodes
        BY DEF Dinodes, Types
    <3>4. QED
        BY <3>2, <3>3
  <2>4. QED
      BY <1>1, <1>2, <1>3, <2>2, <2>3, CreateAllocKeeps
<1>6. QED
    BY <1>4, <1>5

\* Two inodes change.
Pair(f, i, x, d, y) == [f EXCEPT ![i] = x, ![d] = y]

LEMMA PairDisk ==
    ASSUME dinode \in [Inums -> Dinodes], NEW i \in Inums, NEW d \in Inums, i # d, NEW x \in Dinodes, NEW y \in Dinodes
    PROVE  /\ Pair(dinode, i, x, d, y) \in [Inums -> Dinodes]
           /\ Pair(dinode, i, x, d, y)[i] = x /\ Pair(dinode, i, x, d, y)[d] = y
           /\ \A j \in Inums \ {i, d} : Pair(dinode, i, x, d, y)[j] = dinode[j]
BY DEF Pair

\* p goes on from one inode to another that it has locked: it writes both.
LEMMA PairKeeps ==
    ASSUME InodeInv, NEW p \in Procs, NEW i \in Inums, NEW d \in Inums, i # d,
           NEW nn \in Dinodes, nn.type # "free", NEW dn \in Dinodes, dn.type # "free",
           icache[i].lock = Nobody, icache[d].lock = p,
           icache' = Pair(icache, i, Record(icache[i].ref, p, nn), d, Record(icache[d].ref, Nobody, dn)),
           dinode' = Pair(dinode, i, nn, d, dn),
           bitmap' \subseteq Blocks, BlocksOwned', NamesTyped', Others(p), IsFrame(at'[p]), Shape(p)',
           at[p].pc # "iput_invalid", \A j \in Inums : Slots(p, j)' = Slots(p, j),
           LockedAt(at[p]) = {d}, LockedAt(at'[p]) = {i}
    PROVE  InodeInv'
<1>1. icache \in [Inums -> Entries] /\ dinode \in [Inums -> Dinodes]
      /\ icache[i].ref \in Int /\ icache[d].ref \in Int /\ p # Nobody
    BY InodeAssumption DEF InodeInv, InodeTyped, Entries, InodeAssumption
<1>2. PICK h \in Int, s \in Int : h = icache[i].ref /\ s = icache[d].ref
    BY <1>1
<1>3. /\ Record(h, p, nn) \in Entries /\ Record(h, p, nn).ref = h /\ Record(h, p, nn).lock = p
      /\ icache'[i] = Record(h, p, nn) /\ dinode'[i] = nn => Fresh(i)
    BY EntryEffect
<1>4. /\ Record(s, Nobody, dn) \in Entries /\ Record(s, Nobody, dn).ref = s /\ Record(s, Nobody, dn).lock = Nobody
      /\ icache'[d] = Record(s, Nobody, dn) /\ dinode'[d] = dn => Fresh(d)
  <2>1. PICK k \in Procs \cup {Nobody} : k = Nobody
      OBVIOUS
  <2>2. /\ Record(s, k, dn) \in Entries /\ Record(s, k, dn).ref = s /\ Record(s, k, dn).lock = k
        /\ icache'[d] = Record(s, k, dn) /\ dinode'[d] = dn => Fresh(d)
    <3>1. dn \in Dinodes /\ dn.type # "free"
        OBVIOUS
    <3>2. PICK u \in Dinodes : u = dn
        OBVIOUS
    <3>3. u.type # "free"
        BY <3>2
    <3>4. /\ Record(s, k, u) \in Entries /\ Record(s, k, u).ref = s /\ Record(s, k, u).lock = k
          /\ icache'[d] = Record(s, k, u) /\ dinode'[d] = u => Fresh(d)
        BY <3>3, EntryEffect
    <3>5. QED
        BY <3>2, <3>4
  <2>3. QED
      BY <2>1, <2>2
<1>5. /\ icache' \in [Inums -> Entries] /\ dinode' \in [Inums -> Dinodes]
      /\ icache'[i] = Record(h, p, nn) /\ icache'[d] = Record(s, Nobody, dn)
      /\ dinode'[i] = nn /\ dinode'[d] = dn
      /\ \A j \in Inums \ {i, d} : icache'[j] = icache[j] /\ dinode'[j] = dinode[j]
  <2>1. PICK x \in Entries, y \in Entries : x = Record(h, p, nn) /\ y = Record(s, Nobody, dn)
      BY <1>3, <1>4
  <2>2. icache' = Pair(icache, i, x, d, y) /\ dinode' = Pair(dinode, i, nn, d, dn)
      BY <1>2, <2>1
  <2>3. /\ Pair(icache, i, x, d, y) \in [Inums -> Entries]
        /\ Pair(icache, i, x, d, y)[i] = x /\ Pair(icache, i, x, d, y)[d] = y
        /\ \A j \in Inums \ {i, d} : Pair(icache, i, x, d, y)[j] = icache[j]
    <3>1. PICK f \in [Inums -> Entries] : f = icache
        BY <1>1
    <3>2. /\ Pair(f, i, x, d, y) \in [Inums -> Entries]
          /\ Pair(f, i, x, d, y)[i] = x /\ Pair(f, i, x, d, y)[d] = y
          /\ \A j \in Inums \ {i, d} : Pair(f, i, x, d, y)[j] = f[j]
        BY DEF Pair
    <3>3. QED
        BY <3>1, <3>2
  <2>4. /\ Pair(dinode, i, nn, d, dn) \in [Inums -> Dinodes]
        /\ Pair(dinode, i, nn, d, dn)[i] = nn /\ Pair(dinode, i, nn, d, dn)[d] = dn
        /\ \A j \in Inums \ {i, d} : Pair(dinode, i, nn, d, dn)[j] = dinode[j]
      BY <1>1, PairDisk
  <2>5. QED
      BY <2>1, <2>2, <2>3, <2>4
<1>6. /\ icache'[i].ref = icache[i].ref /\ icache'[i].lock = p /\ Fresh(i)
      /\ icache'[d].ref = icache[d].ref /\ icache'[d].lock = Nobody /\ Fresh(d)
    BY <1>2, <1>3, <1>4, <1>5
<1>7. InodeTyped'
    BY <1>5 DEF InodeInv, InodeTyped, Others
<1>8. ASSUME NEW j \in Inums PROVE RefChange(p, j) /\ LockStep(p, j) /\ CopyOK(j)'
  <2>1. RefChange(p, j)
      BY <1>5, <1>6 DEF RefChange
  <2>2. icache[j].lock = p <=> j = d
      BY LockedLabel DEF InodeInv, LocksHeld
  <2>3. LockStep(p, j)
      BY <1>1, <1>5, <1>6, <2>2 DEF LockStep
  <2>4. EntryKept(j) \/ Fresh(j)
      BY <1>5, <1>6 DEF EntryKept, Copy
  <2>5. CopyOK(j)'
      BY <2>4, CopyStep
  <2>6. QED
      BY <2>1, <2>3, <2>5
<1>9. QED
    BY <1>7, <1>8, InodeStep

\* Entries that a directory gets or loses.
LEMMA EntriesKept ==
    ASSUME NEW f, Entered(f), NEW x, NEW j \in Inums
    PROVE  Entered(Extend(f, x, j)) /\ Entered(Without(f, x))
BY DEF Entered, Extend, Without

LEMMA DirPair ==
    ASSUME NamesTyped, NEW i \in Inums, NEW d \in Inums, i # d, NEW f, Entered(f), NEW g, Entered(g),
           dir' = Pair(dir, i, f, d, g), cwd' = cwd, ofile' = ofile, gen' = gen
    PROVE  NamesTyped'
<1>1. dir = [j \in Inums |-> dir[j]] /\ \A j \in Inums : Entered(dir[j])
    BY DEF NamesTyped
<1>2. dir' = [j \in Inums |-> IF j = d THEN g ELSE IF j = i THEN f ELSE dir[j]]
    BY <1>1 DEF Pair
<1>3. dir' = [j \in Inums |-> dir'[j]] /\ \A j \in Inums : Entered(dir'[j])
    BY <1>1, <1>2
<1>4. QED
    BY <1>3 DEF NamesTyped, Entered

LEMMA DirOne ==
    ASSUME NamesTyped, NEW d \in Inums, NEW g, Entered(g),
           dir' = [dir EXCEPT ![d] = g], cwd' = cwd, ofile' = ofile, gen' = gen
    PROVE  NamesTyped'
<1>1. dir = [j \in Inums |-> dir[j]] /\ \A j \in Inums : Entered(dir[j])
    BY DEF NamesTyped
<1>2. dir' = [j \in Inums |-> IF j = d THEN g ELSE dir[j]]
    BY <1>1
<1>3. dir' = [j \in Inums |-> dir'[j]] /\ \A j \in Inums : Entered(dir'[j])
    BY <1>1, <1>2
<1>4. QED
    BY <1>3 DEF NamesTyped, Entered

\* Between two inodes: ip is to be locked, dp is.
LEMMA PairAt ==
    ASSUME InodeInv, NEW p \in Procs, NEW l \in {"create_new", "unlink_entry"}, at[p].pc = l, ilock(at[p].ip)
    PROVE  \E i \in Inums, d \in Inums :
              /\ AtIp(p, i, l) /\ at[p].dp = d /\ i # d /\ LockedAt(at[p]) = {d} /\ ilock(i)
              /\ icache[i].lock = Nobody /\ icache[d].lock = p
              /\ Loaded(i) = Record(icache[i].ref, Nobody, dinode[i]) /\ dinode[i].type # "free"
              /\ icache[d] = Record(icache[d].ref, p, dinode[d]) /\ dinode[d].type # "free"
<1>1. PICK i \in Inums : AtIp(p, i, l)
    BY IpAt DEF WithIp
<1>2. PICK d \in Inums : d = at[p].dp
    BY <1>1 DEF AtIp, IsFrame, WithDp
<1>3. LockedAt(at[p]) = {d} /\ at[p].ip = i /\ ilock(i) /\ icache[i].ref > 0
    BY <1>1, <1>2 DEF AtIp, LockedAt
<1>4. icache[i].lock = Nobody /\ icache[d].lock = p /\ i # d
    BY <1>3, LockedLabel, InodeAssumption DEF ilock, InodeInv, LocksHeld, InodeAssumption
<1>5. Loaded(i) = Record(icache[i].ref, Nobody, dinode[i]) /\ dinode[i].type # "free"
    BY <1>3, LoadedRecord
<1>6. icache[d] = Record(icache[d].ref, p, dinode[d]) /\ dinode[d].type # "free"
    BY <1>3, HeldRecord, LockedLabel
<1>7. QED
    BY <1>1, <1>2, <1>3, <1>4, <1>5, <1>6

LEMMA CreateNewKeeps == ASSUME InodeInv, NEW p \in Procs, create_new(p) PROVE InodeInv'
<1>1. at[p].pc = "create_new" /\ ilock(at[p].ip) /\ gen' = gen /\ cwd' = cwd /\ ofile' = ofile
    BY DEF create_new
<1>2. PICK i \in Inums, d \in Inums :
              /\ AtIp(p, i, "create_new") /\ at[p].dp = d /\ i # d /\ LockedAt(at[p]) = {d} /\ ilock(i)
              /\ icache[i].lock = Nobody /\ icache[d].lock = p
              /\ Loaded(i) = Record(icache[i].ref, Nobody, dinode[i]) /\ dinode[i].type # "free"
              /\ icache[d] = Record(icache[d].ref, p, dinode[d]) /\ dinode[d].type # "free"
    BY <1>1, PairAt
<1>3. /\ InodeTyped /\ at[p].ip = i /\ IsFrame(at[p]) /\ dinode[i] \in Dinodes /\ dinode[d] \in Dinodes
      /\ dinode \in [Inums -> Dinodes] /\ bitmap \subseteq Blocks /\ 0 \notin Inums
    BY <1>2 DEF AtIp, InodeInv, InodeTyped
<1>4. Moved(p, at[p], "iput", "create_end", i, 0, d)
    BY <1>2, <1>3, PutDpMoves DEF create_new
<1>5. Others(p) /\ IsFrame(at'[p]) /\ Label(at'[p]) = "create_end" /\ LockedAt(at'[p]) = {i}
    BY <1>1, <1>4 DEF Moved, Others, Label, Putting, LockedAt
<1>6. Shape(p)'
    BY <1>1, <1>2, <1>3, <1>4, <1>5 DEF Moved, Shape, AtIp, WithIp, WithDp, Linking, Putting
<1>7. ASSUME NEW k \in Inums PROVE Slots(p, k)' = Slots(p, k)
    BY <1>1, <1>2, <1>3, <1>4, <1>5 DEF Slots, Moved, AtIp, Bit
<1> DEFINE needs == at[p].call.op = "mkdir" /\ Loaded(i).blks = {}
<1>8. PICK s, n :
        /\ s = IF needs THEN {Least(Blocks \ bitmap)} ELSE dinode[i].blks
        /\ n = IF at[p].call.op = "mkdir" THEN dinode[d].nlink + 1 ELSE dinode[d].nlink
    OBVIOUS
<1>9. Loaded(i).blks = dinode[i].blks /\ icache[d].nlink = dinode[d].nlink
    BY <1>2 DEF Record
<1>10. PICK nn \in Dinodes, dn \in Dinodes :
         /\ nn = Written(dinode[i], 1, s) /\ nn.type # "free" /\ nn.blks = s
         /\ dn = Written(dinode[d], n, dinode[d].blks) /\ dn.type # "free" /\ dn.blks = dinode[d].blks
  <2>1. s \in SUBSET Blocks
    <3>1. CASE needs
      <4>1. Blocks \ bitmap \subseteq Nat /\ Blocks \ bitmap # {}
          BY <1>3, <3>1, InodeAssumption DEF create_new, InodeAssumption
      <4>2. Least(Blocks \ bitmap) \in Blocks \ bitmap
          BY <4>1, LeastIn
      <4>3. QED
          BY <1>8, <3>1, <4>2
    <3>2. CASE ~needs
        BY <1>3, <1>8, <3>2 DEF Dinodes
    <3>3. QED
        BY <3>1, <3>2
  <2>2. n \in Int /\ dinode[d].blks \in SUBSET Blocks
      BY <1>3, <1>8 DEF Dinodes
  <2>3. Written(dinode[i], 1, s) \in Dinodes /\ Written(dinode[i], 1, s).type = dinode[i].type
        /\ Written(dinode[i], 1, s).blks = s
      BY <1>3, <2>1 DEF Written, Dinodes
  <2>4. Written(dinode[d], n, dinode[d].blks) \in Dinodes
        /\ Written(dinode[d], n, dinode[d].blks).type = dinode[d].type
        /\ Written(dinode[d], n, dinode[d].blks).blks = dinode[d].blks
      BY <1>3, <2>2 DEF Written, Dinodes
  <2>5. QED
      BY <1>2, <2>3, <2>4
<1>11. PICK u, de :
         /\ u = [Loaded(i) EXCEPT !.lock = p, !.nlink = 1, !.blks = s]
         /\ de = [icache[d] EXCEPT !.lock = Nobody, !.nlink = n]
    OBVIOUS
<1>12. u = Record(icache[i].ref, p, nn) /\ de = Record(icache[d].ref, Nobody, dn)
  <2>1. PICK a, ra, m : a = Loaded(i) /\ ra = icache[i].ref /\ m = dinode[i]
      OBVIOUS
  <2>2. PICK b, rb, o : b = icache[d] /\ rb = icache[d].ref /\ o = dinode[d]
      OBVIOUS
  <2>3. a = Record(ra, Nobody, m) /\ b = Record(rb, p, o)
      BY <1>2, <2>1, <2>2
  <2>4. Relinked(a, p, 1, s) = Record(ra, p, Written(m, 1, s))
      BY <2>3, RecordAll
  <2>5. LinkedAnd(b, Nobody, n) = Record(rb, Nobody, Written(o, n, o.blks))
      BY <2>3, RecordLinksLock
  <2>6. u = Relinked(a, p, 1, s) /\ de = LinkedAnd(b, Nobody, n)
      BY <1>11, <2>1, <2>2 DEF Relinked, LinkedAnd
  <2>7. QED
      BY <1>10, <2>1, <2>2, <2>4, <2>5, <2>6
<1>13. /\ icache' = [icache EXCEPT ![i] = u, ![d] = de]
       /\ dinode' = iupdate(iupdate(dinode, u, i), de, d)
       /\ bitmap' = bitmap \cup u.blks
  <2>1. u = [Loaded(i) EXCEPT !.lock = p, !.nlink = 1, !.blks = IF needs THEN {Least(Blocks \ bitmap)} ELSE Loaded(i).blks]
      BY <1>8, <1>9, <1>11
  <2>2. de = [icache[d] EXCEPT !.lock = Nobody, !.nlink = IF at[p].call.op = "mkdir" THEN icache[d].nlink + 1 ELSE icache[d].nlink]
      BY <1>8, <1>9, <1>11
  <2>3. QED
      BY <1>2, <1>3, <2>1, <2>2 DEF create_new
<1>14. /\ icache' = Pair(icache, i, Record(icache[i].ref, p, nn), d, Record(icache[d].ref, Nobody, dn))
       /\ dinode' = Pair(dinode, i, nn, d, dn) /\ bitmap' = bitmap \cup s
  <2>1. dinode' = [[dinode EXCEPT ![i] = nn] EXCEPT ![d] = dn]
      BY <1>12, <1>13, IupdateRecord
  <2>2. u.blks = s
      BY <1>10, <1>12 DEF Record
  <2>3. QED
      BY <1>12, <1>13, <2>1, <2>2 DEF Pair
<1>15. dinode'[i] = nn /\ dinode'[d] = dn /\ \A j \in Inums \ {i, d} : dinode'[j] = dinode[j]
    BY <1>2, <1>3, <1>14, PairDisk
<1>16. BlocksOwned' /\ bitmap' \subseteq Blocks
  <2>1. CASE needs
    <3>1. Blocks \ bitmap \subseteq Nat /\ Blocks \ bitmap # {}
        BY <1>2, <1>3, <2>1, InodeAssumption DEF create_new, InodeAssumption
    <3>2. PICK b \in Blocks \ bitmap : b = Least(Blocks \ bitmap)
        BY <3>1, LeastIn
    <3>3. bitmap' = bitmap \cup {b} /\ nn.blks = {b} /\ dinode[i].blks = {}
        BY <1>8, <1>9, <1>10, <1>14, <2>1, <3>2
    <3>4. \A j \in Inums \ {i} : dinode'[j].blks = dinode[j].blks /\ dinode'[j].type = dinode[j].type
        BY <1>2, <1>10, <1>15 DEF Written
    <3>5. QED
        BY <1>3, <1>10, <1>15, <3>2, <3>3, <3>4, BlocksAdded DEF InodeInv
  <2>2. CASE ~needs
    <3>1. dinode[i].blks \subseteq bitmap
        BY DEF InodeInv, BlocksOwned
    <3>2. bitmap' = bitmap
        BY <1>8, <1>14, <2>2, <3>1
    <3>3. \A j \in Inums : dinode'[j].blks = dinode[j].blks /\ (dinode'[j].type = "free" => dinode[j].type = "free")
        BY <1>8, <1>10, <1>15, <2>2
    <3>4. QED
        BY <1>3, <3>2, <3>3, BlocksSame DEF InodeInv
  <2>3. QED
      BY <2>1, <2>2
<1>17. NamesTyped'
  <2>1. NamesTyped /\ Entered(dir[i]) /\ Entered(dir[d])
      BY <1>3 DEF InodeTyped, NamesTyped
  <2>2. PICK f, g : /\ f = IF at[p].call.op = "mkdir" THEN Extend(Extend(dir[i], ".", i), "..", d) ELSE dir[i]
                    /\ g = Extend(dir[d], LastName(at[p]), i)
      OBVIOUS
  <2>3. Entered(f) /\ Entered(g)
      BY <2>1, <2>2, EntriesKept
  <2>4. dir' = Pair(dir, i, f, d, g)
      BY <1>2, <1>3, <2>2 DEF create_new, Pair
  <2>5. QED
      BY <1>1, <1>2, <2>1, <2>3, <2>4, DirPair
<1>18. QED
    BY <1>1, <1>2, <1>5, <1>6, <1>7, <1>10, <1>14, <1>16, <1>17, PairKeeps

-----------------------------------------------------------------------------
(* link()                                                                  *)

LEMMA LinkOldKeeps == ASSUME InodeInv, NEW p \in Procs, link_old(p) PROVE InodeInv'
<1>1. /\ at[p].pc = "link_old" /\ ilock(at[p].ip)
      /\ dir' = dir /\ bitmap' = bitmap /\ gen' = gen /\ cwd' = cwd /\ ofile' = ofile
    BY DEF link_old
<1>2. PICK i \in Inums : AtIp(p, i, "link_old")
    BY <1>1, IpAt DEF WithIp
<1>3. at[p].ip = i /\ ilock(i) /\ icache[i].ref > 0 /\ InodeTyped /\ LockedAt(at[p]) = {} /\ at[p].dp = 0
    BY <1>1, <1>2 DEF AtIp, InodeInv, LockedAt, WithDp, Linking
<1>4. Loaded(i) = Record(icache[i].ref, Nobody, dinode[i]) /\ dinode[i].type # "free" /\ icache[i].lock = Nobody
    BY <1>3, LoadedRecord DEF ilock
<1>5. CASE icache' = [icache EXCEPT ![i] = Loaded(i)] /\ PutIp(p, at[p], "idle") /\ dinode' = dinode
  <2>1. Ended(p)
      BY <1>1, <1>2, <1>5, EndMoves DEF WithDp, Linking
  <2>2. Looked
      BY <1>3, <1>5 DEF Looked
  <2>3. QED
      BY <1>1, <1>3, <1>5, <2>1, <2>2, LookKeeps DEF Ended
<1>6. ASSUME icache' = [icache EXCEPT ![i] = [Loaded(i) EXCEPT !.nlink = Loaded(i).nlink + 1]],
             dinode' = iupdate(dinode, [Loaded(i) EXCEPT !.nlink = Loaded(i).nlink + 1], i),
             Loaded(i).type # "dir",
             Goto(p, [at[p] EXCEPT !.dp = i, !.ip = 0, !.second = TRUE], "link_path")
      PROVE  InodeInv'
  <2>1. PICK a, n : a = Loaded(i) /\ n = Loaded(i).nlink + 1
      OBVIOUS
  <2>2. dinode[i] \in Dinodes /\ a = Record(icache[i].ref, Nobody, dinode[i]) /\ Loaded(i).nlink = dinode[i].nlink
        /\ n \in Int /\ dinode[i].blks \in SUBSET Blocks
      BY <1>3, <1>4, <2>1 DEF InodeTyped, Record, Dinodes
  <2>3. PICK d \in Dinodes : d = Written(dinode[i], n, dinode[i].blks)
      BY <2>2, WrittenOK
  <2>4. [a EXCEPT !.nlink = n] = Record(icache[i].ref, Nobody, d)
      BY <2>2, <2>3, RecordLinks
  <2>5. icache' = [icache EXCEPT ![i] = Record(icache[i].ref, Nobody, d)] /\ dinode' = [dinode EXCEPT ![i] = d]
    <3>1. icache' = [icache EXCEPT ![i] = [a EXCEPT !.nlink = n]] /\ dinode' = iupdate(dinode, [a EXCEPT !.nlink = n], i)
        BY <1>6, <2>1
    <3>2. iupdate(dinode, Record(icache[i].ref, Nobody, d), i) = [dinode EXCEPT ![i] = d]
        BY IupdateRecord
    <3>3. QED
        BY <2>4, <3>1, <3>2
  <2>6. d.type = dinode[i].type /\ d.blks = dinode[i].blks
      BY <2>3 DEF Written
  <2>7. BlocksOwned' /\ bitmap' \subseteq Blocks
      BY <1>1, <1>3, <2>5, <2>6, BlocksSame DEF InodeInv, InodeTyped
  <2>8. PICK b : b = [at[p] EXCEPT !.dp = i, !.ip = 0, !.second = TRUE]
      OBVIOUS
  <2>9. IsFrame(b) /\ b = [pc |-> at[p].pc, call |-> at[p].call, rest |-> at[p].rest, second |-> TRUE,
                            ip |-> 0, dp |-> i, put |-> at[p].put, then |-> at[p].then, stray |-> at[p].stray]
    <3>1. PICK v \in BOOLEAN, z \in Inums \cup {0}, h \in Inums \cup {0} : v = TRUE /\ z = 0 /\ h = i
        OBVIOUS
    <3>2. IsFrame(at[p])
        BY <1>2 DEF AtIp
    <3>3. IsFrame(Second(at[p], h, z, v))
          /\ Second(at[p], h, z, v)
                = [pc |-> at[p].pc, call |-> at[p].call, rest |-> at[p].rest, second |-> v,
                   ip |-> z, dp |-> h, put |-> at[p].put, then |-> at[p].then, stray |-> at[p].stray]
        BY <3>2, FrameSecondPath
    <3>4. QED
        BY <2>8, <3>1, <3>3 DEF Second
  <2>10. Moved(p, b, "link_path", b.then, b.ip, b.dp, b.put)
      BY <1>3, <1>6, <2>8, <2>9, GotoMoves
  <2>11. Moved(p, b, "link_path", at[p].then, 0, i, 0) /\ b.second /\ b.call = at[p].call
      BY <1>2, <2>9, <2>10 DEF AtIp
  <2>12. Others(p) /\ IsFrame(at'[p]) /\ Label(at'[p]) = "link_path" /\ LockedAt(at'[p]) = {}
      BY <1>1, <2>11 DEF Moved, Others, Label, Putting, LockedAt
  <2>13. NamesTyped'
      BY <1>1, <1>3 DEF InodeTyped, NamesTyped, Entered
  <2>14. Shape(p)'
      BY <1>1, <1>2, <2>11, <2>12 DEF Moved, Shape, AtIp, WithIp, WithDp, Linking, Putting
  <2>15. ASSUME NEW k \in Inums PROVE Slots(p, k)' = Slots(p, k)
      BY <1>1, <1>2, <1>3, <2>11, <2>12 DEF Slots, Moved, AtIp, Bit
  <2>16. d.type # "free" /\ Nobody # p
      BY <1>4, <2>6, InodeAssumption DEF InodeAssumption
  <2>17. QED
      BY <1>1, <1>3, <1>4, <2>5, <2>7, <2>12, <2>13, <2>14, <2>15, <2>16, EntryWriteKeeps
<1>7. QED
    BY <1>3, <1>5, <1>6 DEF link_old

\* Where dp is the inode that the call still has to put.
AtDp(p, i, l) ==
    /\ at[p].pc = l /\ at[p].dp = i /\ at[p].ip = 0 /\ at[p].put = 0 /\ IsFrame(at[p]) /\ Shape(p)
    /\ Label(at[p]) = l /\ at[p].then # "chdir_set" /\ cwd[p] # 0
    /\ icache[i].ref > 0 /\ 0 \notin Inums

LEMMA DpAt ==
    ASSUME InodeInv, NEW p \in Procs, NEW l \in {"link_put", "link_bad", "unlink_bad"}, at[p].pc = l
    PROVE  \E i \in Inums : AtDp(p, i, l)
<1>1. IsFrame(at[p]) /\ Shape(p)
    BY DEF InodeInv, InodeTyped
<1>2. Label(at[p]) = l /\ at[p].put = 0 /\ at[p].ip = 0
    BY <1>1 DEF Shape, Label, Putting, WithIp
<1>3. PICK i \in Inums : i = at[p].dp
    BY <1>1, <1>2 DEF IsFrame, Shape, WithDp, Linking
<1>4. Slots(p, i) > 0
    BY <1>3 DEF Slots, Bit
<1>5. icache[i].ref > 0
    BY <1>4, RefNat
<1>6. QED
    BY <1>1, <1>2, <1>3, <1>5, InodeAssumption DEF AtDp, Shape, InodeAssumption

LEMMA DpEnds ==
    ASSUME InodeInv, NEW p \in Procs, NEW i \in Inums, NEW l \in {"link_put", "link_bad", "unlink_bad"}, AtDp(p, i, l),
           PutDp(p, at[p], "idle"), dir' = dir, gen' = gen, cwd' = cwd, ofile' = ofile
    PROVE  Ended(p)
<1>1. InodeTyped /\ IsFrame(at[p]) /\ 0 \notin Inums /\ at[p].dp = i
    BY DEF InodeInv, AtDp
<1>2. Moved(p, at[p], "iput", "idle", 0, 0, i)
    BY <1>1, PutDpMoves DEF AtDp
<1>3. Label(at'[p]) = "idle" /\ LockedAt(at'[p]) = {}
    BY <1>2 DEF Moved, Label, Putting, LockedAt
<1>4. Shape(p)'
    BY <1>1, <1>2, <1>3 DEF Moved, Shape, AtDp, WithIp, WithDp, Linking, Putting
<1>5. Others(p) /\ IsFrame(at'[p]) /\ NamesTyped'
    BY <1>1, <1>2 DEF Moved, Others, InodeTyped, NamesTyped, Entered
<1>6. ASSUME NEW k \in Inums PROVE Slots(p, k)' = Slots(p, k)
    BY <1>1, <1>2, <1>3 DEF Slots, Moved, AtDp, Bit
<1>7. QED
    BY <1>3, <1>4, <1>5, <1>6 DEF Ended

LEMMA LinkNewKeeps == ASSUME InodeInv, NEW p \in Procs, link_new(p) PROVE InodeInv'
<1>1. /\ at[p].pc = "link_new" /\ ilock(at[p].ip) /\ dinode' = dinode /\ bitmap' = bitmap
      /\ gen' = gen /\ cwd' = cwd /\ ofile' = ofile
    BY DEF link_new
<1>2. PICK d \in Inums : AtIp(p, d, "link_new")
    BY <1>1, IpAt DEF WithIp
<1>3. /\ at[p].ip = d /\ ilock(d) /\ icache[d].ref > 0 /\ InodeTyped /\ LockedAt(at[p]) = {}
      /\ at[p].dp \in Inums /\ IsFrame(at[p]) /\ 0 \notin Inums
    BY <1>1, <1>2 DEF AtIp, InodeInv, LockedAt, WithDp, Linking, IsFrame
<1>4. Looked
    BY <1>3 DEF link_new, Looked
<1>5. NamesTyped'
  <2>1. NamesTyped /\ Entered(dir[d])
      BY <1>3 DEF InodeTyped, NamesTyped
  <2>2. CASE dir' = dir
      BY <1>1, <2>1, <2>2 DEF NamesTyped, Entered
  <2>3. CASE dir' = [dir EXCEPT ![d] = Extend(dir[d], LastName(at[p]), at[p].dp)]
    <3>1. PICK g : g = Extend(dir[d], LastName(at[p]), at[p].dp)
        OBVIOUS
    <3>2. Entered(g)
        BY <1>3, <2>1, <3>1, EntriesKept
    <3>3. QED
        BY <1>1, <2>1, <2>3, <3>1, <3>2, DirOne
  <2>4. QED
      BY <1>3, <2>2, <2>3 DEF link_new
<1>6. PICK l \in {"link_bad", "link_put"} : PutIp(p, at[p], l)
    BY DEF link_new
<1>7. Moved(p, at[p], "iput", l, 0, at[p].dp, d)
    BY <1>3, <1>6, PutIpMoves
<1>8. Others(p) /\ IsFrame(at'[p]) /\ Label(at'[p]) = l /\ LockedAt(at'[p]) = {}
    BY <1>1, <1>7 DEF Moved, Others, Label, Putting, LockedAt
<1>9. Shape(p)'
    BY <1>1, <1>2, <1>3, <1>7, <1>8 DEF Moved, Shape, AtIp, WithIp, WithDp, Linking, Putting
<1>10. ASSUME NEW k \in Inums PROVE Slots(p, k)' = Slots(p, k)
    BY <1>1, <1>2, <1>3, <1>7, <1>8 DEF Slots, Moved, AtIp, Bit
<1>11. QED
    BY <1>1, <1>3, <1>4, <1>5, <1>8, <1>9, <1>10, LookKeeps

LEMMA LinkPutKeeps == ASSUME InodeInv, NEW p \in Procs, link_put(p) PROVE InodeInv'
<1>1. /\ at[p].pc = "link_put" /\ Looked /\ PutDp(p, at[p], "idle")
      /\ dinode' = dinode /\ dir' = dir /\ bitmap' = bitmap /\ gen' = gen /\ cwd' = cwd /\ ofile' = ofile
    BY DEF link_put, disk, Looked
<1>2. PICK i \in Inums : AtDp(p, i, "link_put")
    BY <1>1, DpAt
<1>3. LockedAt(at[p]) = {}
    BY <1>1, <1>2 DEF AtDp, LockedAt
<1>4. Ended(p)
    BY <1>1, <1>2, DpEnds
<1>5. QED
    BY <1>1, <1>3, <1>4, LookKeeps DEF Ended

LEMMA LinkBadKeeps == ASSUME InodeInv, NEW p \in Procs, link_bad(p) PROVE InodeInv'
<1>1. /\ at[p].pc = "link_bad" /\ ilock(at[p].dp) /\ PutDp(p, at[p], "idle")
      /\ dir' = dir /\ bitmap' = bitmap /\ gen' = gen /\ cwd' = cwd /\ ofile' = ofile
    BY DEF link_bad
<1>2. PICK i \in Inums : AtDp(p, i, "link_bad")
    BY <1>1, DpAt
<1>3. at[p].dp = i /\ ilock(i) /\ icache[i].ref > 0 /\ InodeTyped /\ LockedAt(at[p]) = {}
    BY <1>1, <1>2 DEF AtDp, InodeInv, LockedAt
<1>4. Loaded(i) = Record(icache[i].ref, Nobody, dinode[i]) /\ dinode[i].type # "free" /\ icache[i].lock = Nobody
    BY <1>3, LoadedRecord DEF ilock
<1>5. Ended(p)
    BY <1>1, <1>2, DpEnds
<1>6. PICK a, n : a = Loaded(i) /\ n = Loaded(i).nlink - 1
    OBVIOUS
<1>7. /\ dinode[i] \in Dinodes /\ a = Record(icache[i].ref, Nobody, dinode[i])
      /\ n \in Int /\ dinode[i].blks \in SUBSET Blocks
    BY <1>3, <1>4, <1>6 DEF InodeTyped, Record, Dinodes
<1>8. PICK d \in Dinodes : d = Written(dinode[i], n, dinode[i].blks)
    BY <1>7, WrittenOK
<1>9. [a EXCEPT !.nlink = n] = Record(icache[i].ref, Nobody, d)
    BY <1>7, <1>8, RecordLinks
<1>10. icache' = [icache EXCEPT ![i] = Record(icache[i].ref, Nobody, d)] /\ dinode' = [dinode EXCEPT ![i] = d]
  <2>1. icache' = [icache EXCEPT ![i] = [a EXCEPT !.nlink = n]] /\ dinode' = iupdate(dinode, [a EXCEPT !.nlink = n], i)
      BY <1>3, <1>6 DEF link_bad
  <2>2. iupdate(dinode, Record(icache[i].ref, Nobody, d), i) = [dinode EXCEPT ![i] = d]
      BY IupdateRecord
  <2>3. QED
      BY <1>9, <2>1, <2>2
<1>11. d.type = dinode[i].type /\ d.blks = dinode[i].blks
    BY <1>8 DEF Written
<1>12. BlocksOwned' /\ bitmap' \subseteq Blocks
    BY <1>1, <1>3, <1>10, <1>11, BlocksSame DEF InodeInv, InodeTyped
<1>13. d.type # "free" /\ Nobody # p
    BY <1>4, <1>11, InodeAssumption DEF InodeAssumption
<1>14. QED
    BY <1>1, <1>3, <1>4, <1>5, <1>10, <1>12, <1>13, EntryWriteKeeps DEF Ended

-----------------------------------------------------------------------------
(* unlink()                                                                *)

\* The entry is there: the parent stays locked, p goes on with the inode.
LEMMA UnlinkFoundKeeps ==
    ASSUME InodeInv, NEW p \in Procs, NEW d \in Inums, AtIp(p, d, "unlink"), ilock(d), NEW i \in Inums,
           icache' = iget([icache EXCEPT ![d] = [Loaded(d) EXCEPT !.lock = p]], i),
           Goto(p, [at[p] EXCEPT !.dp = d, !.ip = i], "unlink_entry"),
           dinode' = dinode, gen' = gen, dir' = dir, bitmap' = bitmap, cwd' = cwd, ofile' = ofile
    PROVE  InodeInv'
<1>1. /\ InodeTyped /\ IsFrame(at[p]) /\ at[p].ip = d /\ at[p].put = 0 /\ at[p].dp = 0 /\ icache[d].ref > 0
      /\ 0 \notin Inums /\ at[p].pc = "unlink" /\ Label(at[p]) = "unlink" /\ at[p].then # "chdir_set" /\ BlocksOwned'
    BY BlocksSame DEF AtIp, InodeInv, WithDp, Linking
<1>2. Moved(p, at[p], "unlink_entry", at[p].then, i, d, 0)
  <2> DEFINE b == [at[p] EXCEPT !.dp = d, !.ip = i]
  <2>1. IsFrame(b) /\ b = [pc |-> at[p].pc, call |-> at[p].call, rest |-> at[p].rest, second |-> at[p].second,
                           ip |-> i, dp |-> d, put |-> at[p].put, then |-> at[p].then, stray |-> at[p].stray]
      BY <1>1, FrameBoth
  <2>2. Goto(p, b, "unlink_entry")
      OBVIOUS
  <2> HIDE DEF b
  <2>3. Moved(p, b, "unlink_entry", b.then, b.ip, b.dp, b.put)
      BY <1>1, <2>1, <2>2, GotoMoves
  <2>4. QED
      BY <1>1, <2>1, <2>3 DEF Moved
<1>3. Others(p)
    BY <1>2 DEF Moved, Others
<1>4. Label(at'[p]) = "unlink_entry" /\ LockedAt(at'[p]) = {d} /\ LockedAt(at[p]) = {}
    BY <1>1, <1>2 DEF Moved, Label, Putting, LockedAt
<1>5. Shape(p)'
    BY <1>1, <1>2, <1>4 DEF Moved, Shape, AtIp, WithIp, WithDp, Linking, Putting
<1>6. /\ Loaded(d) = Record(icache[d].ref, Nobody, dinode[d]) /\ dinode[d].type # "free"
      /\ icache[d].lock = Nobody /\ dinode[d] \in Dinodes
    BY <1>1, LoadedRecord DEF ilock, InodeTyped
<1>7. [Loaded(d) EXCEPT !.lock = p] = Record(icache[d].ref, p, dinode[d])
    BY <1>6, RecordLock
<1>8. PICK u \in Entries : u = [Loaded(d) EXCEPT !.lock = p] /\ u.ref = icache[d].ref /\ u.lock = p /\ u.valid
                           /\ [type |-> u.type, nlink |-> u.nlink, blks |-> u.blks] = dinode[d]
  <2>1. dinode[d] \in Dinodes /\ icache[d].ref \in Int
      BY <1>1 DEF InodeTyped, Entries
  <2>2. PICK h \in Int, o \in Dinodes : h = icache[d].ref /\ o = dinode[d]
      BY <2>1
  <2>3. PICK u \in Entries : u = Record(h, p, o)
      BY DEF Record, Entries, Dinodes
  <2>4. /\ u.ref = h /\ u.lock = p /\ u.valid
        /\ [type |-> u.type, nlink |-> u.nlink, blks |-> u.blks] = o
      BY <2>3 DEF Record, Dinodes
  <2>5. QED
      BY <1>7, <2>2, <2>3, <2>4
<1>9. Gotten(d, u, i)
  <2>1. icache' = iget([icache EXCEPT ![d] = u], i)
      BY <1>8
  <2>2. QED
      BY <1>1, <1>8, <2>1, HeldIget
<1>10. InodeTyped'
    BY <1>1, <1>2, <1>9 DEF InodeTyped, NamesTyped, Moved, Entered, Gotten
<1>11. ASSUME NEW k \in Inums PROVE RefChange(p, k) /\ LockStep(p, k) /\ CopyOK(k)'
  <2>0. /\ icache'[k].ref = icache[k].ref + Bit(k = i) /\ icache[k].ref \in Int
        /\ icache'[k].lock = IF k = d THEN u.lock ELSE icache[k].lock
        /\ k = d => icache'[k].valid = u.valid /\ Copy(k)' = [type |-> u.type, nlink |-> u.nlink, blks |-> u.blks]
        /\ k # d => \/ icache'[k].valid = icache[k].valid /\ Copy(k)' = Copy(k)
                       /\ (icache'[k].ref > 0 => icache[k].ref > 0)
                    \/ k = i /\ icache[k].ref = 0 /\ ~icache'[k].valid /\ icache'[k].lock = Nobody
    <3>1. icache[k].ref \in Int
        BY <1>1 DEF InodeTyped, Entries
    <3>2. GotAt(k, d, u, i)
        BY <1>9, GottenAt
    <3>3. QED
        BY <3>1, <3>2 DEF GotAt
  <2>1. RefChange(p, k)
    <3>1. /\ Label(at[p]) # "chdir_set" /\ Label(at'[p]) # "chdir_set" /\ at[p].ip = d
          /\ at'[p].ip = i /\ at[p].dp = 0 /\ at'[p].dp = d /\ at'[p].put = at[p].put
        BY <1>1, <1>2, <1>4 DEF Moved
    <3>2. 0 \notin Inums /\ icache[k].ref \in Int /\ icache'[k].ref = icache[k].ref + Bit(k = at'[p].ip)
        BY <1>1, <2>0, <3>1
    <3>3. QED
        BY <1>3, <3>1, <3>2, RefMoves
  <2>2. LockStep(p, k)
    <3>1. icache[k].lock # p
        BY <1>4, LockedLabel DEF InodeInv, LocksHeld
    <3>2. QED
        BY <1>4, <1>6, <1>8, <2>0, <3>1 DEF LockStep
  <2>3. EntryKept(k) \/ Dropped(k) \/ Fresh(k)
      BY <1>6, <1>8, <2>0 DEF EntryKept, Dropped, Fresh
  <2>4. QED
      BY <1>1, <1>3, <2>1, <2>2, <2>3, CopyStep
<1>12. QED
    BY <1>1, <1>3, <1>5, <1>10, <1>11, InodeStep

LEMMA UnlinkKeeps == ASSUME InodeInv, NEW p \in Procs, unlink(p) PROVE InodeInv'
<1>1. /\ at[p].pc = "unlink" /\ ilock(at[p].ip) /\ dinode' = dinode /\ gen' = gen
      /\ dir' = dir /\ bitmap' = bitmap /\ cwd' = cwd /\ ofile' = ofile
    BY DEF unlink, disk
<1>2. PICK d \in Inums : AtIp(p, d, "unlink")
    BY <1>1, IpAt DEF WithIp
<1>3. /\ at[p].ip = d /\ ilock(d) /\ icache[d].ref > 0 /\ LockedAt(at[p]) = {}
      /\ \A n \in DOMAIN dir[d] : dir[d][n] \in Inums
    BY <1>1, <1>2 DEF AtIp, LockedAt, InodeInv, InodeTyped, NamesTyped, Entered
<1>4. CASE icache' = [icache EXCEPT ![d] = Loaded(d)] /\ PutIp(p, at[p], "idle")
  <2>1. Ended(p)
      BY <1>1, <1>2, <1>4, EndMoves DEF WithDp, Linking
  <2>2. Looked
      BY <1>3, <1>4 DEF Looked
  <2>3. QED
      BY <1>1, <1>3, <2>1, <2>2, LookKeeps DEF Ended
<1>5. ASSUME NEW i \in Inums,
             icache' = iget([icache EXCEPT ![d] = [Loaded(d) EXCEPT !.lock = p]], i),
             Goto(p, [at[p] EXCEPT !.dp = d, !.ip = i], "unlink_entry")
      PROVE  InodeInv'
    BY <1>1, <1>2, <1>3, <1>5, UnlinkFoundKeeps
<1>6. QED
    BY <1>3, <1>4, <1>5 DEF unlink

LEMMA UnlinkEntryKeeps == ASSUME InodeInv, NEW p \in Procs, unlink_entry(p) PROVE InodeInv'
<1>1. /\ at[p].pc = "unlink_entry" /\ ilock(at[p].ip) /\ gen' = gen /\ cwd' = cwd /\ ofile' = ofile /\ bitmap' = bitmap
    BY DEF unlink_entry
<1>2. PICK i \in Inums, d \in Inums :
              /\ AtIp(p, i, "unlink_entry") /\ at[p].dp = d /\ i # d /\ LockedAt(at[p]) = {d} /\ ilock(i)
              /\ icache[i].lock = Nobody /\ icache[d].lock = p
              /\ Loaded(i) = Record(icache[i].ref, Nobody, dinode[i]) /\ dinode[i].type # "free"
              /\ icache[d] = Record(icache[d].ref, p, dinode[d]) /\ dinode[d].type # "free"
    BY <1>1, PairAt
<1>3. /\ InodeTyped /\ at[p].ip = i /\ IsFrame(at[p]) /\ dinode[i] \in Dinodes /\ dinode[d] \in Dinodes
      /\ dinode \in [Inums -> Dinodes] /\ bitmap \subseteq Blocks /\ 0 \notin Inums /\ icache[i].ref > 0
    BY <1>2 DEF AtIp, InodeInv, InodeTyped
<1>4. CASE /\ icache' = [icache EXCEPT ![i] = Loaded(i)] /\ PutIp(p, at[p], "unlink_bad")
           /\ dinode' = dinode /\ dir' = dir
  <2>1. Moved(p, at[p], "iput", "unlink_bad", 0, d, i)
      BY <1>2, <1>3, <1>4, PutIpMoves
  <2>2. Others(p) /\ IsFrame(at'[p]) /\ Label(at'[p]) = "unlink_bad" /\ LockedAt(at'[p]) = {d}
      BY <1>1, <2>1 DEF Moved, Others, Label, Putting, LockedAt
  <2>3. Shape(p)'
      BY <1>1, <1>2, <1>3, <2>1, <2>2 DEF Moved, Shape, AtIp, WithIp, WithDp, Linking, Putting
  <2>4. ASSUME NEW k \in Inums PROVE Slots(p, k)' = Slots(p, k)
      BY <1>1, <1>2, <1>3, <2>1, <2>2 DEF Slots, Moved, AtIp, Bit
  <2>5. Looked /\ NamesTyped'
      BY <1>1, <1>2, <1>3, <1>4 DEF Looked, InodeTyped, NamesTyped, Entered
  <2>6. QED
      BY <1>1, <1>2, <1>4, <2>2, <2>3, <2>4, <2>5, LookKeeps
<1>5. ASSUME NEW u, NEW de, NEW n,
             n = IF Loaded(i).type = "dir" THEN icache[d].nlink - 1 ELSE icache[d].nlink,
             de = [icache[d] EXCEPT !.lock = Nobody, !.nlink = n], u = [Loaded(i) EXCEPT !.lock = p],
             icache' = [icache EXCEPT ![i] = u, ![d] = de], dinode' = iupdate(dinode, de, d),
             dir' = [dir EXCEPT ![d] = Without(dir[d], LastName(at[p]))],
             PutDp(p, at[p], "unlink_inode")
      PROVE  InodeInv'
  <2>1. Moved(p, at[p], "iput", "unlink_inode", i, 0, d)
      BY <1>2, <1>3, <1>5, PutDpMoves
  <2>2. Others(p) /\ IsFrame(at'[p]) /\ Label(at'[p]) = "unlink_inode" /\ LockedAt(at'[p]) = {i}
      BY <1>1, <2>1 DEF Moved, Others, Label, Putting, LockedAt
  <2>3. Shape(p)'
      BY <1>1, <1>2, <1>3, <2>1, <2>2 DEF Moved, Shape, AtIp, WithIp, WithDp, Linking, Putting
  <2>4. ASSUME NEW k \in Inums PROVE Slots(p, k)' = Slots(p, k)
      BY <1>1, <1>2, <1>3, <2>1, <2>2 DEF Slots, Moved, AtIp, Bit
  <2>5. n \in Int /\ dinode[d].blks \in SUBSET Blocks
      BY <1>2, <1>3, <1>5 DEF Dinodes, Record
  <2>6. PICK nn \in Dinodes, dn \in Dinodes :
          /\ nn = dinode[i] /\ nn.type # "free"
          /\ dn = Written(dinode[d], n, dinode[d].blks) /\ dn.type # "free" /\ dn.blks = dinode[d].blks
    <3>1. Written(dinode[d], n, dinode[d].blks) \in Dinodes
          /\ Written(dinode[d], n, dinode[d].blks).type = dinode[d].type
          /\ Written(dinode[d], n, dinode[d].blks).blks = dinode[d].blks
        BY <1>3, <2>5 DEF Written, Dinodes
    <3>2. QED
        BY <1>2, <1>3, <3>1
  <2>7. u = Record(icache[i].ref, p, nn) /\ de = Record(icache[d].ref, Nobody, dn)
    <3>1. PICK a, ra, m : a = Loaded(i) /\ ra = icache[i].ref /\ m = dinode[i]
        OBVIOUS
    <3>2. PICK b, rb, o : b = icache[d] /\ rb = icache[d].ref /\ o = dinode[d]
        OBVIOUS
    <3>3. a = Record(ra, Nobody, m) /\ b = Record(rb, p, o)
        BY <1>2, <3>1, <3>2
    <3>4. [a EXCEPT !.lock = p] = Record(ra, p, m)
        BY <3>3, RecordLock
    <3>5. LinkedAnd(b, Nobody, n) = Record(rb, Nobody, Written(o, n, o.blks))
        BY <3>3, RecordLinksLock
    <3>6. u = [a EXCEPT !.lock = p] /\ de = LinkedAnd(b, Nobody, n)
        BY <1>5, <3>1, <3>2 DEF LinkedAnd
    <3>7. QED
        BY <2>6, <3>1, <3>2, <3>4, <3>5, <3>6
  <2>8. /\ icache' = Pair(icache, i, Record(icache[i].ref, p, nn), d, Record(icache[d].ref, Nobody, dn))
        /\ dinode' = Pair(dinode, i, nn, d, dn)
    <3>1. dinode' = [dinode EXCEPT ![d] = dn]
        BY <1>5, <2>7, IupdateRecord
    <3>2. dinode' = Pair(dinode, i, nn, d, dn)
      <4>1. dinode[i] = nn /\ dinode \in [Inums -> Dinodes]
          BY <1>3, <2>6
      <4>2. [dinode EXCEPT ![d] = dn] = [dinode EXCEPT ![i] = nn, ![d] = dn]
          BY <4>1
      <4>3. QED
          BY <3>1, <4>2 DEF Pair
    <3>3. QED
        BY <1>5, <2>7, <3>2 DEF Pair
  <2>9. dinode'[i] = nn /\ dinode'[d] = dn /\ \A j \in Inums \ {i, d} : dinode'[j] = dinode[j]
      BY <1>2, <1>3, <2>8, PairDisk
  <2>10. BlocksOwned'
      BY <1>1, <2>6, <2>9, BlocksSame DEF InodeInv
  <2>11. NamesTyped'
    <3>1. NamesTyped /\ Entered(dir[d])
        BY <1>3 DEF InodeTyped, NamesTyped
    <3>2. PICK g : g = Without(dir[d], LastName(at[p]))
        OBVIOUS
    <3>3. Entered(g)
        BY <1>3, <3>1, <3>2, EntriesKept
    <3>4. QED
        BY <1>1, <1>5, <3>1, <3>2, <3>3, DirOne
  <2>12. QED
      BY <1>1, <1>2, <1>3, <2>2, <2>3, <2>4, <2>6, <2>8, <2>10, <2>11, PairKeeps
<1>6. PICK u, de, n :
        /\ n = IF Loaded(i).type = "dir" THEN icache[d].nlink - 1 ELSE icache[d].nlink
        /\ de = [icache[d] EXCEPT !.lock = Nobody, !.nlink = n] /\ u = [Loaded(i) EXCEPT !.lock = p]
    OBVIOUS
<1>7. \/ /\ icache' = [icache EXCEPT ![i] = Loaded(i)] /\ PutIp(p, at[p], "unlink_bad")
         /\ dinode' = dinode /\ dir' = dir
      \/ /\ icache' = [icache EXCEPT ![i] = u, ![d] = de] /\ dinode' = iupdate(dinode, de, d)
         /\ dir' = [dir EXCEPT ![d] = Without(dir[d], LastName(at[p]))]
         /\ PutDp(p, at[p], "unlink_inode")
  <2>1. de = [icache[d] EXCEPT !.lock = Nobody, !.nlink = IF Loaded(i).type = "dir" THEN icache[d].nlink - 1 ELSE icache[d].nlink]
      BY <1>6
  <2>2. QED
      BY <1>2, <1>3, <1>6, <2>1 DEF unlink_entry
<1>8. QED
    BY <1>4, <1>5, <1>6, <1>7

LEMMA UnlinkBadKeeps == ASSUME InodeInv, NEW p \in Procs, unlink_bad(p) PROVE InodeInv'
<1>1. /\ at[p].pc = "unlink_bad" /\ PutDp(p, at[p], "idle") /\ dinode' = dinode
      /\ dir' = dir /\ bitmap' = bitmap /\ gen' = gen /\ cwd' = cwd /\ ofile' = ofile
    BY DEF unlink_bad, disk
<1>2. PICK i \in Inums : AtDp(p, i, "unlink_bad")
    BY <1>1, DpAt
<1>3. at[p].dp = i /\ icache[i].ref > 0 /\ InodeTyped /\ LockedAt(at[p]) = {i} /\ at[p].pc # "iput_invalid"
    BY <1>1, <1>2 DEF AtDp, InodeInv, LockedAt
<1>4. icache[i] = Record(icache[i].ref, p, dinode[i]) /\ dinode[i].type # "free" /\ icache[i].lock = p
    BY <1>3, HeldRecord, LockedLabel DEF InodeInv, LocksHeld
<1>5. Ended(p)
    BY <1>1, <1>2, DpEnds
<1>6. icache' = [icache EXCEPT ![i] = Record(icache[i].ref, Nobody, dinode[i])]
  <2>1. icache' = [icache EXCEPT ![i] = [icache[i] EXCEPT !.lock = Nobody]]
      BY <1>3 DEF unlink_bad
  <2>2. [icache[i] EXCEPT !.lock = Nobody] = Record(icache[i].ref, Nobody, dinode[i])
      BY <1>4, RecordLock
  <2>3. QED
      BY <2>1, <2>2
<1>7. dinode' = [dinode EXCEPT ![i] = dinode[i]] /\ bitmap' \subseteq Blocks /\ BlocksOwned' /\ dinode[i] \in Dinodes
    BY <1>1, <1>3, BlocksSame DEF InodeInv, InodeTyped
<1>8. QED
    BY <1>3, <1>4, <1>5, <1>6, <1>7, EntryWriteKeeps, InodeAssumption DEF Ended, InodeAssumption

LEMMA UnlinkInodeKeeps == ASSUME InodeInv, NEW p \in Procs, unlink_inode(p) PROVE InodeInv'
<1>1. /\ at[p].pc = "unlink_inode" /\ PutIp(p, at[p], "idle")
      /\ dir' = dir /\ bitmap' = bitmap /\ gen' = gen /\ cwd' = cwd /\ ofile' = ofile
    BY DEF unlink_inode
<1>2. PICK i \in Inums : AtIp(p, i, "unlink_inode")
    BY <1>1, IpAt DEF WithIp
<1>3. at[p].ip = i /\ icache[i].ref > 0 /\ InodeTyped /\ LockedAt(at[p]) = {i} /\ at[p].pc # "iput_invalid"
    BY <1>1, <1>2 DEF AtIp, InodeInv, LockedAt
<1>4. icache[i] = Record(icache[i].ref, p, dinode[i]) /\ dinode[i].type # "free" /\ icache[i].lock = p
    BY <1>3, HeldRecord, LockedLabel DEF InodeInv, LocksHeld
<1>5. Ended(p)
    BY <1>1, <1>2, EndMoves DEF WithDp, Linking
<1>6. PICK a, n : a = icache[i] /\ n = icache[i].nlink - 1
    OBVIOUS
<1>7. /\ dinode[i] \in Dinodes /\ a = Record(icache[i].ref, p, dinode[i])
      /\ n \in Int /\ dinode[i].blks \in SUBSET Blocks
    BY <1>3, <1>4, <1>6 DEF InodeTyped, Record, Dinodes
<1>8. PICK d \in Dinodes : d = Written(dinode[i], n, dinode[i].blks)
    BY <1>7, WrittenOK
<1>9. PICK h : h = icache[i].ref
    OBVIOUS
<1>10. LinkedThen(a, n, Nobody) = Record(icache[i].ref, Nobody, d)
  <2>1. PICK m : m = dinode[i]
      OBVIOUS
  <2>2. a = Record(h, p, m)
      BY <1>7, <1>9, <2>1
  <2>3. LinkedThen(a, n, Nobody) = Record(h, Nobody, Written(m, n, m.blks))
      BY <2>2, RecordLinksLock
  <2>4. QED
      BY <1>8, <1>9, <2>1, <2>3
<1>11. icache' = [icache EXCEPT ![i] = Record(icache[i].ref, Nobody, d)] /\ dinode' = [dinode EXCEPT ![i] = d]
  <2>1. icache' = [icache EXCEPT ![i] = LinkedThen(a, n, Nobody)] /\ dinode' = iupdate(dinode, LinkedThen(a, n, Nobody), i)
      BY <1>3, <1>6 DEF unlink_inode, LinkedThen
  <2>2. iupdate(dinode, Record(icache[i].ref, Nobody, d), i) = [dinode EXCEPT ![i] = d]
      BY IupdateRecord
  <2>3. QED
      BY <1>10, <2>1, <2>2
<1>12. d.type = dinode[i].type /\ d.blks = dinode[i].blks
    BY <1>8 DEF Written
<1>13. BlocksOwned' /\ bitmap' \subseteq Blocks
    BY <1>1, <1>3, <1>11, <1>12, BlocksSame DEF InodeInv, InodeTyped
<1>14. d.type # "free" /\ Nobody # p
    BY <1>4, <1>12, InodeAssumption DEF InodeAssumption
<1>15. QED
    BY <1>1, <1>3, <1>4, <1>5, <1>11, <1>13, <1>14, EntryWriteKeeps DEF Ended

-----------------------------------------------------------------------------
(* chdir(), read(), write(), close(), exit()                               *)

LEMMA ChdirKeeps == ASSUME InodeInv, NEW p \in Procs, chdir(p) PROVE InodeInv'
<1>1. /\ at[p].pc = "chdir" /\ ilock(at[p].ip) /\ dinode' = dinode
      /\ dir' = dir /\ bitmap' = bitmap /\ gen' = gen /\ cwd' = cwd /\ ofile' = ofile
    BY DEF chdir, disk
<1>2. PICK i \in Inums : AtIp(p, i, "chdir")
    BY <1>1, IpAt DEF WithIp
<1>3. /\ at[p].ip = i /\ ilock(i) /\ icache[i].ref > 0 /\ InodeTyped /\ LockedAt(at[p]) = {} /\ at[p].dp = 0
      /\ IsFrame(at[p]) /\ 0 \notin Inums
    BY <1>1, <1>2 DEF AtIp, InodeInv, LockedAt, WithDp, Linking
<1>4. Looked
    BY <1>3 DEF chdir, Looked
<1>5. CASE PutIp(p, at[p], "idle")
  <2>1. Ended(p)
      BY <1>1, <1>2, <1>5, EndMoves DEF WithDp, Linking
  <2>2. QED
      BY <1>1, <1>3, <1>4, <2>1, LookKeeps DEF Ended
<1>6. CASE PutThen(p, at[p], cwd[p], "chdir_set")
  <2>1. PICK c \in Inums \cup {0} : c = cwd[p]
      BY <1>3 DEF InodeTyped, NamesTyped
  <2>2. Moved(p, at[p], "iput", "chdir_set", i, 0, c)
      BY <1>3, <1>6, <2>1, PutMoves
  <2>3. Others(p) /\ IsFrame(at'[p]) /\ Label(at'[p]) = "chdir_set" /\ LockedAt(at'[p]) = {}
      BY <1>1, <2>2 DEF Moved, Others, Label, Putting, LockedAt
  <2>4. Shape(p)'
      BY <1>1, <1>2, <1>3, <2>1, <2>2, <2>3 DEF Moved, Shape, AtIp, WithIp, WithDp, Linking, Putting
  <2>5. NamesTyped'
      BY <1>1, <1>3 DEF InodeTyped, NamesTyped, Entered
  <2>6. ASSUME NEW k \in Inums PROVE Slots(p, k)' = Slots(p, k)
      BY <1>1, <1>2, <1>3, <2>1, <2>2, <2>3 DEF Slots, Moved, AtIp, Bit
  <2>7. QED
      BY <1>1, <1>3, <1>4, <2>3, <2>4, <2>5, <2>6, LookKeeps
<1>7. QED
    BY <1>5, <1>6 DEF chdir

LEMMA ChdirSetKeeps == ASSUME InodeInv, NEW p \in Procs, chdir_set(p) PROVE InodeInv'
<1>1. /\ at[p].pc = "chdir_set" /\ Looked /\ Goto(p, at[p], "idle") /\ dinode' = dinode
      /\ dir' = dir /\ bitmap' = bitmap /\ gen' = gen /\ cwd' = [cwd EXCEPT ![p] = at[p].ip] /\ ofile' = ofile
    BY DEF chdir_set, disk, Looked
<1>2. PICK i \in Inums : AtIp(p, i, "chdir_set")
    BY <1>1, IpAt DEF WithIp
<1>3. /\ at[p].ip = i /\ InodeTyped /\ LockedAt(at[p]) = {} /\ at[p].dp = 0 /\ 0 \notin Inums
      /\ cwd \in [Procs -> Inums \cup {0}]
    BY <1>1, <1>2 DEF AtIp, InodeInv, InodeTyped, NamesTyped, LockedAt, WithDp, Linking
<1>4. Moved(p, Idle, "idle", "idle", 0, 0, 0)
    BY <1>1, <1>3, IdleMoves
<1>5. Label(at'[p]) = "idle" /\ LockedAt(at'[p]) = {}
    BY <1>4 DEF Moved, Label, Putting, LockedAt
<1>6. Shape(p)'
    BY <1>3, <1>4, <1>5 DEF Moved, Shape, WithIp, WithDp, Linking, Putting, Idle
<1>7. cwd' \in [Procs -> Inums \cup {0}] /\ cwd'[p] = i /\ \A q \in Procs \ {p} : cwd'[q] = cwd[q]
    BY <1>1, <1>3
<1>8. Others(p) /\ IsFrame(at'[p]) /\ NamesTyped'
    BY <1>1, <1>3, <1>4, <1>7 DEF Moved, Others, InodeTyped, NamesTyped, Entered
<1>9. ASSUME NEW k \in Inums PROVE Slots(p, k)' = Slots(p, k)
    BY <1>1, <1>2, <1>3, <1>4, <1>5, <1>7 DEF Slots, Moved, AtIp, Bit
<1>10. QED
    BY <1>1, <1>3, <1>5, <1>6, <1>8, <1>9, LookKeeps

\* p is in no system call: its file, if it has one open.
LEMMA IdleAt ==
    ASSUME InodeInv, NEW p \in Procs, at[p].pc = "idle"
    PROVE  /\ at[p].ip = 0 /\ at[p].dp = 0 /\ at[p].put = 0 /\ Label(at[p]) = "idle" /\ LockedAt(at[p]) = {}
           /\ ofile[p].ip \in Inums \cup {0} /\ 0 \notin Inums /\ InodeTyped
           /\ ofile[p].ip # 0 => icache[ofile[p].ip].ref > 0
<1>1. Shape(p) /\ InodeTyped /\ 0 \notin Inums
    BY InodeAssumption DEF InodeInv, InodeAssumption
<1>2. at[p].ip = 0 /\ at[p].dp = 0 /\ at[p].put = 0 /\ Label(at[p]) = "idle" /\ LockedAt(at[p]) = {}
    BY <1>1 DEF Shape, Label, Putting, LockedAt, WithIp, WithDp, Linking
<1>3. ofile[p].ip \in Inums \cup {0}
    BY <1>1 DEF InodeTyped, NamesTyped
<1>4. ASSUME ofile[p].ip # 0 PROVE icache[ofile[p].ip].ref > 0
  <2>1. PICK i \in Inums : i = ofile[p].ip
      BY <1>3, <1>4
  <2>2. Slots(p, i) > 0
      BY <2>1 DEF Slots, Bit
  <2>3. QED
      BY <2>1, <2>2, RefNat
<1>5. QED
    BY <1>1, <1>2, <1>3, <1>4

LEMMA IdleEnds ==
    ASSUME InodeInv, NEW p \in Procs, at[p].pc = "idle", Goto(p, Idle, "idle"),
           dir' = dir, gen' = gen, cwd' = cwd, ofile' = ofile
    PROVE  Ended(p)
<1>1. /\ at[p].ip = 0 /\ at[p].dp = 0 /\ at[p].put = 0 /\ Label(at[p]) = "idle" /\ InodeTyped
    BY IdleAt
<1>2. Moved(p, Idle, "idle", "idle", 0, 0, 0)
    BY <1>1, IdleMoves
<1>3. Label(at'[p]) = "idle" /\ LockedAt(at'[p]) = {}
    BY <1>2 DEF Moved, Label, Putting, LockedAt
<1>4. Shape(p)'
    BY <1>1, <1>2, <1>3 DEF Moved, Shape, WithIp, WithDp, Linking, Putting, Idle
<1>5. Others(p) /\ IsFrame(at'[p]) /\ NamesTyped'
    BY <1>1, <1>2 DEF Moved, Others, InodeTyped, NamesTyped, Entered
<1>6. ASSUME NEW k \in Inums PROVE Slots(p, k)' = Slots(p, k)
    BY <1>1, <1>2, <1>3 DEF Slots, Moved
<1>7. QED
    BY <1>3, <1>4, <1>5, <1>6 DEF Ended

LEMMA FileReadKeeps == ASSUME InodeInv, NEW p \in Procs, read(p) PROVE InodeInv'
<1>1. /\ at[p].pc = "idle" /\ ofile[p].ip # 0 /\ ilock(ofile[p].ip) /\ Goto(p, Idle, "idle") /\ dinode' = dinode
      /\ icache' = [icache EXCEPT ![ofile[p].ip] = Loaded(ofile[p].ip)]
      /\ dir' = dir /\ bitmap' = bitmap /\ gen' = gen /\ cwd' = cwd /\ ofile' = ofile
    BY DEF read, Uses, disk
<1>2. LockedAt(at[p]) = {} /\ ofile[p].ip \in Inums /\ icache[ofile[p].ip].ref > 0
    BY <1>1, IdleAt
<1>3. Looked
    BY <1>1, <1>2 DEF Looked
<1>4. Ended(p)
    BY <1>1, IdleEnds
<1>5. QED
    BY <1>1, <1>2, <1>3, <1>4, LookKeeps DEF Ended

LEMMA WriteFileKeeps == ASSUME InodeInv, NEW p \in Procs, write(p) PROVE InodeInv'
<1>1. /\ at[p].pc = "idle" /\ ofile[p].ip # 0 /\ ilock(ofile[p].ip) /\ Goto(p, Idle, "idle")
      /\ dir' = dir /\ gen' = gen /\ cwd' = cwd /\ ofile' = ofile
    BY DEF write, Uses
<1>2. PICK i \in Inums : i = ofile[p].ip /\ icache[i].ref > 0 /\ ilock(i) /\ LockedAt(at[p]) = {} /\ InodeTyped
    BY <1>1, IdleAt
<1>3. Loaded(i) = Record(icache[i].ref, Nobody, dinode[i]) /\ dinode[i].type # "free" /\ icache[i].lock = Nobody
    BY <1>2, LoadedRecord DEF ilock
<1>4. Ended(p)
    BY <1>1, IdleEnds
<1>5. /\ dinode[i] \in Dinodes /\ dinode \in [Inums -> Dinodes] /\ bitmap \subseteq Blocks /\ Nobody # p
      /\ Loaded(i).blks = dinode[i].blks
    BY <1>2, <1>3, InodeAssumption DEF InodeTyped, InodeAssumption, Record
<1>6. PICK s : s = IF Loaded(i).blks = {} THEN {Least(Blocks \ bitmap)} ELSE Loaded(i).blks
    OBVIOUS
<1>7. Loaded(i).blks = {} => Least(Blocks \ bitmap) \in Blocks \ bitmap
  <2>1. SUFFICES ASSUME Loaded(i).blks = {} PROVE Least(Blocks \ bitmap) \in Blocks \ bitmap
      OBVIOUS
  <2>2. bitmap # Blocks
      BY <1>2, <2>1 DEF write
  <2>3. Blocks \ bitmap \subseteq Nat /\ Blocks \ bitmap # {}
      BY <1>5, <2>2, InodeAssumption DEF InodeAssumption
  <2>4. QED
      BY <2>3, LeastIn
<1>8. s \in SUBSET Blocks /\ dinode[i].nlink \in Int
    BY <1>5, <1>6, <1>7 DEF Dinodes
<1>9. PICK d \in Dinodes : d = Written(dinode[i], dinode[i].nlink, s)
    BY <1>5, <1>8, WrittenOK
<1>10. d.type = dinode[i].type /\ d.blks = s /\ d.type # "free"
    BY <1>3, <1>9 DEF Written
<1>11. PICK a : a = Loaded(i)
    OBVIOUS
<1>12. [a EXCEPT !.blks = s] = Record(icache[i].ref, Nobody, d)
  <2>1. a = Record(icache[i].ref, Nobody, dinode[i])
      BY <1>3, <1>11
  <2>2. QED
      BY <1>9, <2>1, RecordBlks
<1>13. PICK h : h = IF Loaded(i).blks = {} THEN [Loaded(i) EXCEPT !.blks = {Least(Blocks \ bitmap)}] ELSE Loaded(i)
    OBVIOUS
<1>14. icache' = [icache EXCEPT ![i] = h] /\ dinode' = iupdate(dinode, h, i) /\ bitmap' = bitmap \cup h.blks
    BY <1>2, <1>13 DEF write
<1>15. h = Record(icache[i].ref, Nobody, d)
  <2>1. CASE Loaded(i).blks = {}
    <3>1. s = {Least(Blocks \ bitmap)}
        BY <1>6, <2>1
    <3>2. h = [Loaded(i) EXCEPT !.blks = {Least(Blocks \ bitmap)}]
        BY <1>13, <2>1
    <3>3. QED
        BY <1>11, <1>12, <3>1, <3>2
  <2>2. CASE Loaded(i).blks # {}
    <3>1. s = dinode[i].blks /\ h = Loaded(i)
        BY <1>5, <1>6, <1>13, <2>2
    <3>2. d = dinode[i]
        BY <1>5, <1>9, <3>1 DEF Written, Dinodes
    <3>3. QED
        BY <1>3, <3>1, <3>2
  <2>3. QED
      BY <2>1, <2>2
<1>16. /\ icache' = [icache EXCEPT ![i] = Record(icache[i].ref, Nobody, d)] /\ dinode' = [dinode EXCEPT ![i] = d]
       /\ bitmap' = bitmap \cup s
  <2>1. iupdate(dinode, Record(icache[i].ref, Nobody, d), i) = [dinode EXCEPT ![i] = d]
      BY IupdateRecord
  <2>2. h.blks = s
      BY <1>10, <1>15 DEF Record
  <2>3. QED
      BY <1>14, <1>15, <2>1, <2>2
<1>17. BlocksOwned'
  <2>1. CASE Loaded(i).blks = {}
    <3>1. PICK b \in Blocks \ bitmap : b = Least(Blocks \ bitmap)
        BY <1>7, <2>1
    <3>2. b \notin bitmap /\ bitmap' = bitmap \cup {b} /\ dinode'[i].blks = {b} /\ dinode[i].blks = {}
        BY <1>5, <1>6, <1>10, <1>16, <2>1, <3>1
    <3>3. dinode'[i].type # "free" /\ \A j \in Inums \ {i} : dinode'[j].blks = dinode[j].blks /\ dinode'[j].type = dinode[j].type
        BY <1>5, <1>10, <1>16
    <3>4. QED
        BY <3>2, <3>3, BlocksAdded DEF InodeInv
  <2>2. CASE Loaded(i).blks # {}
    <3>1. dinode[i].blks \subseteq bitmap
        BY DEF InodeInv, BlocksOwned
    <3>2. bitmap' = bitmap
        BY <1>5, <1>6, <1>16, <2>2, <3>1
    <3>3. \A j \in Inums : dinode'[j].blks = dinode[j].blks /\ (dinode'[j].type = "free" => dinode[j].type = "free")
        BY <1>5, <1>6, <1>10, <1>16, <2>2
    <3>4. QED
        BY <3>2, <3>3, BlocksSame DEF InodeInv
  <2>3. QED
      BY <2>1, <2>2
<1>18. bitmap' \subseteq Blocks /\ at[p].pc # "iput_invalid"
    BY <1>1, <1>5, <1>8, <1>16
<1>19. QED
    BY <1>2, <1>3, <1>4, <1>5, <1>10, <1>16, <1>17, <1>18, EntryWriteKeeps DEF Ended

\* The open file is closed: its reference is to be put.
LEMMA FileClosed ==
    ASSUME InodeInv, NEW p \in Procs, at[p].pc = "idle", NEW l \in {"idle", "exit_cwd"},
           l = "exit_cwd" => cwd[p] # 0,
           \/ ofile[p].ip # 0 /\ PutThen(p, Idle, ofile[p].ip, l)
           \/ ofile[p].ip = 0 /\ l = "exit_cwd" /\ Goto(p, Idle, l),
           ofile' = [ofile EXCEPT ![p] = NoFile],
           icache' = icache, dinode' = dinode, dir' = dir, bitmap' = bitmap, gen' = gen, cwd' = cwd
    PROVE  InodeInv'
<1>1. /\ at[p].ip = 0 /\ at[p].dp = 0 /\ at[p].put = 0 /\ Label(at[p]) = "idle" /\ LockedAt(at[p]) = {} /\ 0 \notin Inums
      /\ ofile[p].ip \in Inums \cup {0} /\ InodeTyped /\ ofile \in [Procs -> [ip : Inums \cup {0}, gen : Nat]]
    BY IdleAt DEF InodeTyped, NamesTyped
<1>2. IsFrame(Idle) /\ Idle.ip = 0 /\ Idle.dp = 0 /\ Idle.put = 0 /\ Idle.then = "idle" /\ ~Idle.second
    BY DEF Idle, IsFrame
<1>3. PICK i \in Inums \cup {0}, c \in {"iput", "exit_cwd"}, t \in {"idle", "exit_cwd"} :
        /\ i = ofile[p].ip /\ Moved(p, Idle, c, t, 0, 0, i)
        /\ (c = "iput" <=> i # 0) /\ (c = "iput" => t = l) /\ (c = "exit_cwd" => l = "exit_cwd")
  <2>1. CASE ofile[p].ip # 0 /\ PutThen(p, Idle, ofile[p].ip, l)
    <3>1. Moved(p, Idle, "iput", l, Idle.ip, Idle.dp, ofile[p].ip)
        BY <1>1, <1>2, <2>1, PutMoves
    <3>2. QED
        BY <1>1, <1>2, <2>1, <3>1
  <2>2. CASE ofile[p].ip = 0 /\ l = "exit_cwd" /\ Goto(p, Idle, l)
    <3>1. Moved(p, Idle, l, Idle.then, Idle.ip, Idle.dp, Idle.put)
        BY <1>1, <1>2, <2>2, GotoMoves
    <3>2. QED
        BY <1>1, <1>2, <2>2, <3>1
  <2>3. QED
      BY <2>1, <2>2
<1>4. Label(at'[p]) = l /\ LockedAt(at'[p]) = {}
    BY <1>3 DEF Moved, Label, Putting, LockedAt
<1>5. Shape(p)'
    BY <1>1, <1>2, <1>3, <1>4 DEF Moved, Shape, WithIp, WithDp, Linking, Putting
<1>6. NoFile \in [ip : Inums \cup {0}, gen : Nat] /\ NoFile.ip = 0
    BY DEF NoFile
<1>7. /\ ofile' \in [Procs -> [ip : Inums \cup {0}, gen : Nat]] /\ ofile'[p].ip = 0
      /\ \A q \in Procs \ {p} : ofile'[q] = ofile[q]
    BY <1>1, <1>6
<1>8. Others(p) /\ IsFrame(at'[p]) /\ NamesTyped'
    BY <1>1, <1>3, <1>7 DEF Moved, Others, InodeTyped, NamesTyped, Entered
<1>9. ASSUME NEW k \in Inums PROVE Slots(p, k)' = Slots(p, k)
    BY <1>1, <1>3, <1>4, <1>7 DEF Slots, Moved, Bit
<1>10. Looked
    BY DEF Looked
<1>11. QED
    BY <1>1, <1>4, <1>5, <1>8, <1>9, <1>10, LookKeeps

LEMMA CloseKeeps == ASSUME InodeInv, NEW p \in Procs, close(p) PROVE InodeInv'
<1>1. /\ at[p].pc = "idle" /\ ofile[p].ip # 0 /\ PutThen(p, Idle, ofile[p].ip, "idle")
      /\ ofile' = [ofile EXCEPT ![p] = NoFile] /\ icache' = icache /\ dinode' = dinode /\ dir' = dir
      /\ bitmap' = bitmap /\ gen' = gen /\ cwd' = cwd
    BY DEF close, Uses, disk
<1>2. QED
    BY <1>1, FileClosed

LEMMA ExitKeeps == ASSUME InodeInv, NEW p \in Procs, exit(p) PROVE InodeInv'
<1>1. /\ at[p].pc = "idle" /\ cwd[p] # 0
      /\ \/ ofile[p].ip # 0 /\ PutThen(p, Idle, ofile[p].ip, "exit_cwd")
         \/ ofile[p].ip = 0 /\ Goto(p, Idle, "exit_cwd")
      /\ ofile' = [ofile EXCEPT ![p] = NoFile] /\ icache' = icache /\ dinode' = dinode /\ dir' = dir
      /\ bitmap' = bitmap /\ gen' = gen /\ cwd' = cwd
    BY DEF exit, disk
<1>2. QED
    BY <1>1, FileClosed

LEMMA ExitCwdKeeps == ASSUME InodeInv, NEW p \in Procs, exit_cwd(p) PROVE InodeInv'
<1>1. /\ at[p].pc = "exit_cwd" /\ Looked /\ PutThen(p, at[p], cwd[p], "idle") /\ dinode' = dinode
      /\ dir' = dir /\ bitmap' = bitmap /\ gen' = gen /\ cwd' = [cwd EXCEPT ![p] = 0] /\ ofile' = ofile
    BY DEF exit_cwd, disk, Looked
<1>2. Shape(p) /\ IsFrame(at[p]) /\ InodeTyped /\ 0 \notin Inums /\ cwd \in [Procs -> Inums \cup {0}]
    BY InodeAssumption DEF InodeInv, InodeTyped, NamesTyped, InodeAssumption
<1>3. /\ at[p].ip = 0 /\ at[p].dp = 0 /\ at[p].put = 0 /\ Label(at[p]) = "exit_cwd" /\ LockedAt(at[p]) = {}
      /\ at[p].then # "chdir_set" /\ cwd[p] # 0
    BY <1>1, <1>2 DEF Shape, Label, Putting, LockedAt, WithIp, WithDp, Linking
<1>4. PICK c \in Inums : c = cwd[p]
    BY <1>2, <1>3
<1>5. Moved(p, at[p], "iput", "idle", 0, 0, c)
    BY <1>1, <1>2, <1>3, <1>4, PutMoves
<1>6. Label(at'[p]) = "idle" /\ LockedAt(at'[p]) = {}
    BY <1>5 DEF Moved, Label, Putting, LockedAt
<1>7. Shape(p)'
    BY <1>2, <1>3, <1>5, <1>6 DEF Moved, Shape, WithIp, WithDp, Linking, Putting
<1>8. cwd' \in [Procs -> Inums \cup {0}] /\ cwd'[p] = 0 /\ \A q \in Procs \ {p} : cwd'[q] = cwd[q]
    BY <1>1, <1>2
<1>9. Others(p) /\ IsFrame(at'[p]) /\ NamesTyped'
    BY <1>1, <1>2, <1>5, <1>8 DEF Moved, Others, InodeTyped, NamesTyped, Entered
<1>10. ASSUME NEW k \in Inums PROVE Slots(p, k)' = Slots(p, k)
    BY <1>1, <1>2, <1>3, <1>4, <1>5, <1>6, <1>8 DEF Slots, Moved, Bit
<1>11. QED
    BY <1>1, <1>3, <1>6, <1>7, <1>9, <1>10, LookKeeps

-----------------------------------------------------------------------------
(* The invariant holds.                                                    *)

\* The kernel stops, or everybody rests.
LEMMA SameKeeps ==
    ASSUME InodeInv, dinode' = dinode, dir' = dir, bitmap' = bitmap, gen' = gen, icache' = icache,
           cwd' = cwd, ofile' = ofile, at' = at
    PROVE  InodeInv'
<1>1. InodeTyped'
    BY DEF InodeInv, InodeTyped, NamesTyped, Entered, IsFrame
<1>2. \A p \in Procs : Shape(p)'
    BY DEF InodeInv, Shape
<1>3. \A i \in Inums : References(i)' = References(i)
    BY DEF References, CwdRef
<1>4. RefsCounted'
    BY <1>3 DEF InodeInv, RefsCounted
<1>5. LocksHeld'
    BY DEF InodeInv, LocksHeld, Locked
<1>6. \A i \in Inums : CopyOK(i)'
    BY DEF InodeInv, CopyOK, Copy, Freeing
<1>7. BlocksOwned'
    BY DEF InodeInv, BlocksOwned
<1>8. QED
    BY <1>1, <1>2, <1>4, <1>5, <1>6, <1>7 DEF InodeInv

LEMMA InodeNext == ASSUME InodeInv, [Next]_vars PROVE InodeInv'
<1>1. CASE UNCHANGED vars \/ rest
    BY <1>1, SameKeeps DEF vars, disk, rest
<1>2. ASSUME NEW p \in Procs, Step(p) PROVE InodeInv'
  <2>1. ASSUME NEW c, begin(p, c) PROVE InodeInv'
      BY <2>1, NamexBeginKeeps
  <2>2. CASE iput(p) \/ iput_free(p) \/ iput_invalid(p) \/ iput_drop(p)
      BY <2>2, IputKeeps, IputFreeKeeps, IputInvalidKeeps, IputDropKeeps
  <2>3. CASE namex(p) \/ namex_end(p)
      BY <2>3, NamexKeeps, NamexEndKeeps
  <2>4. CASE open(p) \/ create(p) \/ create_new(p) \/ create_end(p)
      BY <2>4, OpenKeeps, CreateKeeps, CreateNewKeeps, CreateEndKeeps
  <2>5. CASE link_old(p) \/ link_path(p) \/ link_new(p) \/ link_put(p) \/ link_bad(p)
      BY <2>5, LinkOldKeeps, LinkPathKeeps, LinkNewKeeps, LinkPutKeeps, LinkBadKeeps
  <2>6. CASE unlink(p) \/ unlink_entry(p) \/ unlink_bad(p) \/ unlink_inode(p)
      BY <2>6, UnlinkKeeps, UnlinkEntryKeeps, UnlinkBadKeeps, UnlinkInodeKeeps
  <2>7. CASE chdir(p) \/ chdir_set(p) \/ read(p) \/ write(p)
      BY <2>7, ChdirKeeps, ChdirSetKeeps, FileReadKeeps, WriteFileKeeps
  <2>8. CASE close(p) \/ exit(p) \/ exit_cwd(p)
      BY <2>8, CloseKeeps, ExitKeeps, ExitCwdKeeps
  <2>9. CASE ilock_panic(p) \/ no_space(p)
    <3>1. UNCHANGED <<disk, icache, cwd, ofile, at, calls, left>>
        BY <2>9 DEF ilock_panic, no_space
    <3>2. QED
        BY <3>1, SameKeeps DEF disk
  <2>10. QED
      BY <1>2, <2>1, <2>2, <2>3, <2>4, <2>5, <2>6, <2>7, <2>8, <2>9 DEF Step
<1>3. QED
    BY <1>1, <1>2 DEF Next

\* The values of a function on a finite set are finitely many.
LEMMA ValuesFinite ==
    ASSUME NEW S, IsFiniteSet(S), NEW f, DOMAIN f = S, f = [x \in S |-> f[x]]
    PROVE  IsFiniteSet({f[x] : x \in S})
<1> DEFINE T == {f[x] : x \in S}
<1>1. f \in [S -> T] /\ \A y \in T : \E x \in S : f[x] = y
    OBVIOUS
<1> HIDE DEF T
<1>2. f \in Surjection(S, T)
    BY <1>1 DEF Surjection
<1>3. IsFiniteSet(T)
    BY <1>2, FS_Surjection
<1>4. QED
    BY <1>3 DEF T

\* The names of an inode in a tree are finitely many.
TreeNamesOf(t, i) ==
    UNION {{<<d, n>> : n \in {m \in DOMAIN t.dirs[d] \ {".", ".."} : t.dirs[d][m] = i}} : d \in DOMAIN t.dirs}

LEMMA TreeNames ==
    ASSUME NEW t, Tree(t), NEW i
    PROVE  Cardinality(TreeNamesOf(t, i)) \in Nat
<1> DEFINE D == DOMAIN t.dirs
           N(d) == {m \in DOMAIN t.dirs[d] \ {".", ".."} : t.dirs[d][m] = i}
           E(d) == {<<d, n>> : n \in N(d)}
           F == {E(d) : d \in D}
<1>1. IsFiniteSet(D) /\ \A d \in D : IsFiniteSet(DOMAIN t.dirs[d])
    BY InodeAssumption, FS_Subset DEF Tree, InodeAssumption
<1>2. ASSUME NEW d \in D PROVE IsFiniteSet(E(d))
  <2>1. IsFiniteSet(N(d))
      BY <1>1, FS_Subset
  <2> HIDE DEF N
  <2> DEFINE f == [n \in N(d) |-> <<d, n>>]
  <2>2. DOMAIN f = N(d) /\ f = [n \in N(d) |-> f[n]] /\ E(d) = {f[n] : n \in N(d)}
      OBVIOUS
  <2> HIDE DEF f, E
  <2>3. QED
      BY <2>1, <2>2, ValuesFinite
<1>3. IsFiniteSet(F)
  <2> DEFINE g == [d \in D |-> E(d)]
  <2> HIDE DEF E, D
  <2>1. DOMAIN g = D /\ g = [d \in D |-> g[d]] /\ F = {g[d] : d \in D}
      OBVIOUS
  <2> HIDE DEF g, F
  <2>2. QED
      BY <1>1, <2>1, ValuesFinite
<1>4. IsFiniteSet(UNION F)
  <2>1. \A S \in F : IsFiniteSet(S)
      BY <1>2
  <2> HIDE DEF F
  <2>2. QED
      BY <1>3, <2>1, FS_UNION
<1>5. Cardinality(UNION F) \in Nat
  <2> HIDE DEF F
  <2>1. QED
      BY <1>4, FS_CardinalityType
<1>6. UNION F = TreeNamesOf(t, i)
    BY DEF TreeNamesOf
<1> HIDE DEF F
<1>7. QED
    BY <1>5, <1>6

\* The tree that the processes find.
InitTree(t) ==
    /\ t \in Trees
    /\ dir = [i \in Inums |-> IF i \in DOMAIN t.dirs THEN t.dirs[i] ELSE NoDir]
    /\ bitmap = DOMAIN t.dirs
    /\ icache = [i \in Inums |-> [NoEntry EXCEPT !.ref = Cardinality({p \in Procs : t.cwd[p] = i})]]
    /\ cwd = t.cwd
    /\ ofile = [p \in Procs |-> NoFile] /\ at = [p \in Procs |-> Idle] /\ gen = [i \in Inums |-> 0]

\* The inode i on the disk, with n names.
InitDinode(t, i, n) ==
    IF i \in DOMAIN t.dirs THEN [type |-> "dir", blks |-> {i}, nlink |-> n]
    ELSE IF i \in t.files THEN [type |-> "file", blks |-> {}, nlink |-> n]
    ELSE NoDinode

LEMMA InitTreeOK ==
    ASSUME Init
    PROVE  \E t, links : /\ InitTree(t) /\ \A i \in Inums : links[i] \in Int
                         /\ dinode = [i \in Inums |-> InitDinode(t, i, links[i])]
<1>1. PICK t \in Trees :
    LET dirs == DOMAIN t.dirs
        names(i) == UNION {{<<d, n>> : n \in {m \in DOMAIN t.dirs[d] \ {".", ".."} : t.dirs[d][m] = i}}
                           : d \in dirs}
        subs(i) == {d \in dirs \ {ROOTINO} : t.dirs[d][".."] = i}
        held(i) == Cardinality({p \in Procs : t.cwd[p] = i}) IN
    /\ dir = [i \in Inums |-> IF i \in dirs THEN t.dirs[i] ELSE NoDir]
    /\ dinode = [i \in Inums |->
                   IF i \in dirs
                   THEN [type |-> "dir", blks |-> {i},
                         nlink |-> Cardinality(names(i)) + Cardinality(subs(i))
                                   + IF i = ROOTINO THEN 1 ELSE 0]
                   ELSE IF i \in t.files THEN [type |-> "file", blks |-> {}, nlink |-> Cardinality(names(i))]
                   ELSE NoDinode]
    /\ bitmap = dirs
    /\ icache = [i \in Inums |-> [NoEntry EXCEPT !.ref = held(i)]]
    /\ cwd = t.cwd
    /\ ofile = [p \in Procs |-> NoFile]
    /\ at = [p \in Procs |-> Idle]
    /\ gen = [i \in Inums |-> 0]
    BY DEF Init
<1> DEFINE dirs == DOMAIN t.dirs
           names(i) == UNION {{<<d, n>> : n \in {m \in DOMAIN t.dirs[d] \ {".", ".."} : t.dirs[d][m] = i}}
                              : d \in dirs}
           subs(i) == {d \in dirs \ {ROOTINO} : t.dirs[d][".."] = i}
           all(i) == Cardinality(names(i)) + Cardinality(subs(i)) + IF i = ROOTINO THEN 1 ELSE 0
           links == [i \in Inums |-> IF i \in dirs THEN all(i) ELSE Cardinality(names(i))]
<1>2. Tree(t)
    BY InodeAssumption DEF InodeAssumption
<1>3. ASSUME NEW i \in Inums PROVE Cardinality(names(i)) \in Nat
  <2>1. names(i) = TreeNamesOf(t, i)
      BY DEF TreeNamesOf
  <2> HIDE DEF names
  <2>2. QED
      BY <1>2, <2>1, TreeNames
<1>4. \A i \in Inums : Cardinality(subs(i)) \in Nat
    BY <1>2, InodeAssumption, FS_Subset, FS_CardinalityType DEF Tree, InodeAssumption
<1>5. InitTree(t)
    BY <1>1 DEF InitTree
<1>6. dinode = [i \in Inums |->
                   IF i \in dirs THEN [type |-> "dir", blks |-> {i}, nlink |-> all(i)]
                   ELSE IF i \in t.files THEN [type |-> "file", blks |-> {}, nlink |-> Cardinality(names(i))]
                   ELSE NoDinode]
    BY <1>1
<1> HIDE DEF names, subs
<1>7. \A i \in Inums : links[i] \in Int
    BY <1>3, <1>4
<1>8. dinode = [i \in Inums |-> InitDinode(t, i, links[i])]
    BY <1>6 DEF InitDinode
<1> HIDE DEF links
<1>9. QED
    BY <1>5, <1>7, <1>8, Zenon

LEMMA InodeInit == ASSUME Init PROVE InodeInv
<1>1. PICK t, links : /\ InitTree(t) /\ \A i \in Inums : links[i] \in Int
                      /\ dinode = [i \in Inums |-> InitDinode(t, i, links[i])]
    BY InitTreeOK
<1>2. /\ Tree(t) /\ 0 \notin Inums /\ Nobody \notin Procs /\ IsFiniteSet(Procs)
      /\ DOMAIN t.dirs \subseteq Inums /\ DOMAIN t.dirs \subseteq Blocks /\ t.cwd \in [Procs -> Inums]
    BY <1>1, InodeAssumption DEF InitTree, InodeAssumption, Tree
<1>3. /\ \A p \in Procs : at[p] = Idle /\ ofile[p] = NoFile /\ cwd[p] = t.cwd[p]
      /\ \A i \in Inums : icache[i] = [NoEntry EXCEPT !.ref = Cardinality({p \in Procs : t.cwd[p] = i})]
    BY <1>1 DEF InitTree
<1>4. ASSUME NEW i \in Inums
      PROVE  /\ dinode[i] \in Dinodes /\ dinode[i].blks = IF i \in DOMAIN t.dirs THEN {i} ELSE {}
             /\ dinode[i].type = "free" => dinode[i].blks = {}
  <2>1. dinode[i] = InitDinode(t, i, links[i]) /\ links[i] \in Int
      BY <1>1
  <2>2. PICK n \in Int : n = links[i]
      BY <2>1
  <2>3. CASE i \in DOMAIN t.dirs
      BY <1>2, <2>1, <2>2, <2>3 DEF InitDinode, Dinodes, Types
  <2>4. CASE i \notin DOMAIN t.dirs
      BY <2>1, <2>2, <2>4 DEF InitDinode, Dinodes, Types, NoDinode
  <2>5. QED
      BY <2>3, <2>4
<1>5. ASSUME NEW i \in Inums
      PROVE  /\ icache[i] \in Entries /\ ~icache[i].valid /\ icache[i].lock = Nobody
             /\ icache[i].ref = Cardinality({p \in Procs : t.cwd[p] = i})
  <2>1. PICK n \in Int : n = Cardinality({p \in Procs : t.cwd[p] = i})
    <3> DEFINE S == {p \in Procs : t.cwd[p] = i}
    <3>1. S \subseteq Procs
        OBVIOUS
    <3> HIDE DEF S
    <3>2. Cardinality(S) \in Nat
        BY <1>2, <3>1, FS_Subset, FS_CardinalityType
    <3>3. QED
        BY <3>2 DEF S
  <2>2. icache[i] = [ref |-> n, valid |-> FALSE, lock |-> Nobody, type |-> "free", nlink |-> 0, blks |-> {}]
      BY <1>3, <2>1 DEF NoEntry
  <2>3. QED
      BY <2>1, <2>2 DEF Entries, Types
<1>6. InodeTyped
  <2>1. IsFrame(Idle) /\ NoFile \in [ip : Inums \cup {0}, gen : Nat] /\ Entered(NoDir)
      BY DEF IsFrame, Idle, NoFile, Entered, NoDir
  <2>2. dinode \in [Inums -> Dinodes] /\ icache \in [Inums -> Entries] /\ bitmap \subseteq Blocks
      BY <1>1, <1>2, <1>4, <1>5 DEF InitTree
  <2>3. dir = [i \in Inums |-> dir[i]] /\ \A i \in Inums : Entered(dir[i])
      BY <1>1, <1>2, <2>1 DEF InitTree, Tree, Entered
  <2>4. cwd \in [Procs -> Inums \cup {0}] /\ gen \in [Inums -> Nat]
        /\ ofile \in [Procs -> [ip : Inums \cup {0}, gen : Nat]]
      BY <1>1, <1>2, <2>1 DEF InitTree
  <2>5. at = [p \in Procs |-> at[p]] /\ \A p \in Procs : IsFrame(at[p])
      BY <1>1, <1>3, <2>1 DEF InitTree
  <2>6. QED
      BY <2>2, <2>3, <2>4, <2>5 DEF InodeTyped, NamesTyped
<1>7. ASSUME NEW p \in Procs
      PROVE  Shape(p) /\ LockedAt(at[p]) = {} /\ CwdRef(p) = t.cwd[p] /\ at[p].pc # "iput_invalid"
             /\ at[p].ip = 0 /\ at[p].dp = 0 /\ at[p].put = 0 /\ ofile[p].ip = 0
    BY <1>3 DEF Shape, LockedAt, CwdRef, Label, Putting, Idle, WithIp, WithDp, Linking, NoFile
<1>8. RefsCounted
  <2>1. SUFFICES ASSUME NEW i \in Inums PROVE icache[i].ref = References(i)
      BY DEF RefsCounted
  <2> DEFINE A1 == {p \in Procs : at[p].ip = i}
             A2 == {p \in Procs : at[p].dp = i}
             A3 == {p \in Procs : at[p].put = i}
             A4 == {p \in Procs : ofile[p].ip = i}
             A5 == {p \in Procs : CwdRef(p) = i}
             S == {p \in Procs : t.cwd[p] = i}
  <2>2. References(i) = Cardinality(A1) + Cardinality(A2) + Cardinality(A3) + Cardinality(A4) + Cardinality(A5)
      BY DEF References
  <2>3. A1 = {} /\ A2 = {} /\ A3 = {} /\ A4 = {} /\ A5 = S /\ S \subseteq Procs
      BY <1>2, <1>7
  <2>4. icache[i].ref = Cardinality(S)
      BY <1>5
  <2> HIDE DEF A1, A2, A3, A4, A5, S
  <2>5. Cardinality({}) = 0 /\ Cardinality(S) \in Nat
      BY <1>2, <2>3, FS_Subset, FS_CardinalityType, FS_EmptySet
  <2>6. QED
      BY <2>2, <2>3, <2>4, <2>5
<1>9. LocksHeld
    BY <1>2, <1>5, <1>7, LockedLabel DEF LocksHeld
<1>10. \A i \in Inums : CopyOK(i)
    BY <1>5 DEF CopyOK
<1>11. BlocksOwned
  <2>1. bitmap = UNION {dinode[i].blks : i \in Inums}
    <3>1. ASSUME NEW x PROVE x \in bitmap <=> \E i \in Inums : x \in dinode[i].blks
      <4>1. x \in bitmap <=> x \in DOMAIN t.dirs
          BY <1>1 DEF InitTree
      <4>2. ASSUME x \in DOMAIN t.dirs PROVE \E i \in Inums : x \in dinode[i].blks
        <5>1. x \in Inums /\ x \in dinode[x].blks
            BY <1>2, <1>4, <4>2
        <5>2. QED
            BY <5>1
      <4>3. ASSUME NEW i \in Inums, x \in dinode[i].blks PROVE x \in DOMAIN t.dirs
          BY <1>4, <4>3
      <4>4. QED
          BY <4>1, <4>2, <4>3
    <3>2. QED
        BY <3>1
  <2>2. QED
      BY <1>4, <2>1 DEF BlocksOwned
<1>12. QED
    BY <1>6, <1>7, <1>8, <1>9, <1>10, <1>11 DEF InodeInv

\* What iput() finds last, nobody has locked.
LEMMA LastUnlocked ==
    ASSUME InodeInv, NEW p \in Procs, at[p].pc = "iput", icache[at[p].put].ref = 1
    PROVE  icache[at[p].put].lock = Nobody
<1>1. Shape(p) /\ IsFrame(at[p]) /\ InodeTyped
    BY DEF InodeInv, InodeTyped
<1>2. PICK i \in Inums : i = at[p].put
    BY <1>1 DEF Shape, Putting, IsFrame
<1>3. SUFFICES ASSUME icache[i].lock # Nobody PROVE FALSE
    BY <1>2
<1>4. PICK q \in Procs : icache[i].lock = q /\ i \in Locked(q)
    BY <1>1, <1>3 DEF InodeInv, InodeTyped, Entries, LocksHeld
<1>5. Slots(p, i) \in Nat /\ Slots(q, i) \in Nat /\ Slots(q, i) >= 1 /\ icache[i].ref = 1
    BY <1>2, <1>4, LockedSlot, SlotsNat
<1>6. Slots(p, i) >= 1
    BY <1>2 DEF Slots, Bit
<1>7. CASE q = p
  <2>1. at[p].ip = i \/ at[p].dp = i
      BY <1>4, <1>7, LockedLabel DEF LockedAt
  <2>2. Slots(p, i) >= 2
      BY <1>2, <2>1 DEF Slots, Bit
  <2>3. icache[i].ref >= Slots(p, i)
      BY RefHeld DEF InodeInv
  <2>4. QED
      BY <1>5, <2>2, <2>3
<1>8. CASE q # p
  <2>1. icache[i].ref >= Slots(p, i) + Slots(q, i)
      BY <1>8, RefHeld DEF InodeInv
  <2>2. QED
      BY <1>5, <1>6, <2>1
<1>9. QED
    BY <1>7, <1>8

LEMMA InodeInvOK == ASSUME InodeInv PROVE InodeOK
<1>1. \A i \in Inums : icache[i].ref = References(i)
    BY DEF InodeInv, RefsCounted
<1>2. \A i \in Inums : icache[i].lock \in Procs \cup {Nobody}
    BY DEF InodeInv, InodeTyped, Entries
<1>3. \A i \in Inums, p \in Procs : icache[i].lock = p <=> i \in Locked(p)
    BY DEF InodeInv, LocksHeld
<1>4. \A i \in Inums :
         icache[i].ref > 0 /\ icache[i].valid /\ ~(\E p \in Procs : at[p].pc = "iput_invalid" /\ at[p].put = i) =>
         dinode[i] = [type |-> icache[i].type, nlink |-> icache[i].nlink, blks |-> icache[i].blks]
    BY DEF InodeInv, CopyOK, Copy, Freeing
<1>5. /\ \A i, j \in Inums : i # j => dinode[i].blks \cap dinode[j].blks = {}
      /\ bitmap = UNION {dinode[i].blks : i \in Inums}
    BY DEF InodeInv, BlocksOwned
<1>6. \A p \in Procs : at[p].pc = "iput" =>
         LET u == icache[at[p].put] IN u.ref = 1 /\ u.valid /\ u.nlink = 0 => u.lock = Nobody
    BY LastUnlocked
<1>7. QED
    BY <1>1, <1>2, <1>3, <1>4, <1>5, <1>6 DEF InodeOK

\* InodeOK holds always, for any tree to start from: a reference count counts the
\* references there are, an inode is locked by the process whose position says so and by
\* nobody else, a valid copy is what the disk has, no block is two files' and the bitmap
\* shows those that are somebody's, and who gives up the last reference in iput() finds
\* the lock free (fs.c:113-158, 216-219, 336-344).
THEOREM InodeSound == Spec => []InodeOK
<1>1. Init => InodeInv
    BY InodeInit
<1>2. InodeInv /\ [Next]_vars => InodeInv'
    BY InodeNext
<1>3. InodeInv => InodeOK
    BY InodeInvOK
<1>4. QED
    BY <1>1, <1>2, <1>3, PTL DEF Spec
=============================================================================
