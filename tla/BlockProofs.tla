---------------------------- MODULE BlockProofs ----------------------------
(***************************************************************************)
(* Proofs about the buffer cache and the disk driver (BlockIO), for every  *)
(* number of processes, buffers, blocks and descriptors.                   *)
(*                                                                         *)
(* The argument: who sleeps in virtio_disk_rw() holds the lock of its      *)
(* buffer and is the only one with a chain for it (Holders, Waiters), so a *)
(* report that clears b->disk means that very request (Reports), and what  *)
(* the buffer has from then on is what the disk has, until its holder      *)
(* writes to it (Contents).  A buffer that is recycled has nobody who uses *)
(* it (Counted), so nobody's block is taken away; and a miss gives a block *)
(* to a buffer only when no other has it (OneCopy).  No descriptor is lost *)
(* or shared (Descriptors), also when alloc3_desc() fails half way.        *)
(***************************************************************************)
EXTENDS BlockIO, FiniteSetTheorems, WellFoundedInduction, TLAPS

Places == {"user", "lock", "read", "write", "rdesc", "wdesc", "asleep", "woken", "have",
           "brelse", "unref"}
Holding == Places \ {"user", "lock", "unref"}
InFlight == {"asleep", "woken"}

IOTypes ==
    /\ BioTypeOK
    /\ chain \in [Descs -> Requested \cup {Nothing}]
    /\ io \in [IOProc -> [at : Places, op : {"bread", "page"}, b : Bufs, head : Descs]]

\* The list has no buffer twice, and every buffer that has a block.
ListOK ==
    /\ \A i, j \in DOMAIN lru : lru[i] = lru[j] => i = j
    /\ \A b \in Bufs : buf[b].blk # Nothing => \E i \in DOMAIN lru : lru[i] = b

\* Who has got a buffer, who has its lock, and that it has a block.
Getters(b) == {p \in IOProc : io[p].at # "user" /\ io[p].b = b}
Counted == \A b \in Bufs : buf[b].ref = Cardinality(Getters(b))
Holders ==
    /\ \A p \in IOProc, b \in Bufs : buf[b].owner = p <=> io[p].at \in Holding /\ io[p].b = b
    /\ \A p \in IOProc : io[p].at # "user" => buf[io[p].b].blk # Nothing
    /\ \A b \in Bufs : buf[b].valid => buf[b].blk # Nothing

OneCopy == \A b, c \in Bufs : buf[b].blk = buf[c].blk /\ buf[b].blk # Nothing => b = c

\* A process that waits for the disk has the chain whose first descriptor it knows, and no
\* chain is without such a process.
Waiters ==
    /\ \A p \in IOProc : io[p].at \in InFlight =>
           chain[io[p].head] # Nothing /\ chain[io[p].head].b = io[p].b
    /\ \A i \in Chains : \E p \in IOProc : io[p].at \in InFlight /\ io[p].head = i

\* The descriptors of a chain are in no other and not free; none is ever missing.
Owned(d) == d \in unused \/ \E i \in Chains : d \in chain[i].descs
Descriptors ==
    /\ \A i \in Chains : i \in chain[i].descs /\ chain[i].descs \cap unused = {}
    /\ \A i, j \in Chains : i # j => chain[i].descs \cap chain[j].descs = {}
    /\ \E NUM \in Queues : \A d \in Descs : Owned(d) <=> d \in 0 .. NUM - 1

\* What the device has been given and what it has reported.
Reports ==
    /\ posted \subseteq Chains /\ ToSet(used) \subseteq Chains \ posted
    /\ \A j, k \in DOMAIN used : used[j] = used[k] => j = k
    /\ \A b \in Bufs : buf[b].disk <=> \E i \in posted \cup ToSet(used) : chain[i].b = b

Sleepers ==
    \A p \in IOProc : /\ io[p].at = "asleep" => buf[io[p].b].disk
                      /\ io[p].at \in {"rdesc", "wdesc"} => Cardinality(unused) < 3

\* A buffer has what the disk has as soon as its request is done.
Same(b) == buf[b].data = platter[buf[b].blk]
Contents ==
    /\ \A b \in Bufs : buf[b].valid /\ buf[b].owner = Nothing => Same(b)
    /\ \A p \in IOProc :
          \/ io[p].at = "brelse"
          \/ io[p].at = "have" /\ io[p].op # "page"
          \/ io[p].at \in InFlight /\ io[p].head \notin posted
          => Same(io[p].b)

BlockInv ==
    /\ IOTypes /\ ListOK /\ Counted /\ Holders /\ OneCopy /\ Waiters /\ Descriptors
    /\ Reports /\ Sleepers /\ Contents

-----------------------------------------------------------------------------
(* Least and greatest elements.                                            *)

\* Natural numbers have a least element in every set that is not empty.
LEMMA Least ==
    ASSUME NEW S, S \subseteq Nat, S # {}
    PROVE  \E i \in S : \A j \in S : i <= j
<1> DEFINE R == {ss \in Nat \X Nat : ss[1] < ss[2]}
<1>1. IsWellFoundedOn(R, Nat)
    BY NatLessThanWellFounded DEF OpToRel
<1> HIDE DEF R
<1>2. PICK i \in S : \A j \in S : ~(<<j, i>> \in R)
    BY <1>1, WFMin
<1>3. ASSUME NEW j \in S PROVE i <= j
  <2>1. i \in Nat /\ j \in Nat /\ ~(<<j, i>> \in R)
      BY <1>2
  <2>2. ~(j < i)
      BY <2>1 DEF R
  <2>3. QED
      BY <2>1, <2>2
<1>4. QED
    BY <1>3

\* Min() of such a set is in it.
LEMMA MinIsLeast ==
    ASSUME NEW S, S \subseteq Nat, S # {}
    PROVE  Min(S) \in S
BY Least DEF Min

\* So is Max(), if the set has a bound.
LEMMA MaxIsGreatest ==
    ASSUME NEW S, S \subseteq Nat, S # {}, NEW n \in Nat, \A i \in S : i <= n
    PROVE  Max(S) \in S
<1> DEFINE B == {k \in Nat : \A i \in S : i <= k}
<1>1. n \in B /\ B \subseteq Nat
    OBVIOUS
<1>2. PICK k \in B : \A j \in B : k <= j
    BY <1>1, Least
<1>3. k \in S
  <2>1. SUFFICES ASSUME k \notin S PROVE FALSE
      OBVIOUS
  <2>2. \A i \in S : i \in Nat /\ k \in Nat /\ i <= k /\ i # k
      BY <1>2, <2>1
  <2>3. k - 1 \in Nat /\ \A i \in S : i <= k - 1
    <3>1. PICK m \in S : TRUE
        OBVIOUS
    <3>2. k - 1 \in Nat
        BY <2>2, <3>1
    <3>3. QED
        BY <2>2, <3>2
  <2>4. k - 1 \in B
      BY <2>3
  <2>5. QED
      BY <1>2, <2>4
<1>4. \A i \in S : k >= i
    BY <1>2
<1>5. QED
    BY <1>3, <1>4 DEF Max

\* There is a largest number of descriptors.
LEMMA QueueBound ==
    /\ Max(Queues) \in Queues /\ Max(Queues) \in Nat
    /\ \A NUM \in Queues : NUM \in Nat \ {0} /\ NUM <= Max(Queues)
<1>1. \E n \in Queues : \A NUM \in Queues : n >= NUM
    BY BlockIOAssumption
<1>2. Max(Queues) \in Queues /\ \A NUM \in Queues : Max(Queues) >= NUM
    BY <1>1 DEF Max
<1>3. QED
    BY <1>2, BlockIOAssumption

\* The descriptors are finitely many numbers.
LEMMA DescsFinite == IsFiniteSet(Descs) /\ Descs \subseteq Nat /\ 0 \in Descs
<1>1. Max(Queues) - 1 \in Nat
    BY QueueBound
<1>2. QED
    BY <1>1, FS_Interval DEF Descs

\* The buffer that bget() recycles is on the list and nobody uses it.
LEMMA VictimFree ==
    ASSUME lru \in Seq(Bufs), Recyclable # {}
    PROVE  /\ Max(Recyclable) \in DOMAIN lru /\ lru[Max(Recyclable)] \in Bufs
           /\ buf[lru[Max(Recyclable)]].ref = 0
<1>1. Recyclable \subseteq Nat /\ \A i \in Recyclable : i <= Len(lru)
    BY DEF Recyclable
<1>2. Max(Recyclable) \in Recyclable
  <2>1. Len(lru) \in Nat
      OBVIOUS
  <2>2. QED
      BY <1>1, <2>1, MaxIsGreatest
<1>3. QED
    BY <1>2 DEF Recyclable

\* alloc3_desc() finds three descriptors if there are three.
LEMMA ThreeFound ==
    ASSUME unused \subseteq Descs, Cardinality(unused) >= 3
    PROVE  /\ alloc3_desc \subseteq unused /\ Min(alloc3_desc) \in alloc3_desc
<1>1. IsFiniteSet(unused) /\ unused \subseteq Nat
    BY DescsFinite, FS_Subset
<1>2. Cardinality(unused) \in Nat /\ unused # {}
    BY <1>1, FS_CardinalityType, FS_EmptySet
<1>3. PICK a \in unused : \A j \in unused : a <= j
    BY <1>1, <1>2, Least
<1>4. PICK U : U = unused \ {a}
    OBVIOUS
<1>5. Cardinality(U) >= 2 /\ Cardinality(U) \in Nat /\ IsFiniteSet(U) /\ U # {} /\ U \subseteq Nat
  <2>1. Cardinality(U) = Cardinality(unused) - 1 /\ IsFiniteSet(U)
      BY <1>1, <1>4, FS_RemoveElement
  <2>2. QED
      BY <1>1, <1>2, <1>4, <2>1, FS_EmptySet
<1>6. PICK b \in U : \A j \in U : b <= j
    BY <1>5, Least
<1>7. PICK V : V = U \ {b}
    OBVIOUS
<1>8. V # {} /\ V \subseteq Nat
  <2>1. Cardinality(V) = Cardinality(U) - 1 /\ IsFiniteSet(V)
      BY <1>5, <1>7, FS_RemoveElement
  <2>2. QED
      BY <1>5, <1>7, <2>1, FS_EmptySet
<1>9. PICK c \in V : \A j \in V : c <= j
    BY <1>8, Least
<1>10. Cardinality({a, b, c}) = 3
  <2>1. a # b /\ c # a /\ c # b
      BY <1>4, <1>6, <1>7, <1>9
  <2>2. Cardinality({a}) = 1 /\ IsFiniteSet({a})
      BY FS_Singleton
  <2>3. b \notin {a} /\ c \notin {a} \cup {b}
      BY <2>1
  <2>4. Cardinality({a} \cup {b}) = Cardinality({a}) + 1 /\ IsFiniteSet({a} \cup {b})
      BY <2>2, <2>3, FS_AddElement
  <2>5. PICK T : T = {a} \cup {b}
      OBVIOUS
  <2>6. Cardinality(T \cup {c}) = Cardinality(T) + 1
      BY <2>3, <2>4, <2>5, FS_AddElement
  <2>7. T \cup {c} = {a, b, c}
      BY <2>5
  <2>8. QED
      BY <2>2, <2>4, <2>5, <2>6, <2>7
<1>11. {a, b, c} \in SUBSET unused /\ \A i \in {a, b, c}, j \in unused \ {a, b, c} : i < j
    BY <1>1, <1>3, <1>4, <1>6, <1>7, <1>9
<1>12. alloc3_desc \in SUBSET unused /\ Cardinality(alloc3_desc) = 3
    BY <1>10, <1>11 DEF alloc3_desc
<1>13. alloc3_desc # {}
    BY <1>12, FS_EmptySet
<1>14. QED
    BY <1>1, <1>12, <1>13, MinIsLeast

-----------------------------------------------------------------------------
(* What the steps do, field by field.                                      *)
BufRec == [blk : Sector \cup {Nothing}, valid : BOOLEAN, ref : Nat, disk : BOOLEAN,
           data : Value, owner : IOProc \cup {Nothing}]
BufType == [Bufs -> BufRec]
IOType == [IOProc -> [at : Places, op : {"bread", "page"}, b : Bufs, head : Descs]]

\* The types, and the values that are different from each other.
LEMMA Typed ==
    ASSUME BlockInv
    PROVE  /\ buf \in BufType /\ io \in IOType
           /\ lru \in Seq(Bufs) /\ platter \in [Sector -> Value]
           /\ unused \subseteq Descs /\ posted \subseteq Descs /\ used \in Seq(Descs)
           /\ chain \in [Descs -> Requested \cup {Nothing}]
           /\ Nothing \notin Sector /\ Nothing \notin IOProc /\ Nothing \notin Requested
           /\ 0 \in Descs /\ 1 \in Bufs
BY BlockIOAssumption, DescsFinite DEF BlockInv, IOTypes, BioTypeOK, Bufs, BufType, BufRec,
   IOType

BlksSame == \A c \in Bufs : buf'[c].blk = buf[c].blk
ValidSame == \A c \in Bufs : buf'[c].valid = buf[c].valid
RefsSame == \A c \in Bufs : buf'[c].ref = buf[c].ref
DiskSame == \A c \in Bufs : buf'[c].disk = buf[c].disk
DataSame == \A c \in Bufs : buf'[c].data = buf[c].data
OwnersSame == \A c \in Bufs : buf'[c].owner = buf[c].owner
BufsSame(b) == \A c \in Bufs \ {b} : buf'[c] = buf[c]
OthersSame(p) == \A q \in IOProc \ {p} : io'[q] = io[q]
Fetched(p, place, o, b, h) ==
    /\ io' \in IOType
    /\ io'[p].at = place /\ io'[p].op = o /\ io'[p].b = b /\ io'[p].head = h

\* One buffer, then one field of it, gets a value.
LEMMA BufEdit ==
    ASSUME buf \in BufType, NEW c \in Bufs, NEW r \in BufRec, buf' = [buf EXCEPT ![c] = r]
    PROVE  buf' \in BufType /\ BufsSame(c)
<1>1. buf' \in BufType
    BY DEF BufType
<1>2. BufsSame(c)
    BY DEF BufType, BufsSame
<1>3. QED
    BY <1>1, <1>2

LEMMA ValidEdit ==
    ASSUME buf \in BufType, NEW c \in Bufs, NEW v \in BOOLEAN, buf' = [buf EXCEPT ![c].valid = v]
    PROVE  buf' \in BufType /\ BufsSame(c)
<1>1. buf' = [buf EXCEPT ![c] = [buf[c] EXCEPT !.valid = v]]
    OBVIOUS
<1>2. buf[c] \in BufRec
    BY DEF BufType
<1>3. [buf[c] EXCEPT !.valid = v] \in BufRec
    BY <1>2 DEF BufRec
<1>4. QED
    BY <1>1, <1>3, BufEdit

LEMMA RefEdit ==
    ASSUME buf \in BufType, NEW c \in Bufs, NEW v \in Nat, buf' = [buf EXCEPT ![c].ref = v]
    PROVE  buf' \in BufType /\ BufsSame(c)
<1>1. buf' = [buf EXCEPT ![c] = [buf[c] EXCEPT !.ref = v]]
    OBVIOUS
<1>2. buf[c] \in BufRec
    BY DEF BufType
<1>3. [buf[c] EXCEPT !.ref = v] \in BufRec
    BY <1>2 DEF BufRec
<1>4. QED
    BY <1>1, <1>3, BufEdit

LEMMA DiskEdit ==
    ASSUME buf \in BufType, NEW c \in Bufs, NEW v \in BOOLEAN, buf' = [buf EXCEPT ![c].disk = v]
    PROVE  buf' \in BufType /\ BufsSame(c)
<1>1. buf' = [buf EXCEPT ![c] = [buf[c] EXCEPT !.disk = v]]
    OBVIOUS
<1>2. buf[c] \in BufRec
    BY DEF BufType
<1>3. [buf[c] EXCEPT !.disk = v] \in BufRec
    BY <1>2 DEF BufRec
<1>4. QED
    BY <1>1, <1>3, BufEdit

LEMMA DataEdit ==
    ASSUME buf \in BufType, NEW c \in Bufs, NEW v \in Value, buf' = [buf EXCEPT ![c].data = v]
    PROVE  buf' \in BufType /\ BufsSame(c)
<1>1. buf' = [buf EXCEPT ![c] = [buf[c] EXCEPT !.data = v]]
    OBVIOUS
<1>2. buf[c] \in BufRec
    BY DEF BufType
<1>3. [buf[c] EXCEPT !.data = v] \in BufRec
    BY <1>2 DEF BufRec
<1>4. QED
    BY <1>1, <1>3, BufEdit

LEMMA OwnerEdit ==
    ASSUME buf \in BufType, NEW c \in Bufs, NEW v \in IOProc \cup {Nothing}, buf' = [buf EXCEPT ![c].owner = v]
    PROVE  buf' \in BufType /\ BufsSame(c)
<1>1. buf' = [buf EXCEPT ![c] = [buf[c] EXCEPT !.owner = v]]
    OBVIOUS
<1>2. buf[c] \in BufRec
    BY DEF BufType
<1>3. [buf[c] EXCEPT !.owner = v] \in BufRec
    BY <1>2 DEF BufRec
<1>4. QED
    BY <1>1, <1>3, BufEdit

\* Alerted sleepers look for descriptors again, nothing else changes.
AlertOnly(q) ==
    /\ io'[q].b = io[q].b /\ io'[q].op = io[q].op /\ io'[q].head = io[q].head
    /\ io'[q].at = Retry(io[q].at)

HitEffect(p, op, s, v) ==
    /\ io[p].at = "user" /\ buf[v].blk = s
    /\ OthersSame(p) /\ Fetched(p, "lock", op, v, 0)
    /\ buf' \in BufType /\ BufsSame(v)
    /\ BlksSame /\ ValidSame /\ DiskSame /\ DataSame /\ OwnersSame
    /\ buf'[v].ref = buf[v].ref + 1
    /\ UNCHANGED <<lru, diskvars, nobuffers>>

\* bget() of a block that is cached.
LEMMA HitDoes ==
    ASSUME BlockInv, NEW p \in IOProc, NEW op \in {"bread", "page"}, NEW s \in Sector,
           bget_hit(p, op, s)
    PROVE  \E v \in Bufs : HitEffect(p, op, s, v)
<1>1. bget_hit(p, op, s)
    OBVIOUS
<1>2. PICK v \in Cached(s) :
         /\ buf' = [buf EXCEPT ![v].ref = @ + 1]
         /\ io' = [io EXCEPT ![p] = [Away EXCEPT !.at = "lock", !.op = op, !.b = v]]
    BY <1>1 DEF bget_hit
<1>3. v \in Bufs /\ buf[v].blk = s
    BY DEF Cached
<1>4. OthersSame(p) /\ Fetched(p, "lock", op, v, 0)
  <2>1. Away.head = 0 /\ "lock" \in Places
      BY DEF Away, Places
  <2>2. QED
      BY <1>2, <1>3, Typed DEF OthersSame, Away, Fetched, IOType, Places
<1>5. /\ buf' \in BufType /\ BufsSame(v)
      /\ BlksSame /\ ValidSame /\ DiskSame /\ DataSame /\ OwnersSame
      /\ buf'[v].ref = buf[v].ref + 1
  <2>1. PICK c \in Bufs : c = v
      BY <1>3
  <2>2. buf' = [buf EXCEPT ![c].ref = buf[c].ref + 1]
      BY <1>2, <2>1
  <2>3. buf[c].ref + 1 \in Nat
    <3>1. buf[c].ref \in Nat
        BY <2>1, Typed DEF BufType, BufRec
    <3>2. QED
        BY <3>1
  <2>4. buf' \in BufType /\ BufsSame(c)
      BY RefEdit, <2>1, <2>2, <2>3, Typed
  <2>5. /\ buf'[c].ref = buf[c].ref + 1
    /\ buf'[c].blk = buf[c].blk /\ buf'[c].valid = buf[c].valid /\ buf'[c].disk = buf[c].disk
    /\ buf'[c].data = buf[c].data /\ buf'[c].owner = buf[c].owner
      BY <2>1, <2>2,  Typed DEF BufType, BufRec
  <2>6. QED
      BY <2>1, <2>4, <2>5 DEF BufsSame, BlksSame, ValidSame, DiskSame, DataSame,
         OwnersSame
<1>6. io[p].at = "user" /\ UNCHANGED <<lru, diskvars, nobuffers>>
    BY <1>1 DEF bget_hit, At
<1>7. QED
    BY <1>3, <1>4, <1>5, <1>6 DEF HitEffect

RecycleEffect(p, op, s, v) ==
    /\ io[p].at = "user" /\ \A c \in Bufs : buf[c].blk # s
    /\ buf[v].ref = 0 /\ \E i \in DOMAIN lru : v = lru[i]
    /\ OthersSame(p) /\ Fetched(p, "lock", op, v, 0)
    /\ buf' \in BufType /\ BufsSame(v)
    /\ DiskSame /\ DataSame /\ OwnersSame
    /\ buf'[v].blk = s
    /\ buf'[v].valid = FALSE
    /\ buf'[v].ref = 1
    /\ UNCHANGED <<lru, diskvars, nobuffers>>

\* bget() of a block that is not: a buffer nobody uses gets the new block, and no valid data.
LEMMA RecycleDoes ==
    ASSUME BlockInv, NEW p \in IOProc, NEW op \in {"bread", "page"}, NEW s \in Sector,
           bget_recycle(p, op, s)
    PROVE  \E v \in Bufs : RecycleEffect(p, op, s, v)
<1>1. bget_recycle(p, op, s)
    OBVIOUS
<1>2. Recyclable # {}
    BY <1>1 DEF bget_recycle
<1>3. PICK v \in Bufs : v = lru[Max(Recyclable)]
    BY <1>2, Typed, VictimFree
<1>4. buf[v].ref = 0 /\ \E i \in DOMAIN lru : v = lru[i]
    BY <1>2, <1>3, Typed, VictimFree
<1>5. /\ buf' = [buf EXCEPT ![v].blk = s, ![v].valid = FALSE, ![v].ref = 1]
      /\ io' = [io EXCEPT ![p] = [Away EXCEPT !.at = "lock", !.op = op, !.b = v]]
    BY <1>1, <1>3 DEF bget_recycle
<1>6. OthersSame(p) /\ Fetched(p, "lock", op, v, 0)
    BY <1>5, Typed DEF OthersSame, Away, Fetched, IOType, Places
<1>7. /\ buf' \in BufType /\ BufsSame(v)
      /\ DiskSame /\ DataSame /\ OwnersSame
      /\ buf'[v].blk = s
      /\ buf'[v].valid = FALSE
      /\ buf'[v].ref = 1
  <2>1. PICK x : x = [buf EXCEPT ![v].blk = s]
      OBVIOUS
  <2>2. PICK y : y = [x EXCEPT ![v].valid = FALSE]
      OBVIOUS
  <2>3. buf' = [y EXCEPT ![v].ref = 1]
      BY <1>5, <2>1, <2>2
  <2>7. /\ x = [buf EXCEPT ![v] = [buf[v] EXCEPT !.blk = s]]
        /\ buf \in [Bufs -> BufRec] /\ v \in Bufs /\ s \in Sector
      BY <2>1, Typed DEF BufType
  <2>8. [buf[v] EXCEPT !.blk = s] \in BufRec
      BY <2>7 DEF BufRec
  <2>9. x \in BufType /\ x[v] = [buf[v] EXCEPT !.blk = s] /\ \A c \in Bufs \ {v} : x[c] = buf[c]
      BY <2>7, <2>8 DEF BufType
  <2>4. /\ x \in BufType /\ x[v].blk = s /\ \A c \in Bufs \ {v} : x[c] = buf[c]
        /\ x[v].disk = buf[v].disk /\ x[v].data = buf[v].data /\ x[v].owner = buf[v].owner
      BY <2>7, <2>9 DEF BufRec
  <2>5. /\ y \in BufType /\ y[v].blk = s /\ ~y[v].valid /\ \A c \in Bufs \ {v} : y[c] = buf[c]
        /\ y[v].disk = buf[v].disk /\ y[v].data = buf[v].data /\ y[v].owner = buf[v].owner
      BY <2>2, <2>4 DEF BufType, BufRec
  <2>6. QED
      BY <2>3, <2>5 DEF BufType, BufRec, IOType, BufsSame, BlksSame, ValidSame, RefsSame,
         DiskSame, DataSame, OwnersSame
<1>8. io[p].at = "user" /\ \A c \in Bufs : buf[c].blk # s
    BY <1>1 DEF bget_recycle, At, Cached
<1>9. UNCHANGED <<lru, diskvars, nobuffers>>
    BY <1>1 DEF bget_recycle
<1>10. QED
    BY <1>4, <1>6, <1>7, <1>8, <1>9 DEF RecycleEffect

LockEffect(p) ==
    /\ io[p].at = "lock" /\ buf[io[p].b].owner = Nothing
    /\ OthersSame(p)
    /\ Fetched(p, IF io[p].op = "page" \/ buf[io[p].b].valid THEN "have" ELSE "read",
               io[p].op, io[p].b, io[p].head)
    /\ buf' \in BufType /\ BufsSame(io[p].b)
    /\ BlksSame /\ ValidSame /\ RefsSame /\ DiskSame /\ DataSame
    /\ buf'[io[p].b].owner = p
    /\ UNCHANGED <<lru, diskvars, nobuffers>>

\* acquiresleep() in bget(), and what bread() does next.
LEMMA LockDoes ==
    ASSUME BlockInv, NEW p \in IOProc, bget_lock(p)
    PROVE  LockEffect(p)
<1>1. bget_lock(p)
    OBVIOUS
<1>2. /\ io[p].at = "lock" /\ buf[io[p].b].owner = Nothing
      /\ UNCHANGED <<lru, diskvars, nobuffers>>
    BY <1>1 DEF bget_lock, At
<1>3. PICK at \in Places : at = IF io[p].op = "page" \/ buf[io[p].b].valid THEN "have" ELSE "read"
    BY DEF Places
<1>4. io' = [io EXCEPT ![p].at = at] /\ buf' = [buf EXCEPT ![io[p].b].owner = p]
    BY <1>1, <1>3 DEF bget_lock, Go
<1>5. OthersSame(p) /\ Fetched(p, at, io[p].op, io[p].b, io[p].head)
    BY <1>4, Typed DEF OthersSame, Fetched, IOType
<1>6. /\ buf' \in BufType /\ BufsSame(io[p].b)
      /\ BlksSame /\ ValidSame /\ RefsSame /\ DiskSame /\ DataSame
      /\ buf'[io[p].b].owner = p
  <2>1. PICK c \in Bufs : c = io[p].b
      BY Typed DEF IOType
  <2>2. buf' = [buf EXCEPT ![c].owner = p]
      BY <1>4, <2>1
  <2>3. buf' \in BufType /\ BufsSame(c)
      BY OwnerEdit, <2>1, <2>2, Typed
  <2>4. /\ buf'[c].owner = p
    /\ buf'[c].blk = buf[c].blk /\ buf'[c].valid = buf[c].valid /\ buf'[c].ref = buf[c].ref
    /\ buf'[c].disk = buf[c].disk /\ buf'[c].data = buf[c].data
      BY <2>1, <2>2,  Typed DEF BufType, BufRec
  <2>5. QED
      BY <2>1, <2>3, <2>4 DEF BufsSame, BlksSame, ValidSame, RefsSame, DiskSame,
         DataSame
<1>7. QED
    BY <1>2, <1>3, <1>5, <1>6 DEF LockEffect

UseEffect(p) ==
    /\ io[p].at = "have" /\ OthersSame(p) /\ UNCHANGED <<lru, diskvars, nobuffers>>
    /\ \/ io[p].op = "bread" /\ Fetched(p, "brelse", "bread", io[p].b, io[p].head) /\ buf' = buf
       \/ /\ Fetched(p, "write", "bread", io[p].b, io[p].head)
          /\ buf' \in BufType /\ BufsSame(io[p].b)
          /\ BlksSame /\ ValidSame /\ RefsSame /\ DiskSame /\ OwnersSame
          /\ buf'[io[p].b].data = 1 - platter[buf[io[p].b].blk]

\* The holder is done with what it has read, or writes something else.
LEMMA UseDoes ==
    ASSUME BlockInv, NEW p \in IOProc, use(p)
    PROVE  UseEffect(p)
<1>1. use(p)
    OBVIOUS
<1>2. UNCHANGED <<lru, diskvars, nobuffers>> /\ io[p].at = "have"
    BY <1>1 DEF use, At
<1>3. CASE io[p].op = "bread" /\ Go(p, "brelse") /\ UNCHANGED buf
  <2>1. OthersSame(p) /\ Fetched(p, "brelse", "bread", io[p].b, io[p].head)
      BY <1>3, Typed DEF Go, OthersSame, Fetched, IOType, Places
  <2>2. QED
      BY <1>2, <1>3, <2>1 DEF UseEffect
<1>4. CASE /\ io' = [io EXCEPT ![p].at = "write", ![p].op = "bread"]
           /\ buf' = [buf EXCEPT ![io[p].b].data = 1 - platter[buf[io[p].b].blk]]
  <2>1. OthersSame(p) /\ Fetched(p, "write", "bread", io[p].b, io[p].head)
    <3>1. PICK x : x = [io EXCEPT ![p].at = "write"]
        OBVIOUS
    <3>2. /\ x \in IOType /\ \A q \in IOProc \ {p} : x[q] = io[q]
          /\ x[p].at = "write" /\ x[p].b = io[p].b /\ x[p].head = io[p].head
      <4>1. /\ io \in IOType /\ "write" \in Places
            /\ x = [io EXCEPT ![p] = [io[p] EXCEPT !.at = "write"]]
          BY <3>1, Typed DEF Places
      <4>2. [io[p] EXCEPT !.at = "write"] \in [at : Places, op : {"bread", "page"}, b : Bufs, head : Descs]
          BY <4>1 DEF IOType
      <4>3. QED
          BY <4>1, <4>2 DEF IOType
    <3>3. io' = [x EXCEPT ![p].op = "bread"]
        BY <1>4, <3>1
    <3>4. QED
        BY <3>2, <3>3 DEF OthersSame, Fetched, IOType
  <2>2. platter[buf[io[p].b].blk] \in Value
    <3>1. io[p].b \in Bufs /\ buf[io[p].b].blk # Nothing
        BY <1>2, Typed DEF BlockInv, Holders, IOType
    <3>2. QED
        BY <3>1, Typed DEF BufType, BufRec
  <2>3. 1 - platter[buf[io[p].b].blk] \in Value
      BY <2>2 DEF Value
  <2>4. /\ buf' \in BufType /\ BufsSame(io[p].b)
        /\ BlksSame /\ ValidSame /\ RefsSame /\ DiskSame /\ OwnersSame
        /\ buf'[io[p].b].data = 1 - platter[buf[io[p].b].blk]
    <3>1. PICK c \in Bufs : c = io[p].b
        BY Typed DEF IOType
    <3>2. buf' = [buf EXCEPT ![c].data = 1 - platter[buf[io[p].b].blk]]
        BY <1>4, <3>1
    <3>3. buf' \in BufType /\ BufsSame(c)
        BY DataEdit, <3>1, <3>2, <2>3, Typed
    <3>4. /\ buf'[c].data = 1 - platter[buf[io[p].b].blk]
      /\ buf'[c].blk = buf[c].blk /\ buf'[c].valid = buf[c].valid /\ buf'[c].ref = buf[c].ref
      /\ buf'[c].disk = buf[c].disk /\ buf'[c].owner = buf[c].owner
        BY <3>1, <3>2, <2>3, Typed DEF BufType, BufRec
    <3>5. QED
        BY <3>1, <3>3, <3>4 DEF BufsSame, BlksSame, ValidSame, RefsSame, DiskSame,
           OwnersSame
  <2>5. QED
      BY <1>2, <2>1, <2>4 DEF UseEffect
<1>5. QED
    BY <1>1, <1>3, <1>4 DEF use

PostEffect(p, S, h) ==
    /\ io[p].at \in {"read", "write"} /\ Cardinality(unused) >= 3
    /\ OthersSame(p) /\ Fetched(p, "asleep", io[p].op, io[p].b, h)
    /\ h \in S /\ S \subseteq unused /\ unused' = unused \ S /\ posted' = posted \cup {h}
    /\ chain' \in [Descs -> Requested \cup {Nothing}] /\ chain'[h] # Nothing
    /\ chain'[h].descs = S /\ chain'[h].b = io[p].b /\ \A j \in Descs \ {h} : chain'[j] = chain[j]
    /\ buf' \in BufType /\ BufsSame(io[p].b)
    /\ BlksSame /\ ValidSame /\ RefsSame /\ DataSame /\ OwnersSame
    /\ buf'[io[p].b].disk = TRUE
    /\ UNCHANGED <<lru, platter, used, irq, handling, nobuffers>>

\* virtio_disk_rw() hands three free descriptors to the device.
LEMMA PostDoes ==
    ASSUME BlockInv, NEW p \in IOProc, rw_post(p)
    PROVE  \E S, h : PostEffect(p, S, h)
<1>1. rw_post(p)
    OBVIOUS
<1>2. /\ io[p].at \in {"read", "write"} /\ Cardinality(unused) >= 3
      /\ UNCHANGED <<lru, platter, used, irq, handling, nobuffers>>
    BY <1>1 DEF rw_post, At
<1>3. PICK S \in SUBSET unused : S = alloc3_desc /\ Min(alloc3_desc) \in S
    BY <1>2, Typed, ThreeFound
<1>4. PICK h \in S : h = Min(alloc3_desc)
    BY <1>3
<1>5. PICK w \in BOOLEAN : w = (io[p].at = "write")
    OBVIOUS
<1>6. PICK req : req = [descs |-> S, b |-> io[p].b, write |-> w]
    OBVIOUS
<1>7. /\ unused' = unused \ S /\ posted' = posted \cup {h} /\ chain' = [chain EXCEPT ![h] = req]
      /\ io' = [io EXCEPT ![p].at = "asleep", ![p].head = h]
      /\ buf' = [buf EXCEPT ![io[p].b].disk = TRUE]
    BY <1>1, <1>3, <1>4, <1>5, <1>6 DEF rw_post
<1>8. h \in Descs /\ S \subseteq Descs /\ req \in Requested /\ req # Nothing
    BY <1>6, Typed DEF Requested, IOType
<1>9. /\ chain' \in [Descs -> Requested \cup {Nothing}] /\ chain'[h] # Nothing
      /\ chain'[h].descs = S /\ chain'[h].b = io[p].b
      /\ \A j \in Descs \ {h} : chain'[j] = chain[j]
    BY <1>6, <1>7, <1>8, Typed
<1>10. OthersSame(p) /\ Fetched(p, "asleep", io[p].op, io[p].b, h)
  <2>1. PICK x : x = [io EXCEPT ![p].at = "asleep"]
      OBVIOUS
  <2>2. /\ x \in IOType /\ \A q \in IOProc \ {p} : x[q] = io[q]
        /\ x[p].at = "asleep" /\ x[p].b = io[p].b /\ x[p].op = io[p].op
    <3>1. /\ io \in IOType /\ "asleep" \in Places
          /\ x = [io EXCEPT ![p] = [io[p] EXCEPT !.at = "asleep"]]
        BY <2>1, Typed DEF Places
    <3>2. [io[p] EXCEPT !.at = "asleep"] \in [at : Places, op : {"bread", "page"}, b : Bufs, head : Descs]
        BY <3>1 DEF IOType
    <3>3. QED
        BY <3>1, <3>2 DEF IOType
  <2>3. io' = [x EXCEPT ![p].head = h]
      BY <1>7, <2>1
  <2>4. QED
      BY <1>8, <2>2, <2>3 DEF OthersSame, Fetched, IOType
<1>11. /\ buf' \in BufType /\ BufsSame(io[p].b)
       /\ BlksSame /\ ValidSame /\ RefsSame /\ DataSame /\ OwnersSame
       /\ buf'[io[p].b].disk = TRUE
  <2>1. PICK c \in Bufs : c = io[p].b
      BY Typed DEF IOType
  <2>2. buf' = [buf EXCEPT ![c].disk = TRUE]
      BY <1>7, <2>1
  <2>3. buf' \in BufType /\ BufsSame(c)
      BY DiskEdit, <2>1, <2>2, Typed
  <2>4. /\ buf'[c].disk = TRUE
    /\ buf'[c].blk = buf[c].blk /\ buf'[c].valid = buf[c].valid /\ buf'[c].ref = buf[c].ref
    /\ buf'[c].data = buf[c].data /\ buf'[c].owner = buf[c].owner
      BY <2>1, <2>2,  Typed DEF BufType, BufRec
  <2>5. QED
      BY <2>1, <2>3, <2>4 DEF BufsSame, BlksSame, ValidSame, RefsSame, DataSame,
         OwnersSame
<1>12. QED
    BY <1>2, <1>7, <1>9, <1>10, <1>11 DEF PostEffect

FullEffect(p) ==
    /\ io[p].at \in {"read", "write"} /\ Cardinality(unused) < 3
    /\ \A q \in IOProc \ {p} : io'[q] = io[q] \/ (unused # {} /\ AlertOnly(q))
    /\ Fetched(p, IF io[p].at = "read" THEN "rdesc" ELSE "wdesc", io[p].op, io[p].b, io[p].head)
    /\ UNCHANGED <<buf, lru, diskvars, nobuffers>>

\* wakeup(&disk.free[0]) moves the processes that wait for descriptors, and changes no more.
LEMMA AlertedTyped ==
    ASSUME BlockInv
    PROVE  /\ Alerted \in IOType
           /\ \A q \in IOProc : /\ Alerted[q].at = Retry(io[q].at) /\ Alerted[q].b = io[q].b
                                /\ Alerted[q].op = io[q].op /\ Alerted[q].head = io[q].head
<1>1. \A at \in Places : Retry(at) \in Places
    BY DEF Retry, Places
<1>2. Alerted \in IOType
    BY <1>1, Typed DEF Alerted, IOType
<1>3. QED
    BY <1>2, Typed DEF Alerted, IOType

\* virtio_disk_rw() does not get three descriptors.
LEMMA FullDoes ==
    ASSUME BlockInv, NEW p \in IOProc, rw_full(p)
    PROVE  FullEffect(p)
<1>1. rw_full(p)
    OBVIOUS
<1>2. /\ io[p].at \in {"read", "write"} /\ Cardinality(unused) < 3
      /\ UNCHANGED <<buf, lru, diskvars, nobuffers>>
    BY <1>1 DEF rw_full, At
<1>3. CASE unused = {}
  <2>1. io' = [io EXCEPT ![p].at = IF @ = "read" THEN "rdesc" ELSE "wdesc"]
      BY <1>1, <1>3 DEF rw_full
  <2>2. PICK at \in Places : at = IF io[p].at = "read" THEN "rdesc" ELSE "wdesc"
      BY DEF Places
  <2>3. io' = [io EXCEPT ![p].at = at]
      BY <2>1, <2>2, Typed DEF IOType
  <2>4. (\A q \in IOProc \ {p} : io'[q] = io[q]) /\ Fetched(p, at, io[p].op, io[p].b, io[p].head)
      BY <2>3, Typed DEF Fetched, IOType
  <2>5. \A q \in IOProc \ {p} : io'[q] = io[q] \/ (unused # {} /\ AlertOnly(q))
      BY <2>4
  <2>6. Fetched(p, IF io[p].at = "read" THEN "rdesc" ELSE "wdesc", io[p].op, io[p].b, io[p].head)
      BY <2>2, <2>4
  <2>7. QED
      BY <1>2, <2>5, <2>6 DEF FullEffect
<1>4. CASE unused # {}
  <2>1. io' = [Alerted EXCEPT ![p].at = IF @ = "read" THEN "rdesc" ELSE "wdesc"]
      BY <1>1, <1>4 DEF rw_full
  <2>2. \A q \in IOProc \ {p} : AlertOnly(q)
      BY <2>1, AlertedTyped DEF AlertOnly, IOType
  <2>3. Alerted[p].at = io[p].at
      BY <1>2, AlertedTyped DEF Retry
  <2>4. PICK at \in Places : at = IF io[p].at = "read" THEN "rdesc" ELSE "wdesc"
      BY DEF Places
  <2>5. io' = [Alerted EXCEPT ![p].at = at]
      BY <2>1, <2>3, <2>4, AlertedTyped DEF IOType
  <2>6. Fetched(p, at, io[p].op, io[p].b, io[p].head)
      BY <2>5, AlertedTyped DEF Fetched, IOType
  <2>7. QED
      BY <1>2, <1>4, <2>2, <2>4, <2>6 DEF FullEffect
<1>5. QED
    BY <1>3, <1>4

FinishEffect(p) ==
    /\ io[p].at = "woken" /\ ~buf[io[p].b].disk
    /\ chain' \in [Descs -> Requested \cup {Nothing}] /\ chain'[io[p].head] = Nothing
    /\ \A j \in Descs \ {io[p].head} : chain'[j] = chain[j]
    /\ unused' = unused \cup chain[io[p].head].descs
    /\ \A q \in IOProc \ {p} : AlertOnly(q)
    /\ \E at \in {"brelse", "have"} : Fetched(p, at, io[p].op, io[p].b, 0)
    /\ buf' \in BufType /\ BufsSame(io[p].b)
    /\ BlksSame /\ RefsSame /\ DiskSame /\ DataSame /\ OwnersSame
    /\ buf'[io[p].b].valid = (buf[io[p].b].valid \/ ~chain[io[p].head].write)
    /\ UNCHANGED <<lru, platter, posted, used, irq, handling, nobuffers>>

\* virtio_disk_rw() frees its chain; the buffer is valid if it has been read.
LEMMA FinishDoes ==
    ASSUME BlockInv, NEW p \in IOProc, rw_finish(p)
    PROVE  FinishEffect(p)
<1>1. rw_finish(p)
    OBVIOUS
<1>2. /\ io[p].at = "woken" /\ ~buf[io[p].b].disk
      /\ chain' = [chain EXCEPT ![io[p].head] = Nothing]
      /\ unused' = unused \cup chain[io[p].head].descs
      /\ UNCHANGED <<lru, platter, posted, used, irq, handling, nobuffers>>
    BY <1>1 DEF rw_finish, At
<1>3. PICK at \in {"brelse", "have"} : at = IF chain[io[p].head].write THEN "brelse" ELSE "have"
    OBVIOUS
<1>4. io' = [Alerted EXCEPT ![p].at = at, ![p].head = 0]
    BY <1>1, <1>3 DEF rw_finish
<1>5. /\ chain' \in [Descs -> Requested \cup {Nothing}] /\ chain'[io[p].head] = Nothing
      /\ \A j \in Descs \ {io[p].head} : chain'[j] = chain[j]
    BY <1>2, Typed DEF IOType
<1>6. \A q \in IOProc \ {p} : AlertOnly(q)
    BY <1>4, AlertedTyped DEF AlertOnly, IOType
<1>7. Fetched(p, at, io[p].op, io[p].b, 0)
  <2>1. PICK x : x = [Alerted EXCEPT ![p].at = at]
      OBVIOUS
  <2>2. x \in IOType /\ x[p].at = at /\ x[p].op = io[p].op /\ x[p].b = io[p].b
      BY <2>1, AlertedTyped DEF IOType, Places
  <2>3. io' = [x EXCEPT ![p].head = 0]
      BY <1>4, <2>1
  <2>4. QED
      BY <2>2, <2>3, Typed DEF Fetched, IOType
<1>8. /\ buf' \in BufType /\ BufsSame(io[p].b)
      /\ BlksSame /\ RefsSame /\ DiskSame /\ DataSame /\ OwnersSame
      /\ buf'[io[p].b].valid = (buf[io[p].b].valid \/ ~chain[io[p].head].write)
  <2>1. PICK c \in Bufs : c = io[p].b
    BY Typed DEF IOType
  <2>2. PICK v \in BOOLEAN : v = (buf[c].valid \/ ~chain[io[p].head].write)
    OBVIOUS
  <2>3. buf' = [buf EXCEPT ![c].valid = v]
    BY <1>1, <2>1, <2>2 DEF rw_finish
  <2>4. buf' \in BufType /\ BufsSame(c)
    BY ValidEdit, <2>1, <2>3, Typed
  <2>5. /\ buf'[c].valid = v
      /\ buf'[c].blk = buf[c].blk /\ buf'[c].ref = buf[c].ref /\ buf'[c].disk = buf[c].disk
      /\ buf'[c].data = buf[c].data /\ buf'[c].owner = buf[c].owner
    BY <2>1, <2>3, Typed DEF BufType, BufRec
  <2>6. QED
    BY <2>1, <2>2, <2>4, <2>5 DEF BufsSame, BlksSame, RefsSame, DiskSame,
       DataSame, OwnersSame
<1>9. QED
    BY <1>2, <1>5, <1>6, <1>7, <1>8 DEF FinishEffect

DeviceEffect(i) ==
    /\ i \in posted /\ posted' = posted \ {i} /\ used' = Append(used, i)
    /\ chain[i] \in Requested /\ chain[i].b \in Bufs /\ buf[chain[i].b].blk \in Sector
    /\ UNCHANGED <<lru, unused, chain, handling, io, nobuffers>>
    /\ \/ /\ platter' \in [Sector -> Value] /\ buf' = buf
          /\ platter'[buf[chain[i].b].blk] = buf[chain[i].b].data
          /\ \A s \in Sector \ {buf[chain[i].b].blk} : platter'[s] = platter[s]
       \/ /\ platter' = platter
          /\ buf' \in BufType /\ BufsSame(chain[i].b)
          /\ BlksSame /\ ValidSame /\ RefsSame /\ DiskSame /\ OwnersSame
          /\ buf'[chain[i].b].data = platter[buf[chain[i].b].blk]

\* The device writes a block of the disk, or the data of a buffer.
LEMMA DeviceDoes ==
    ASSUME BlockInv, NEW i \in Descs, device(i)
    PROVE  DeviceEffect(i)
<1>1. device(i)
    OBVIOUS
<1>2. /\ i \in posted /\ posted' = posted \ {i} /\ used' = Append(used, i)
      /\ UNCHANGED <<lru, unused, chain, handling, io, nobuffers>>
    BY <1>1 DEF device
<1>3. i \in Chains /\ chain[i] \in Requested
    BY <1>2, Typed DEF BlockInv, Reports, Chains
<1>4. PICK p \in IOProc : io[p].at \in InFlight /\ io[p].head = i
    BY <1>3 DEF BlockInv, Waiters
<1>5. chain[i].b \in Bufs
    BY <1>3 DEF Requested
<1>6. buf[chain[i].b].blk \in Sector
  <2>1. chain[i].b = io[p].b /\ io[p].at # "user"
      BY <1>4 DEF BlockInv, Waiters, InFlight
  <2>2. buf[chain[i].b].blk # Nothing
      BY <2>1 DEF BlockInv, Holders
  <2>3. QED
      BY <1>5, <2>2, Typed DEF BufType, BufRec
<1>7. CASE chain[i].write
  <2>1. platter' = [platter EXCEPT ![buf[chain[i].b].blk] = buf[chain[i].b].data] /\ buf' = buf
      BY <1>1, <1>7 DEF device
  <2>2. buf[chain[i].b].data \in Value
      BY <1>5, Typed DEF BufType, BufRec
  <2>3. /\ platter' \in [Sector -> Value]
        /\ platter'[buf[chain[i].b].blk] = buf[chain[i].b].data
        /\ \A s \in Sector \ {buf[chain[i].b].blk} : platter'[s] = platter[s]
      BY <1>6, <2>1, <2>2, Typed
  <2>4. QED
      BY <1>2, <1>3, <1>5, <1>6, <2>1, <2>3 DEF DeviceEffect
<1>8. CASE ~chain[i].write
  <2>1. buf' = [buf EXCEPT ![chain[i].b].data = platter[buf[chain[i].b].blk]] /\ platter' = platter
      BY <1>1, <1>8 DEF device
  <2>2. platter[buf[chain[i].b].blk] \in Value
      BY <1>6, Typed
  <2>3. /\ buf' \in BufType /\ BufsSame(chain[i].b)
        /\ BlksSame /\ ValidSame /\ RefsSame /\ DiskSame /\ OwnersSame
        /\ buf'[chain[i].b].data = platter[buf[chain[i].b].blk]
    <3>1. PICK c \in Bufs : c = chain[i].b
        BY <1>5
    <3>2. buf' = [buf EXCEPT ![c].data = platter[buf[chain[i].b].blk]]
        BY <2>1, <3>1
    <3>3. buf' \in BufType /\ BufsSame(c)
        BY DataEdit, <3>1, <3>2, <2>2, Typed
    <3>4. /\ buf'[c].data = platter[buf[chain[i].b].blk]
      /\ buf'[c].blk = buf[c].blk /\ buf'[c].valid = buf[c].valid /\ buf'[c].ref = buf[c].ref
      /\ buf'[c].disk = buf[c].disk /\ buf'[c].owner = buf[c].owner
        BY <3>1, <3>2, <2>2, Typed DEF BufType, BufRec
    <3>5. QED
        BY <3>1, <3>3, <3>4 DEF BufsSame, BlksSame, ValidSame, RefsSame, DiskSame,
           OwnersSame
  <2>4. QED
      BY <1>2, <1>3, <1>5, <1>6, <2>1, <2>3 DEF DeviceEffect
<1>9. QED
    BY <1>7, <1>8

UnrefEffect(p) ==
    /\ io[p].at = "unref" /\ OthersSame(p) /\ Fetched(p, "user", "bread", 1, 0)
    /\ lru' = lru \/ lru' = MostRecent(io[p].b)
    /\ buf' \in BufType /\ BufsSame(io[p].b)
    /\ BlksSame /\ ValidSame /\ DiskSame /\ DataSame /\ OwnersSame
    /\ buf'[io[p].b].ref = buf[io[p].b].ref - 1
    /\ UNCHANGED <<diskvars, nobuffers>>

\* brelse() gives its reference back.
LEMMA UnrefDoes ==
    ASSUME BlockInv, NEW p \in IOProc, brelse_unref(p)
    PROVE  UnrefEffect(p)
<1>1. brelse_unref(p)
    OBVIOUS
<1>2. /\ io[p].at = "unref"
      /\ lru' = lru \/ lru' = MostRecent(io[p].b)
      /\ UNCHANGED <<diskvars, nobuffers>>
    BY <1>1 DEF brelse_unref, At
<1>3. OthersSame(p) /\ Fetched(p, "user", "bread", 1, 0)
  <2>1. io' = [io EXCEPT ![p] = Away]
      BY <1>1 DEF brelse_unref
  <2>2. Away \in [at : Places, op : {"bread", "page"}, b : Bufs, head : Descs]
      BY Typed DEF Away, Places
  <2>3. /\ Away.at = "user" /\ Away.op = "bread" /\ Away.b = 1 /\ Away.head = 0
      BY DEF Away
  <2>4. QED
      BY <2>1, <2>2, <2>3, Typed DEF OthersSame, Fetched, IOType
<1>4. buf[io[p].b].ref - 1 \in Nat
  <2>1. p \in Getters(io[p].b) /\ io[p].b \in Bufs
      BY <1>2, Typed DEF Getters, IOType
  <2>2. IsFiniteSet(Getters(io[p].b))
      BY BlockIOAssumption, FS_Subset DEF Getters
  <2>3. Cardinality(Getters(io[p].b)) \in Nat /\ Cardinality(Getters(io[p].b)) # 0
      BY <2>1, <2>2, FS_CardinalityType, FS_EmptySet
  <2>4. buf[io[p].b].ref = Cardinality(Getters(io[p].b))
      BY <2>1 DEF BlockInv, Counted
  <2>5. QED
      BY <2>3, <2>4
<1>5. /\ buf' \in BufType /\ BufsSame(io[p].b)
      /\ BlksSame /\ ValidSame /\ DiskSame /\ DataSame /\ OwnersSame
      /\ buf'[io[p].b].ref = buf[io[p].b].ref - 1
  <2>1. PICK c \in Bufs : c = io[p].b
      BY Typed DEF IOType
  <2>2. buf' = [buf EXCEPT ![c].ref = buf[c].ref - 1]
      BY <1>1, <2>1 DEF brelse_unref
  <2>3. buf' \in BufType /\ BufsSame(c)
      BY RefEdit, <2>1, <2>2, <1>4, Typed
  <2>4. /\ buf'[c].ref = buf[c].ref - 1
    /\ buf'[c].blk = buf[c].blk /\ buf'[c].valid = buf[c].valid /\ buf'[c].disk = buf[c].disk
    /\ buf'[c].data = buf[c].data /\ buf'[c].owner = buf[c].owner
      BY <2>1, <2>2, <1>4, Typed DEF BufType, BufRec
  <2>5. QED
      BY <2>1, <2>3, <2>4 DEF BufsSame, BlksSame, ValidSame, DiskSame, DataSame,
         OwnersSame
<1>6. QED
    BY <1>2, <1>3, <1>5 DEF UnrefEffect

BrelseEffect(p) ==
    /\ io[p].at = "brelse" /\ OthersSame(p)
    /\ Fetched(p, "unref", io[p].op, io[p].b, io[p].head)
    /\ buf' \in BufType /\ BufsSame(io[p].b)
    /\ BlksSame /\ ValidSame /\ RefsSame /\ DiskSame /\ DataSame
    /\ buf'[io[p].b].owner = Nothing
    /\ UNCHANGED <<lru, diskvars, nobuffers>>

\* brelse() releases the buffer's lock.
LEMMA BrelseDoes ==
    ASSUME BlockInv, NEW p \in IOProc, brelse(p)
    PROVE  BrelseEffect(p)
<1>1. brelse(p)
    OBVIOUS
<1>2. io[p].at = "brelse" /\ UNCHANGED <<lru, diskvars, nobuffers>>
    BY <1>1 DEF brelse, At
<1>3. OthersSame(p) /\ Fetched(p, "unref", io[p].op, io[p].b, io[p].head)
  <2>1. io' = [io EXCEPT ![p].at = "unref"]
      BY <1>1 DEF brelse, Go
  <2>2. QED
      BY <2>1, Typed DEF OthersSame, Fetched, IOType, Places
<1>4. /\ buf' \in BufType /\ BufsSame(io[p].b)
      /\ BlksSame /\ ValidSame /\ RefsSame /\ DiskSame /\ DataSame
      /\ buf'[io[p].b].owner = Nothing
  <2>1. PICK c \in Bufs : c = io[p].b
      BY Typed DEF IOType
  <2>2. buf' = [buf EXCEPT ![c].owner = Nothing]
      BY <1>1, <2>1 DEF brelse
  <2>3. buf' \in BufType /\ BufsSame(c)
      BY OwnerEdit, <2>1, <2>2, Typed
  <2>4. /\ buf'[c].owner = Nothing
    /\ buf'[c].blk = buf[c].blk /\ buf'[c].valid = buf[c].valid /\ buf'[c].ref = buf[c].ref
    /\ buf'[c].disk = buf[c].disk /\ buf'[c].data = buf[c].data
      BY <2>1, <2>2,  Typed DEF BufType, BufRec
  <2>5. QED
      BY <2>1, <2>3, <2>4 DEF BufsSame, BlksSame, ValidSame, RefsSame, DiskSame,
         DataSame
<1>5. QED
    BY <1>2, <1>3, <1>4 DEF BrelseEffect

ReportEffect(i, b) ==
    /\ used # <<>> /\ i = used[1] /\ used' = Tail(used) /\ i \in Chains /\ b = chain[i].b
    /\ io' \in IOType
    /\ \A q \in IOProc :
          /\ io'[q].b = io[q].b /\ io'[q].op = io[q].op /\ io'[q].head = io[q].head
          /\ io'[q].at = IF io[q].at = "asleep" /\ io[q].b = b THEN "woken" ELSE io[q].at
    /\ buf' \in BufType /\ BufsSame(b)
    /\ BlksSame /\ ValidSame /\ RefsSame /\ DataSame /\ OwnersSame
    /\ buf'[b].disk = FALSE
    /\ UNCHANGED <<lru, platter, unused, chain, posted, irq, handling, nobuffers>>

\* The handler takes the oldest report and wakes who waits for its buffer.
LEMMA ReportDoes ==
    ASSUME BlockInv, intr_report
    PROVE  \E i \in Descs : \E b \in Bufs : ReportEffect(i, b)
<1>1. intr_report
    OBVIOUS
<1>2. /\ used # <<>> /\ used' = Tail(used)
      /\ UNCHANGED <<lru, platter, unused, chain, posted, irq, handling, nobuffers>>
    BY <1>1 DEF intr_report
<1>3. used[1] \in Descs /\ Head(used) = used[1] /\ 1 \in DOMAIN used
    BY <1>2, Typed
<1>4. used[1] \in Chains /\ chain[used[1]] \in Requested
  <2>1. used[1] \in ToSet(used)
      BY <1>3 DEF ToSet
  <2>2. used[1] \in Chains
      BY <2>1 DEF BlockInv, Reports
  <2>3. QED
      BY <2>2, Typed DEF Chains
<1>5. PICK b \in Bufs : b = chain[used[1]].b
    BY <1>4 DEF Requested
<1>6. buf' = [buf EXCEPT ![b].disk = FALSE]
    BY <1>1, <1>3, <1>5 DEF intr_report
<1>7. /\ buf' \in BufType /\ BufsSame(b)
      /\ BlksSame /\ ValidSame /\ RefsSame /\ DataSame /\ OwnersSame
      /\ buf'[b].disk = FALSE
  <2>1. PICK c \in Bufs : c = b
      OBVIOUS
  <2>2. buf' = [buf EXCEPT ![c].disk = FALSE]
      BY <1>6, <2>1
  <2>3. buf' \in BufType /\ BufsSame(c)
      BY DiskEdit, <2>1, <2>2, Typed
  <2>4. /\ buf'[c].disk = FALSE
    /\ buf'[c].blk = buf[c].blk /\ buf'[c].valid = buf[c].valid /\ buf'[c].ref = buf[c].ref
    /\ buf'[c].data = buf[c].data /\ buf'[c].owner = buf[c].owner
      BY <2>1, <2>2,  Typed DEF BufType, BufRec
  <2>5. QED
      BY <2>1, <2>3, <2>4 DEF BufsSame, BlksSame, ValidSame, RefsSame, DataSame,
         OwnersSame
<1>8. io' = Woken("asleep", "woken", {q \in IOProc : io[q].b = b})
    BY <1>1, <1>3, <1>5 DEF intr_report
<1>9. io' \in IOType
    BY <1>8, Typed DEF Woken, IOType, Places
<1>10. ASSUME NEW q \in IOProc
       PROVE  /\ io'[q].b = io[q].b /\ io'[q].op = io[q].op /\ io'[q].head = io[q].head
              /\ io'[q].at = IF io[q].at = "asleep" /\ io[q].b = b THEN "woken" ELSE io[q].at
  <2>1. io'[q] = IF io[q].b = b /\ io[q].at = "asleep" THEN [io[q] EXCEPT !.at = "woken"]
                 ELSE io[q]
      BY <1>8 DEF Woken
  <2>2. QED
      BY <2>1, Typed DEF IOType
<1>11. ReportEffect(used[1], b)
    BY <1>2, <1>4, <1>5, <1>7, <1>9, <1>10 DEF ReportEffect
<1>12. QED
    BY <1>3, <1>11

-----------------------------------------------------------------------------
(* Facts that several steps need.                                          *)

\* One process holds the lock of a buffer.
LEMMA OneHolder ==
    ASSUME BlockInv, NEW p \in IOProc, io[p].at \in Holding
    PROVE  /\ buf[io[p].b].owner = p /\ buf[io[p].b].owner # Nothing
           /\ \A q \in IOProc : io[q].at \in Holding /\ io[q].b = io[p].b => q = p
BY Typed DEF BlockInv, Holders, IOType

\* The processes that have got a buffer can be counted.
LEMMA GettersFinite ==
    ASSUME NEW b
    PROVE  IsFiniteSet(Getters(b)) /\ Cardinality(Getters(b)) \in Nat
BY BlockIOAssumption, FS_Subset, FS_CardinalityType DEF Getters

\* Nobody has got a buffer whose count is 0.
LEMMA NoGetters ==
    ASSUME BlockInv, NEW b \in Bufs, buf[b].ref = 0
    PROVE  Getters(b) = {} /\ \A q \in IOProc : io[q].at # "user" => io[q].b # b
<1>1. Cardinality(Getters(b)) = 0
    BY DEF BlockInv, Counted
<1>2. Getters(b) = {}
    BY <1>1, GettersFinite, FS_EmptySet
<1>3. QED
    BY <1>2 DEF Getters

\* A free descriptor is not the first of a chain.
LEMMA FreeHasNoChain ==
    ASSUME BlockInv, NEW h \in unused
    PROVE  h \in Descs /\ h \notin Chains /\ chain[h] = Nothing
BY Typed DEF BlockInv, Descriptors, Chains

\* The free descriptors can be counted.
LEMMA UnusedCount == ASSUME BlockInv PROVE Cardinality(unused) \in Nat
BY Typed, DescsFinite, FS_Subset, FS_CardinalityType

\* A miss takes no block that a buffer has: it looked under the same lock.
LEMMA OneCopyKept ==
    ASSUME BlockInv, [BioNext]_biovars
    PROVE  OneCopy'
<1> USE DEF diskvars
<1>1. /\ IOTypes /\ ListOK /\ Counted /\ Holders /\ OneCopy /\ Waiters /\ Descriptors /\ Reports
      /\ Sleepers /\ Contents
    BY DEF BlockInv
<1>2. \A q \in IOProc : io[q].b \in Bufs
    BY Typed DEF IOType
<1>3. CASE UNCHANGED biovars
    BY <1>3, <1>1 DEF biovars, OneCopy, OneCopy, BlksSame
<1>4. ASSUME NEW p \in IOProc, NEW op \in {"bread", "page"}, NEW s \in Sector, bget_hit(p, op, s)
      PROVE  OneCopy'
  <2>1. \E v \in Bufs : HitEffect(p, op, s, v)
      BY <1>4, HitDoes
  <2>2. PICK v \in Bufs : HitEffect(p, op, s, v)
      BY <2>1
  <2>3. QED
      BY <2>2, <1>1, <1>2 DEF HitEffect, OthersSame, AlertOnly, Retry, Fetched,
         diskvars, OneCopy, BlksSame
<1>5. ASSUME NEW p \in IOProc, NEW op \in {"bread", "page"}, NEW s \in Sector, bget_recycle(p, op, s)
      PROVE  OneCopy'
  <2>1. \E v \in Bufs : RecycleEffect(p, op, s, v)
      BY <1>5, RecycleDoes
  <2>2. PICK v \in Bufs : RecycleEffect(p, op, s, v)
      BY <2>1
  <2>3. QED
      BY <2>2, <1>1, <1>2 DEF RecycleEffect, OthersSame, AlertOnly, Retry,
         Fetched, diskvars, OneCopy, BufsSame
<1>6. ASSUME NEW p \in IOProc, NEW s \in Sector, bget_panics(p, s) PROVE OneCopy'
    BY <1>6, <1>1, <1>2 DEF bget_panics, At, Go, Retry, diskvars, OneCopy, BlksSame
<1>7. ASSUME NEW p \in IOProc, bget_lock(p) PROVE OneCopy'
  <2>1. LockEffect(p)
      BY <1>7, LockDoes
  <2>2. QED
      BY <2>1, <1>1, <1>2 DEF LockEffect, OthersSame, AlertOnly, Retry, Fetched,
         diskvars, OneCopy, BlksSame
<1>8. ASSUME NEW p \in IOProc, use(p) PROVE OneCopy'
  <2>1. UseEffect(p)
      BY <1>8, UseDoes
  <2>2. QED
      BY <2>1, <1>1, <1>2 DEF UseEffect, OthersSame, AlertOnly, Retry, Fetched,
         diskvars, OneCopy, BlksSame
<1>9. ASSUME NEW p \in IOProc, rw_post(p) PROVE OneCopy'
  <2>1. \E S, h : PostEffect(p, S, h)
      BY <1>9, PostDoes
  <2>2. PICK S, h : PostEffect(p, S, h)
      BY <2>1
  <2>3. QED
      BY <2>2, <1>1, <1>2 DEF PostEffect, OthersSame, AlertOnly, Retry, Fetched,
         diskvars, OneCopy, BlksSame
<1>10. ASSUME NEW p \in IOProc, rw_full(p) PROVE OneCopy'
  <2>1. FullEffect(p)
      BY <1>10, FullDoes
  <2>2. QED
      BY <2>1, <1>1, <1>2 DEF FullEffect, OthersSame, AlertOnly, Retry, Fetched,
         diskvars, OneCopy, BlksSame
<1>11. ASSUME NEW p \in IOProc, rw_again(p) PROVE OneCopy'
    BY <1>11, <1>1, <1>2 DEF rw_again, At, Go, Retry, diskvars, OneCopy, BlksSame
<1>12. ASSUME NEW p \in IOProc, rw_finish(p) PROVE OneCopy'
  <2>1. FinishEffect(p)
      BY <1>12, FinishDoes
  <2>2. QED
      BY <2>1, <1>1, <1>2 DEF FinishEffect, OthersSame, AlertOnly, Retry, Fetched,
         diskvars, OneCopy, BlksSame
<1>13. ASSUME NEW p \in IOProc, kill_sleeper(p) PROVE OneCopy'
    BY <1>13, <1>1, <1>2 DEF kill_sleeper, At, Go, Retry, diskvars, OneCopy,
       BlksSame
<1>14. ASSUME NEW p \in IOProc, brelse(p) PROVE OneCopy'
  <2>1. BrelseEffect(p)
      BY <1>14, BrelseDoes
  <2>2. QED
      BY <2>1, <1>1, <1>2 DEF BrelseEffect, OthersSame, AlertOnly, Retry, Fetched,
         diskvars, OneCopy, BlksSame
<1>15. ASSUME NEW p \in IOProc, brelse_unref(p) PROVE OneCopy'
  <2>1. UnrefEffect(p)
      BY <1>15, UnrefDoes
  <2>2. QED
      BY <2>1, <1>1, <1>2 DEF UnrefEffect, OthersSame, AlertOnly, Retry, Fetched,
         diskvars, OneCopy, BlksSame
<1>16. ASSUME NEW i \in Descs, device(i) PROVE OneCopy'
  <2>1. DeviceEffect(i)
      BY <1>16, DeviceDoes
  <2>2. QED
      BY <2>1, <1>1, <1>2 DEF DeviceEffect, OthersSame, AlertOnly, Retry, Fetched,
         diskvars, OneCopy, BlksSame
<1>17. ASSUME intr_ack PROVE OneCopy'
    BY <1>17, <1>1, <1>2 DEF intr_ack, At, Go, Retry, diskvars, OneCopy, BlksSame
<1>18. ASSUME intr_report PROVE OneCopy'
  <2>1. \E i \in Descs : \E b \in Bufs : ReportEffect(i, b)
      BY <1>18, ReportDoes
  <2>2. PICK i \in Descs : \E b \in Bufs : ReportEffect(i, b)
      BY <2>1
  <2>3. PICK b \in Bufs : ReportEffect(i, b)
      BY <2>2
  <2>4. QED
      BY <2>3, <1>1, <1>2 DEF ReportEffect, OthersSame, AlertOnly, Retry, Fetched,
         diskvars, OneCopy, BlksSame
<1>19. ASSUME intr_end PROVE OneCopy'
    BY <1>19, <1>1, <1>2 DEF intr_end, At, Go, Retry, diskvars, OneCopy, BlksSame
<1>20. QED
    BY <1>3, <1>4, <1>5, <1>6, <1>7, <1>8, <1>9, <1>10, <1>11, <1>12,
       <1>13, <1>14, <1>15, <1>16, <1>17, <1>18, <1>19 DEF BioNext, BioHalted, Wait, Device, Handler

\* A sleeper's request is under way; who waits for descriptors does not find three.
LEMMA SleepersKept ==
    ASSUME BlockInv, [BioNext]_biovars
    PROVE  Sleepers'
<1> USE DEF diskvars
<1>1. /\ IOTypes /\ ListOK /\ Counted /\ Holders /\ OneCopy /\ Waiters /\ Descriptors /\ Reports
      /\ Sleepers /\ Contents
    BY DEF BlockInv
<1>2. \A q \in IOProc : io[q].b \in Bufs
    BY Typed DEF IOType
<1>3. Cardinality(unused) \in Nat
    BY UnusedCount
<1>4. CASE UNCHANGED biovars
    BY <1>4, <1>1 DEF biovars, Sleepers, Sleepers, DiskSame
<1>5. ASSUME NEW p \in IOProc, NEW op \in {"bread", "page"}, NEW s \in Sector, bget_hit(p, op, s)
      PROVE  Sleepers'
  <2>1. \E v \in Bufs : HitEffect(p, op, s, v)
      BY <1>5, HitDoes
  <2>2. PICK v \in Bufs : HitEffect(p, op, s, v)
      BY <2>1
  <2>3. QED
      BY <2>2, <1>1, <1>2, <1>3 DEF HitEffect, OthersSame, AlertOnly, Retry,
         Fetched, diskvars, Sleepers, DiskSame
<1>6. ASSUME NEW p \in IOProc, NEW op \in {"bread", "page"}, NEW s \in Sector, bget_recycle(p, op, s)
      PROVE  Sleepers'
  <2>1. \E v \in Bufs : RecycleEffect(p, op, s, v)
      BY <1>6, RecycleDoes
  <2>2. PICK v \in Bufs : RecycleEffect(p, op, s, v)
      BY <2>1
  <2>3. QED
      BY <2>2, <1>1, <1>2, <1>3 DEF RecycleEffect, OthersSame, AlertOnly, Retry,
         Fetched, diskvars, Sleepers, DiskSame
<1>7. ASSUME NEW p \in IOProc, NEW s \in Sector, bget_panics(p, s) PROVE Sleepers'
    BY <1>7, <1>1, <1>2, <1>3 DEF bget_panics, At, Go, Retry, diskvars, Sleepers,
       DiskSame
<1>8. ASSUME NEW p \in IOProc, bget_lock(p) PROVE Sleepers'
  <2>1. LockEffect(p)
      BY <1>8, LockDoes
  <2>2. QED
      BY <2>1, <1>1, <1>2, <1>3 DEF LockEffect, OthersSame, AlertOnly, Retry,
         Fetched, diskvars, Sleepers, DiskSame
<1>9. ASSUME NEW p \in IOProc, use(p) PROVE Sleepers'
  <2>1. UseEffect(p)
      BY <1>9, UseDoes
  <2>2. QED
      BY <2>1, <1>1, <1>2, <1>3 DEF UseEffect, OthersSame, AlertOnly, Retry,
         Fetched, diskvars, Sleepers, DiskSame
<1>10. ASSUME NEW p \in IOProc, rw_post(p) PROVE Sleepers'
  <2>1. \E S, h : PostEffect(p, S, h)
      BY <1>10, PostDoes
  <2>2. PICK S, h : PostEffect(p, S, h)
      BY <2>1
  <2>3. QED
      BY <2>2, <1>1, <1>2, <1>3 DEF PostEffect, OthersSame, AlertOnly, Retry,
         Fetched, diskvars, Sleepers, BufsSame
<1>11. ASSUME NEW p \in IOProc, rw_full(p) PROVE Sleepers'
  <2>1. FullEffect(p)
      BY <1>11, FullDoes
  <2>2. QED
      BY <2>1, <1>1, <1>2, <1>3 DEF FullEffect, OthersSame, AlertOnly, Retry,
         Fetched, diskvars, Sleepers, DiskSame
<1>12. ASSUME NEW p \in IOProc, rw_again(p) PROVE Sleepers'
    BY <1>12, <1>1, <1>2, <1>3 DEF rw_again, At, Go, Retry, diskvars, Sleepers,
       DiskSame
<1>13. ASSUME NEW p \in IOProc, rw_finish(p) PROVE Sleepers'
  <2>1. FinishEffect(p)
      BY <1>13, FinishDoes
  <2>2. QED
      BY <2>1, <1>1, <1>2, <1>3 DEF FinishEffect, OthersSame, AlertOnly, Retry,
         Fetched, diskvars, Sleepers, DiskSame
<1>14. ASSUME NEW p \in IOProc, kill_sleeper(p) PROVE Sleepers'
    BY <1>14, <1>1, <1>2, <1>3 DEF kill_sleeper, At, Go, Retry, diskvars,
       Sleepers, DiskSame
<1>15. ASSUME NEW p \in IOProc, brelse(p) PROVE Sleepers'
  <2>1. BrelseEffect(p)
      BY <1>15, BrelseDoes
  <2>2. QED
      BY <2>1, <1>1, <1>2, <1>3 DEF BrelseEffect, OthersSame, AlertOnly, Retry,
         Fetched, diskvars, Sleepers, DiskSame
<1>16. ASSUME NEW p \in IOProc, brelse_unref(p) PROVE Sleepers'
  <2>1. UnrefEffect(p)
      BY <1>16, UnrefDoes
  <2>2. QED
      BY <2>1, <1>1, <1>2, <1>3 DEF UnrefEffect, OthersSame, AlertOnly, Retry,
         Fetched, diskvars, Sleepers, DiskSame
<1>17. ASSUME NEW i \in Descs, device(i) PROVE Sleepers'
  <2>1. DeviceEffect(i)
      BY <1>17, DeviceDoes
  <2>2. QED
      BY <2>1, <1>1, <1>2, <1>3 DEF DeviceEffect, OthersSame, AlertOnly, Retry,
         Fetched, diskvars, Sleepers, DiskSame
<1>18. ASSUME intr_ack PROVE Sleepers'
    BY <1>18, <1>1, <1>2, <1>3 DEF intr_ack, At, Go, Retry, diskvars, Sleepers,
       DiskSame
<1>19. ASSUME intr_report PROVE Sleepers'
  <2>1. \E i \in Descs : \E b \in Bufs : ReportEffect(i, b)
      BY <1>19, ReportDoes
  <2>2. PICK i \in Descs : \E b \in Bufs : ReportEffect(i, b)
      BY <2>1
  <2>3. PICK b \in Bufs : ReportEffect(i, b)
      BY <2>2
  <2>4. QED
      BY <2>3, <1>1, <1>2, <1>3 DEF ReportEffect, OthersSame, AlertOnly, Retry,
         Fetched, diskvars, Sleepers, BufsSame
<1>20. ASSUME intr_end PROVE Sleepers'
    BY <1>20, <1>1, <1>2, <1>3 DEF intr_end, At, Go, Retry, diskvars, Sleepers,
       DiskSame
<1>21. QED
    BY <1>4, <1>5, <1>6, <1>7, <1>8, <1>9, <1>10, <1>11, <1>12, <1>13,
       <1>14, <1>15, <1>16, <1>17, <1>18, <1>19, <1>20 DEF BioNext, BioHalted, Wait, Device, Handler

\* A chain comes and goes with the process that waits for it.
LEMMA WaitersKept ==
    ASSUME BlockInv, [BioNext]_biovars
    PROVE  Waiters'
<1> USE DEF diskvars
<1>1. /\ IOTypes /\ ListOK /\ Counted /\ Holders /\ OneCopy /\ Waiters /\ Descriptors /\ Reports
      /\ Sleepers /\ Contents
    BY DEF BlockInv
<1>2. \A q \in IOProc : io[q].b \in Bufs
    BY Typed DEF IOType
<1>3. CASE UNCHANGED biovars
    BY <1>3, <1>1 DEF biovars, Waiters, Waiters, Chains, InFlight
<1>4. ASSUME NEW p \in IOProc, NEW op \in {"bread", "page"}, NEW s \in Sector, bget_hit(p, op, s)
      PROVE  Waiters'
  <2>1. \E v \in Bufs : HitEffect(p, op, s, v)
      BY <1>4, HitDoes
  <2>2. PICK v \in Bufs : HitEffect(p, op, s, v)
      BY <2>1
  <2>3. QED
      BY <2>2, <1>1, <1>2 DEF HitEffect, OthersSame, AlertOnly, Retry, Fetched,
         diskvars, Waiters, Chains, InFlight
<1>5. ASSUME NEW p \in IOProc, NEW op \in {"bread", "page"}, NEW s \in Sector, bget_recycle(p, op, s)
      PROVE  Waiters'
  <2>1. \E v \in Bufs : RecycleEffect(p, op, s, v)
      BY <1>5, RecycleDoes
  <2>2. PICK v \in Bufs : RecycleEffect(p, op, s, v)
      BY <2>1
  <2>3. QED
      BY <2>2, <1>1, <1>2 DEF RecycleEffect, OthersSame, AlertOnly, Retry,
         Fetched, diskvars, Waiters, Chains, InFlight
<1>6. ASSUME NEW p \in IOProc, NEW s \in Sector, bget_panics(p, s) PROVE Waiters'
    BY <1>6, <1>1, <1>2 DEF bget_panics, At, Go, Retry, diskvars, Waiters, Chains,
       InFlight
<1>7. ASSUME NEW p \in IOProc, bget_lock(p) PROVE Waiters'
  <2>1. LockEffect(p)
      BY <1>7, LockDoes
  <2>2. QED
      BY <2>1, <1>1, <1>2 DEF LockEffect, OthersSame, AlertOnly, Retry, Fetched,
         diskvars, Waiters, Chains, InFlight
<1>8. ASSUME NEW p \in IOProc, use(p) PROVE Waiters'
  <2>1. UseEffect(p)
      BY <1>8, UseDoes
  <2>2. QED
      BY <2>1, <1>1, <1>2 DEF UseEffect, OthersSame, AlertOnly, Retry, Fetched,
         diskvars, Waiters, Chains, InFlight
<1>9. ASSUME NEW p \in IOProc, rw_post(p) PROVE Waiters'
  <2>1. \E S, h : PostEffect(p, S, h)
      BY <1>9, PostDoes
  <2>2. PICK S, h : PostEffect(p, S, h)
      BY <2>1
  <2>3. h \in Descs /\ chain[h] = Nothing
      BY <2>2, FreeHasNoChain DEF PostEffect
  <2>4. io[p].at \notin InFlight
      BY <2>2 DEF PostEffect, InFlight
  <2>5. io'[p].at = "asleep" /\ io'[p].head = h /\ io'[p].b = io[p].b /\ OthersSame(p)
      BY <2>2 DEF PostEffect, Fetched
  <2>6. /\ chain'[h] # Nothing /\ chain'[h].b = io[p].b
        /\ \A j \in Descs \ {h} : chain'[j] = chain[j]
      BY <2>2 DEF PostEffect
  <2>7. ASSUME NEW q \in IOProc, io'[q].at \in InFlight
        PROVE  chain'[io'[q].head] # Nothing /\ chain'[io'[q].head].b = io'[q].b
    <3>1. CASE q = p
        BY <2>5, <2>6, <3>1
    <3>2. CASE q # p
      <4>1. io'[q] = io[q] /\ io[q].head \in Descs
          BY <2>5, <3>2, Typed DEF OthersSame, IOType
      <4>2. chain[io[q].head] # Nothing /\ chain[io[q].head].b = io[q].b
          BY <1>1, <2>7, <4>1 DEF Waiters
      <4>3. chain'[io[q].head] = chain[io[q].head]
          BY <2>3, <2>6, <4>1, <4>2
      <4>4. QED
          BY <4>1, <4>2, <4>3
    <3>3. QED
        BY <3>1, <3>2
  <2>8. ASSUME NEW i \in Chains' PROVE \E q \in IOProc : io'[q].at \in InFlight /\ io'[q].head = i
    <3>1. CASE i = h
        BY <2>5, <3>1 DEF InFlight
    <3>2. CASE i # h
      <4>1. i \in Chains
          BY <2>6, <3>2 DEF Chains
      <4>2. PICK q \in IOProc : io[q].at \in InFlight /\ io[q].head = i
          BY <1>1, <4>1 DEF Waiters
      <4>3. io'[q] = io[q]
          BY <2>4, <2>5, <4>2 DEF OthersSame
      <4>4. QED
          BY <4>2, <4>3
    <3>3. QED
        BY <3>1, <3>2
  <2>9. QED
      BY <2>7, <2>8 DEF Waiters
<1>10. ASSUME NEW p \in IOProc, rw_full(p) PROVE Waiters'
  <2>1. FullEffect(p)
      BY <1>10, FullDoes
  <2>2. QED
      BY <2>1, <1>1, <1>2 DEF FullEffect, OthersSame, AlertOnly, Retry, Fetched,
         diskvars, Waiters, Chains, InFlight
<1>11. ASSUME NEW p \in IOProc, rw_again(p) PROVE Waiters'
    BY <1>11, <1>1, <1>2 DEF rw_again, At, Go, Retry, diskvars, Waiters, Chains,
       InFlight
<1>12. ASSUME NEW p \in IOProc, rw_finish(p) PROVE Waiters'
  <2>1. FinishEffect(p)
      BY <1>12, FinishDoes
  <2>2. /\ io[p].at \in Holding /\ io[p].at \in InFlight
        /\ chain[io[p].head].b = io[p].b /\ io[p].head \in Descs
      BY <2>1, <1>1, Typed DEF FinishEffect, Holding, Places, InFlight, Waiters,
         IOType
  <2>3. io'[p].at \notin InFlight
      BY <2>1 DEF FinishEffect, Fetched, InFlight
  <2>4. ASSUME NEW q \in IOProc, q # p
        PROVE  /\ io'[q].b = io[q].b /\ io'[q].head = io[q].head
               /\ io'[q].at \in InFlight <=> io[q].at \in InFlight
      BY <2>1, <2>4 DEF FinishEffect, AlertOnly, Retry, InFlight
  <2>5. ASSUME NEW q \in IOProc, io[q].at \in InFlight, io[q].head = io[p].head PROVE q = p
    <3>1. chain[io[q].head].b = io[q].b /\ io[q].at \in Holding
        BY <1>1, <2>5 DEF Waiters, InFlight, Holding, Places
    <3>2. io[q].b = io[p].b
        BY <2>2, <2>5, <3>1
    <3>3. \A r \in IOProc : io[r].at \in Holding /\ io[r].b = io[p].b => r = p
        BY <2>2, OneHolder
    <3>4. QED
        BY <3>1, <3>2, <3>3
  <2>6. chain'[io[p].head] = Nothing /\ \A j \in Descs \ {io[p].head} : chain'[j] = chain[j]
      BY <2>1 DEF FinishEffect
  <2>7. ASSUME NEW q \in IOProc, io'[q].at \in InFlight
        PROVE  chain'[io'[q].head] # Nothing /\ chain'[io'[q].head].b = io'[q].b
    <3>1. /\ q # p /\ io[q].at \in InFlight /\ io[q].head \in Descs
          /\ io'[q].b = io[q].b /\ io'[q].head = io[q].head
        BY <2>3, <2>4, <2>7, Typed DEF IOType
    <3>2. io[q].head # io[p].head
        BY <2>5, <3>1
    <3>3. chain[io[q].head] # Nothing /\ chain[io[q].head].b = io[q].b
        BY <1>1, <3>1 DEF Waiters
    <3>4. QED
        BY <2>6, <3>1, <3>2, <3>3
  <2>8. ASSUME NEW i \in Chains' PROVE \E q \in IOProc : io'[q].at \in InFlight /\ io'[q].head = i
    <3>1. i \in Chains /\ i # io[p].head
        BY <2>6 DEF Chains
    <3>2. PICK q \in IOProc : io[q].at \in InFlight /\ io[q].head = i
        BY <1>1, <3>1 DEF Waiters
    <3>3. QED
        BY <2>4, <3>1, <3>2
  <2>9. QED
      BY <2>7, <2>8 DEF Waiters
<1>13. ASSUME NEW p \in IOProc, kill_sleeper(p) PROVE Waiters'
    BY <1>13, <1>1, <1>2 DEF kill_sleeper, At, Go, Retry, diskvars, Waiters,
       Chains, InFlight
<1>14. ASSUME NEW p \in IOProc, brelse(p) PROVE Waiters'
  <2>1. BrelseEffect(p)
      BY <1>14, BrelseDoes
  <2>2. QED
      BY <2>1, <1>1, <1>2 DEF BrelseEffect, OthersSame, AlertOnly, Retry, Fetched,
         diskvars, Waiters, Chains, InFlight
<1>15. ASSUME NEW p \in IOProc, brelse_unref(p) PROVE Waiters'
  <2>1. UnrefEffect(p)
      BY <1>15, UnrefDoes
  <2>2. QED
      BY <2>1, <1>1, <1>2 DEF UnrefEffect, OthersSame, AlertOnly, Retry, Fetched,
         diskvars, Waiters, Chains, InFlight
<1>16. ASSUME NEW i \in Descs, device(i) PROVE Waiters'
  <2>1. DeviceEffect(i)
      BY <1>16, DeviceDoes
  <2>2. QED
      BY <2>1, <1>1, <1>2 DEF DeviceEffect, OthersSame, AlertOnly, Retry, Fetched,
         diskvars, Waiters, Chains, InFlight
<1>17. ASSUME intr_ack PROVE Waiters'
    BY <1>17, <1>1, <1>2 DEF intr_ack, At, Go, Retry, diskvars, Waiters, Chains,
       InFlight
<1>18. ASSUME intr_report PROVE Waiters'
  <2>1. \E i \in Descs : \E b \in Bufs : ReportEffect(i, b)
      BY <1>18, ReportDoes
  <2>2. PICK i \in Descs : \E b \in Bufs : ReportEffect(i, b)
      BY <2>1
  <2>3. PICK b \in Bufs : ReportEffect(i, b)
      BY <2>2
  <2>4. QED
      BY <2>3, <1>1, <1>2 DEF ReportEffect, OthersSame, AlertOnly, Retry, Fetched,
         diskvars, Waiters, Chains, InFlight
<1>19. ASSUME intr_end PROVE Waiters'
    BY <1>19, <1>1, <1>2 DEF intr_end, At, Go, Retry, diskvars, Waiters, Chains,
       InFlight
<1>20. QED
    BY <1>3, <1>4, <1>5, <1>6, <1>7, <1>8, <1>9, <1>10, <1>11, <1>12,
       <1>13, <1>14, <1>15, <1>16, <1>17, <1>18, <1>19 DEF BioNext, BioHalted, Wait, Device, Handler

\* Only the holder of a buffer puts something into it, and only the device changes the disk,
\* for a buffer that its holder waits for.
LEMMA ContentsKept ==
    ASSUME BlockInv, [BioNext]_biovars
    PROVE  Contents'
<1> USE DEF diskvars
<1>1. /\ IOTypes /\ ListOK /\ Counted /\ Holders /\ OneCopy /\ Waiters /\ Descriptors /\ Reports
      /\ Sleepers /\ Contents
    BY DEF BlockInv
<1>2. \A q \in IOProc : io[q].b \in Bufs
    BY Typed DEF IOType
<1>3. CASE UNCHANGED biovars
    BY <1>3, <1>1 DEF biovars, Contents, Contents, Same, BlksSame, DataSame,
       OwnersSame, ValidSame, InFlight
<1>4. ASSUME NEW p \in IOProc, NEW op \in {"bread", "page"}, NEW s \in Sector, bget_hit(p, op, s)
      PROVE  Contents'
  <2>1. \E v \in Bufs : HitEffect(p, op, s, v)
      BY <1>4, HitDoes
  <2>2. PICK v \in Bufs : HitEffect(p, op, s, v)
      BY <2>1
  <2>3. QED
      BY <2>2, <1>1, <1>2 DEF HitEffect, OthersSame, AlertOnly, Retry, Fetched,
         diskvars, Contents, Same, BlksSame, DataSame, OwnersSame, ValidSame,
         InFlight
<1>5. ASSUME NEW p \in IOProc, NEW op \in {"bread", "page"}, NEW s \in Sector, bget_recycle(p, op, s)
      PROVE  Contents'
  <2>1. \E v \in Bufs : RecycleEffect(p, op, s, v)
      BY <1>5, RecycleDoes
  <2>2. PICK v \in Bufs : RecycleEffect(p, op, s, v)
      BY <2>1
  <2>3. \A q \in IOProc : io[q].at # "user" => io[q].b # v
      BY <2>2, NoGetters DEF RecycleEffect
  <2>4. /\ ~buf'[v].valid /\ \A c \in Bufs \ {v} : buf'[c] = buf[c]
        /\ platter' = platter /\ posted' = posted
        /\ io'[p].at = "lock" /\ \A q \in IOProc \ {p} : io'[q] = io[q]
      BY <2>2 DEF RecycleEffect, BufsSame, Fetched, OthersSame, diskvars
  <2>5. QED
      BY <1>1, <1>2, <2>3, <2>4 DEF Contents, Same, InFlight
<1>6. ASSUME NEW p \in IOProc, NEW s \in Sector, bget_panics(p, s) PROVE Contents'
    BY <1>6, <1>1, <1>2 DEF bget_panics, At, Go, Retry, diskvars, Contents, Same,
       BlksSame, DataSame, OwnersSame, ValidSame, InFlight
<1>7. ASSUME NEW p \in IOProc, bget_lock(p) PROVE Contents'
  <2>1. LockEffect(p)
      BY <1>7, LockDoes
  <2>2. /\ buf'[io[p].b].owner = p /\ p # Nothing /\ BlksSame /\ DataSame /\ ValidSame
        /\ BufsSame(io[p].b) /\ platter' = platter /\ posted' = posted
      BY <2>1, Typed DEF LockEffect, diskvars
  <2>3. /\ OthersSame(p) /\ io'[p].b = io[p].b /\ io'[p].op = io[p].op
        /\ io'[p].at = IF io[p].op = "page" \/ buf[io[p].b].valid THEN "have" ELSE "read"
        /\ buf[io[p].b].owner = Nothing
      BY <2>1 DEF LockEffect, Fetched
  <2>4. io[p].op # "page" /\ io'[p].at = "have" => Same(io[p].b)
      BY <1>1, <1>2, <2>3 DEF Contents
  <2>5. \A c \in Bufs : Same(c) <=> Same(c)'
      BY <2>2 DEF Same, BlksSame, DataSame
  <2>6. ASSUME NEW c \in Bufs, buf'[c].valid, buf'[c].owner = Nothing PROVE Same(c)'
      BY <1>1, <2>2, <2>5, <2>6 DEF Contents, BufsSame
  <2>7. QED
      BY <1>1, <1>2, <2>2, <2>3, <2>4, <2>5, <2>6 DEF Contents, OthersSame, InFlight
<1>8. ASSUME NEW p \in IOProc, use(p) PROVE Contents'
  <2>1. UseEffect(p)
      BY <1>8, UseDoes
  <2>2. io[p].at \in Holding /\ io[p].at = "have" /\ OthersSame(p)
      BY <2>1 DEF UseEffect, Holding, Places
  <2>3. platter' = platter /\ posted' = posted
      BY <2>1 DEF UseEffect, diskvars
  <2>4. CASE io[p].op = "bread" /\ Fetched(p, "brelse", "bread", io[p].b, io[p].head) /\ buf' = buf
      BY <1>1, <2>2, <2>3, <2>4 DEF Contents, Same, OthersSame, Fetched, InFlight
  <2>5. CASE /\ Fetched(p, "write", "bread", io[p].b, io[p].head)
             /\ BufsSame(io[p].b) /\ OwnersSame
    <3>1. /\ buf[io[p].b].owner # Nothing
          /\ \A q \in IOProc : io[q].at \in Holding /\ io[q].b = io[p].b => q = p
        BY <2>2, OneHolder
    <3>2. \A c \in Bufs \ {io[p].b} : Same(c) <=> Same(c)'
        BY <2>3, <2>5 DEF Same, BufsSame
    <3>3. ASSUME NEW c \in Bufs, buf'[c].valid, buf'[c].owner = Nothing PROVE Same(c)'
      <4>1. c # io[p].b
          BY <2>5, <3>1, <3>3, <1>2 DEF OwnersSame
      <4>2. QED
          BY <1>1, <2>5, <3>2, <3>3, <4>1 DEF Contents, BufsSame
    <3>4. ASSUME NEW q \in IOProc, q # p,
                 \/ io'[q].at = "brelse"
                 \/ io'[q].at = "have" /\ io'[q].op # "page"
                 \/ io'[q].at \in InFlight /\ io'[q].head \notin posted'
          PROVE  Same(io[q].b)'
      <4>1. io'[q] = io[q] /\ io[q].at \in Holding
          BY <2>2, <3>4 DEF OthersSame, Holding, Places, InFlight
      <4>2. io[q].b # io[p].b /\ Same(io[q].b)
          BY <1>1, <2>3, <3>1, <3>4, <4>1 DEF Contents
      <4>3. QED
          BY <1>2, <3>2, <4>1, <4>2
    <3>5. io'[p].at = "write"
        BY <2>5 DEF Fetched
    <3>6. QED
        BY <3>3, <3>4, <3>5 DEF Contents, InFlight
  <2>6. QED
      BY <2>4, <2>5, <2>1 DEF UseEffect
<1>9. ASSUME NEW p \in IOProc, rw_post(p) PROVE Contents'
  <2>1. \E S, h : PostEffect(p, S, h)
      BY <1>9, PostDoes
  <2>2. PICK S, h : PostEffect(p, S, h)
      BY <2>1
  <2>3. QED
      BY <2>2, <1>1, <1>2 DEF PostEffect, OthersSame, AlertOnly, Retry, Fetched,
         diskvars, Contents, Same, BlksSame, DataSame, OwnersSame, ValidSame,
         InFlight
<1>10. ASSUME NEW p \in IOProc, rw_full(p) PROVE Contents'
  <2>1. FullEffect(p)
      BY <1>10, FullDoes
  <2>2. QED
      BY <2>1, <1>1, <1>2 DEF FullEffect, OthersSame, AlertOnly, Retry, Fetched,
         diskvars, Contents, Same, BlksSame, DataSame, OwnersSame, ValidSame,
         InFlight
<1>11. ASSUME NEW p \in IOProc, rw_again(p) PROVE Contents'
    BY <1>11, <1>1, <1>2 DEF rw_again, At, Go, Retry, diskvars, Contents, Same,
       BlksSame, DataSame, OwnersSame, ValidSame, InFlight
<1>12. ASSUME NEW p \in IOProc, rw_finish(p) PROVE Contents'
  <2>1. FinishEffect(p)
      BY <1>12, FinishDoes
  <2>2. /\ io[p].at \in Holding /\ io[p].at \in InFlight /\ ~buf[io[p].b].disk
        /\ platter' = platter /\ posted' = posted /\ BufsSame(io[p].b)
        /\ BlksSame /\ DataSame /\ OwnersSame
      BY <2>1 DEF FinishEffect, Holding, Places, InFlight
  <2>3. io[p].head \notin posted
      BY <1>1, <1>2, <2>2 DEF Reports, Waiters
  <2>4. Same(io[p].b)
      BY <1>1, <2>2, <2>3 DEF Contents
  <2>5. \A c \in Bufs : Same(c) <=> Same(c)'
      BY <2>2 DEF Same, BlksSame, DataSame
  <2>6. io'[p].b = io[p].b /\ \A q \in IOProc \ {p} : AlertOnly(q)
      BY <2>1 DEF FinishEffect, Fetched
  <2>7. ASSUME NEW c \in Bufs, buf'[c].valid, buf'[c].owner = Nothing PROVE Same(c)'
    <3>1. c # io[p].b
        BY <2>2, <2>7, OneHolder DEF OwnersSame
    <3>2. QED
        BY <1>1, <2>2, <2>5, <2>7, <3>1 DEF Contents, BufsSame
  <2>8. QED
      BY <1>1, <1>2, <2>2, <2>4, <2>5, <2>6, <2>7 DEF Contents, AlertOnly, Retry,
         InFlight
<1>13. ASSUME NEW p \in IOProc, kill_sleeper(p) PROVE Contents'
    BY <1>13, <1>1, <1>2 DEF kill_sleeper, At, Go, Retry, diskvars, Contents,
       Same, BlksSame, DataSame, OwnersSame, ValidSame, InFlight
<1>14. ASSUME NEW p \in IOProc, brelse(p) PROVE Contents'
  <2>1. BrelseEffect(p)
      BY <1>14, BrelseDoes
  <2>2. /\ Same(io[p].b) /\ platter' = platter /\ posted' = posted /\ BufsSame(io[p].b)
        /\ BlksSame /\ DataSame /\ ValidSame /\ OthersSame(p) /\ io'[p].at = "unref"
      BY <1>1, <2>1 DEF BrelseEffect, Contents, Fetched, diskvars
  <2>3. \A c \in Bufs : Same(c) <=> Same(c)'
      BY <2>2 DEF Same, BlksSame, DataSame
  <2>4. ASSUME NEW c \in Bufs, buf'[c].valid, buf'[c].owner = Nothing PROVE Same(c)'
      BY <1>1, <2>2, <2>3, <2>4 DEF Contents, BufsSame
  <2>5. QED
      BY <1>1, <1>2, <2>2, <2>3, <2>4 DEF Contents, OthersSame, InFlight
<1>15. ASSUME NEW p \in IOProc, brelse_unref(p) PROVE Contents'
  <2>1. UnrefEffect(p)
      BY <1>15, UnrefDoes
  <2>2. QED
      BY <2>1, <1>1, <1>2 DEF UnrefEffect, OthersSame, AlertOnly, Retry, Fetched,
         diskvars, Contents, Same, BlksSame, DataSame, OwnersSame, ValidSame,
         InFlight
<1>16. ASSUME NEW i \in Descs, device(i) PROVE Contents'
  <2>1. DeviceEffect(i)
      BY <1>16, DeviceDoes
  <2>2. /\ i \in posted /\ posted' = posted \ {i} /\ io' = io /\ chain' = chain
        /\ chain[i].b \in Bufs /\ buf[chain[i].b].blk \in Sector
      BY <2>1 DEF DeviceEffect
  <2>3. Same(chain[i].b)' /\ BlksSame /\ ValidSame /\ OwnersSame
      BY <2>1 DEF DeviceEffect, Same, BlksSame, ValidSame, OwnersSame
  <2>4. ASSUME NEW c \in Bufs, c # chain[i].b, buf[c].blk # Nothing, Same(c) PROVE Same(c)'
    <3>1. buf[c].blk \in Sector /\ buf[c].blk # buf[chain[i].b].blk
        BY <1>1, <2>2, <2>4, Typed DEF OneCopy, BufType, BufRec
    <3>2. buf'[c] = buf[c]
        BY <2>1, <2>4 DEF DeviceEffect, BufsSame
    <3>3. platter'[buf[c].blk] = platter[buf[c].blk]
        BY <2>1, <3>1 DEF DeviceEffect
    <3>4. QED
        BY <2>4, <3>2, <3>3 DEF Same
  <2>5. ASSUME NEW c \in Bufs, buf'[c].valid, buf'[c].owner = Nothing PROVE Same(c)'
    <3>1. buf[c].valid /\ buf[c].owner = Nothing
        BY <2>3, <2>5 DEF ValidSame, OwnersSame
    <3>2. Same(c) /\ buf[c].blk # Nothing
        BY <1>1, <3>1 DEF Contents, Holders
    <3>3. CASE c = chain[i].b
        BY <2>2, <2>3, <3>3 DEF Same
    <3>4. QED
        BY <2>4, <3>2, <3>3
  <2>6. ASSUME NEW q \in IOProc,
               \/ io'[q].at = "brelse"
               \/ io'[q].at = "have" /\ io'[q].op # "page"
               \/ io'[q].at \in InFlight /\ io'[q].head \notin posted'
        PROVE  Same(io[q].b)'
    <3>1. buf[io[q].b].blk # Nothing /\ io[q].b \in Bufs
        BY <1>1, <1>2, <2>2, <2>6 DEF Holders, InFlight
    <3>2. CASE io[q].b = chain[i].b
        BY <2>2, <2>3, <3>2 DEF Same
    <3>3. CASE io[q].b # chain[i].b
      <4>1. io[q].at \in InFlight => io[q].head # i
          BY <1>1, <3>3 DEF Waiters
      <4>2. Same(io[q].b)
          BY <1>1, <2>2, <2>6, <4>1 DEF Contents
      <4>3. QED
          BY <2>2, <2>4, <3>1, <3>3, <4>2
    <3>4. QED
        BY <3>2, <3>3
  <2>7. QED
      BY <2>5, <2>6 DEF Contents
<1>17. ASSUME intr_ack PROVE Contents'
    BY <1>17, <1>1, <1>2 DEF intr_ack, At, Go, Retry, diskvars, Contents, Same,
       BlksSame, DataSame, OwnersSame, ValidSame, InFlight
<1>18. ASSUME intr_report PROVE Contents'
  <2>1. \E i \in Descs : \E b \in Bufs : ReportEffect(i, b)
      BY <1>18, ReportDoes
  <2>2. PICK i \in Descs : \E b \in Bufs : ReportEffect(i, b)
      BY <2>1
  <2>3. PICK b \in Bufs : ReportEffect(i, b)
      BY <2>2
  <2>4. QED
      BY <2>3, <1>1, <1>2 DEF ReportEffect, OthersSame, AlertOnly, Retry, Fetched,
         diskvars, Contents, Same, BlksSame, DataSame, OwnersSame, ValidSame,
         InFlight
<1>19. ASSUME intr_end PROVE Contents'
    BY <1>19, <1>1, <1>2 DEF intr_end, At, Go, Retry, diskvars, Contents, Same,
       BlksSame, DataSame, OwnersSame, ValidSame, InFlight
<1>20. QED
    BY <1>3, <1>4, <1>5, <1>6, <1>7, <1>8, <1>9, <1>10, <1>11, <1>12,
       <1>13, <1>14, <1>15, <1>16, <1>17, <1>18, <1>19 DEF BioNext, BioHalted, Wait, Device, Handler

-----------------------------------------------------------------------------
(* The list.                                                               *)

\* A sequence without repetition has as many elements as places.
LEMMA InjectiveCount ==
    ASSUME NEW l \in Seq(Bufs), \A i, j \in DOMAIN l : l[i] = l[j] => i = j
    PROVE  Cardinality(ToSet(l)) = Len(l)
<1>1. Len(l) \in Nat /\ DOMAIN l = 1 .. Len(l)
    OBVIOUS
<1>2. l \in [1 .. Len(l) -> ToSet(l)] /\ \A t \in ToSet(l) : \E i \in 1 .. Len(l) : l[i] = t
    BY <1>1 DEF ToSet
<1>3. l \in Bijection(1 .. Len(l), ToSet(l))
    BY <1>1, <1>2 DEF Bijection, Injection, Surjection, IsInjective
<1>4. ExistsBijection(1 .. Len(l), ToSet(l))
    BY <1>3 DEF ExistsBijection
<1>5. QED
    BY <1>1, <1>4, FS_CountingElements

\* A list with one of its buffers moved to the head has the same buffers, each once.
LEMMA ToTheHead ==
    ASSUME lru \in Seq(Bufs), \A i, j \in DOMAIN lru : lru[i] = lru[j] => i = j,
           NEW k \in DOMAIN lru, NEW m, m = MostRecent(lru[k])
    PROVE  /\ m \in Seq(Bufs) /\ \A i, j \in DOMAIN m : m[i] = m[j] => i = j
           /\ \A i \in DOMAIN lru : \E j \in DOMAIN m : m[j] = lru[i]
<1>1. Len(lru) \in Nat /\ DOMAIN lru = 1 .. Len(lru)
    OBVIOUS
<1>2. DOMAIN m = DOMAIN lru /\ \A i \in DOMAIN lru : m[i] =
          IF i = 1 THEN lru[k] ELSE IF i <= k THEN lru[i - 1] ELSE lru[i]
  <2>1. ASSUME NEW i \in DOMAIN lru, i # 1
        PROVE  (\E j \in 1 .. i - 1 : lru[j] = lru[k]) <=> k <= i - 1
    <3>1. i - 1 \in Nat /\ \A j \in 1 .. i - 1 : j \in DOMAIN lru
        BY <1>1, <2>1
    <3>2. ASSUME k <= i - 1 PROVE k \in 1 .. i - 1
        BY <1>1, <3>1, <3>2
    <3>3. ASSUME NEW j \in 1 .. i - 1, lru[j] = lru[k] PROVE k <= i - 1
      <4>1. j = k
          BY <3>1, <3>3
      <4>2. QED
          BY <3>1, <4>1
    <3>4. QED
        BY <3>2, <3>3
  <2>2. DOMAIN m = DOMAIN lru /\ \A i \in DOMAIN lru : m[i] =
            IF i = 1 THEN lru[k]
            ELSE IF \E j \in 1 .. i - 1 : lru[j] = lru[k] THEN lru[i] ELSE lru[i - 1]
      BY DEF MostRecent
  <2>3. \A i \in DOMAIN lru : k <= i - 1 <=> ~(i <= k)
      BY <1>1
  <2>4. QED
      BY <2>1, <2>2, <2>3
<1>3. m \in Seq(Bufs)
  <2>1. \A i \in 1 .. Len(lru) : m[i] \in Bufs
      BY <1>1, <1>2
  <2>2. m \in [1 .. Len(lru) -> Bufs]
      BY <1>1, <2>1 DEF MostRecent
  <2>3. QED
      BY <1>1, <2>2
<1>4. ASSUME NEW i \in DOMAIN m, NEW j \in DOMAIN m, m[i] = m[j] PROVE i = j
  <2>1. PICK f : f = [x \in DOMAIN lru |-> IF x = 1 THEN k ELSE IF x <= k THEN x - 1 ELSE x]
      OBVIOUS
  <2>2. \A x \in DOMAIN lru : f[x] \in DOMAIN lru /\ m[x] = lru[f[x]]
      BY <1>1, <1>2, <2>1
  <2>3. f[i] = f[j]
    <3>1. /\ f[i] \in DOMAIN lru /\ f[j] \in DOMAIN lru
          /\ m[i] = lru[f[i]] /\ m[j] = lru[f[j]]
        BY <1>2, <2>2
    <3>2. QED
        BY <1>4, <3>1
  <2>4. QED
      BY <1>1, <1>2, <2>1, <2>3
<1>5. ASSUME NEW i \in DOMAIN lru PROVE \E j \in DOMAIN m : m[j] = lru[i]
  <2>1. CASE i = k
    <3>1. 1 \in DOMAIN m /\ m[1] = lru[k]
        BY <1>1, <1>2
    <3>2. QED
        BY <2>1, <3>1
  <2>2. CASE i > k
      BY <1>1, <1>2, <2>2
  <2>3. CASE i < k
    <3>1. i + 1 \in DOMAIN m /\ i + 1 # 1 /\ i + 1 <= k /\ (i + 1) - 1 = i
        BY <1>1, <1>2, <2>3
    <3>2. m[i + 1] = lru[i]
        BY <1>2, <3>1
    <3>3. QED
        BY <3>1, <3>2
  <2>4. QED
      BY <1>1, <2>1, <2>2, <2>3
<1>6. QED
    BY <1>3, <1>4, <1>5

\* The list keeps its buffers, and only those of the list get blocks.
LEMMA ListKept ==
    ASSUME BlockInv, [BioNext]_biovars
    PROVE  ListOK'
<1> USE DEF diskvars
<1>1. /\ IOTypes /\ ListOK /\ Counted /\ Holders /\ OneCopy /\ Waiters /\ Descriptors /\ Reports
      /\ Sleepers /\ Contents
    BY DEF BlockInv
<1>2. \A q \in IOProc : io[q].b \in Bufs
    BY Typed DEF IOType
<1>3. CASE UNCHANGED biovars
    BY <1>3, <1>1 DEF biovars, ListOK, ListOK, BlksSame
<1>4. ASSUME NEW p \in IOProc, NEW op \in {"bread", "page"}, NEW s \in Sector, bget_hit(p, op, s)
      PROVE  ListOK'
  <2>1. \E v \in Bufs : HitEffect(p, op, s, v)
      BY <1>4, HitDoes
  <2>2. PICK v \in Bufs : HitEffect(p, op, s, v)
      BY <2>1
  <2>3. QED
      BY <2>2, <1>1, <1>2 DEF HitEffect, OthersSame, AlertOnly, Retry, Fetched,
         diskvars, ListOK, BlksSame
<1>5. ASSUME NEW p \in IOProc, NEW op \in {"bread", "page"}, NEW s \in Sector, bget_recycle(p, op, s)
      PROVE  ListOK'
  <2>1. \E v \in Bufs : RecycleEffect(p, op, s, v)
      BY <1>5, RecycleDoes
  <2>2. PICK v \in Bufs : RecycleEffect(p, op, s, v)
      BY <2>1
  <2>3. /\ lru' = lru /\ (\E i \in DOMAIN lru : v = lru[i])
        /\ \A c \in Bufs \ {v} : buf'[c] = buf[c]
      BY <2>2 DEF RecycleEffect, BufsSame
  <2>4. QED
      BY <1>1, <2>3 DEF ListOK
<1>6. ASSUME NEW p \in IOProc, NEW s \in Sector, bget_panics(p, s) PROVE ListOK'
    BY <1>6, <1>1, <1>2 DEF bget_panics, At, Go, Retry, diskvars, ListOK, BlksSame
<1>7. ASSUME NEW p \in IOProc, bget_lock(p) PROVE ListOK'
  <2>1. LockEffect(p)
      BY <1>7, LockDoes
  <2>2. QED
      BY <2>1, <1>1, <1>2 DEF LockEffect, OthersSame, AlertOnly, Retry, Fetched,
         diskvars, ListOK, BlksSame
<1>8. ASSUME NEW p \in IOProc, use(p) PROVE ListOK'
  <2>1. UseEffect(p)
      BY <1>8, UseDoes
  <2>2. QED
      BY <2>1, <1>1, <1>2 DEF UseEffect, OthersSame, AlertOnly, Retry, Fetched,
         diskvars, ListOK, BlksSame
<1>9. ASSUME NEW p \in IOProc, rw_post(p) PROVE ListOK'
  <2>1. \E S, h : PostEffect(p, S, h)
      BY <1>9, PostDoes
  <2>2. PICK S, h : PostEffect(p, S, h)
      BY <2>1
  <2>3. QED
      BY <2>2, <1>1, <1>2 DEF PostEffect, OthersSame, AlertOnly, Retry, Fetched,
         diskvars, ListOK, BlksSame
<1>10. ASSUME NEW p \in IOProc, rw_full(p) PROVE ListOK'
  <2>1. FullEffect(p)
      BY <1>10, FullDoes
  <2>2. QED
      BY <2>1, <1>1, <1>2 DEF FullEffect, OthersSame, AlertOnly, Retry, Fetched,
         diskvars, ListOK, BlksSame
<1>11. ASSUME NEW p \in IOProc, rw_again(p) PROVE ListOK'
    BY <1>11, <1>1, <1>2 DEF rw_again, At, Go, Retry, diskvars, ListOK, BlksSame
<1>12. ASSUME NEW p \in IOProc, rw_finish(p) PROVE ListOK'
  <2>1. FinishEffect(p)
      BY <1>12, FinishDoes
  <2>2. QED
      BY <2>1, <1>1, <1>2 DEF FinishEffect, OthersSame, AlertOnly, Retry, Fetched,
         diskvars, ListOK, BlksSame
<1>13. ASSUME NEW p \in IOProc, kill_sleeper(p) PROVE ListOK'
    BY <1>13, <1>1, <1>2 DEF kill_sleeper, At, Go, Retry, diskvars, ListOK, BlksSame
<1>14. ASSUME NEW p \in IOProc, brelse(p) PROVE ListOK'
  <2>1. BrelseEffect(p)
      BY <1>14, BrelseDoes
  <2>2. QED
      BY <2>1, <1>1, <1>2 DEF BrelseEffect, OthersSame, AlertOnly, Retry, Fetched,
         diskvars, ListOK, BlksSame
<1>15. ASSUME NEW p \in IOProc, brelse_unref(p) PROVE ListOK'
  <2>1. UnrefEffect(p)
      BY <1>15, UnrefDoes
  <2>2. BlksSame /\ (lru' = lru \/ lru' = MostRecent(io[p].b)) /\ io[p].at = "unref"
      BY <2>1 DEF UnrefEffect
  <2>3. PICK k \in DOMAIN lru : lru[k] = io[p].b
      BY <1>1, <1>2, <2>2 DEF Holders, ListOK
  <2>4. CASE lru' = lru
      BY <1>1, <2>2, <2>4 DEF ListOK, BlksSame
  <2>5. CASE lru' = MostRecent(lru[k])
    <3>1. \A i, j \in DOMAIN lru : lru[i] = lru[j] => i = j
        BY <1>1 DEF ListOK
    <3>2. PICK m : m = lru'
        OBVIOUS
    <3>3. /\ \A i, j \in DOMAIN m : m[i] = m[j] => i = j
          /\ \A i \in DOMAIN lru : \E j \in DOMAIN m : m[j] = lru[i]
        BY <2>5, <3>1, <3>2, Typed, ToTheHead
    <3>4. QED
        BY <1>1, <2>2, <3>2, <3>3 DEF ListOK, BlksSame
  <2>6. QED
      BY <2>2, <2>3, <2>4, <2>5
<1>16. ASSUME NEW i \in Descs, device(i) PROVE ListOK'
  <2>1. DeviceEffect(i)
      BY <1>16, DeviceDoes
  <2>2. QED
      BY <2>1, <1>1, <1>2 DEF DeviceEffect, OthersSame, AlertOnly, Retry, Fetched,
         diskvars, ListOK, BlksSame
<1>17. ASSUME intr_ack PROVE ListOK'
    BY <1>17, <1>1, <1>2 DEF intr_ack, At, Go, Retry, diskvars, ListOK, BlksSame
<1>18. ASSUME intr_report PROVE ListOK'
  <2>1. \E i \in Descs : \E b \in Bufs : ReportEffect(i, b)
      BY <1>18, ReportDoes
  <2>2. PICK i \in Descs : \E b \in Bufs : ReportEffect(i, b)
      BY <2>1
  <2>3. PICK b \in Bufs : ReportEffect(i, b)
      BY <2>2
  <2>4. QED
      BY <2>3, <1>1, <1>2 DEF ReportEffect, OthersSame, AlertOnly, Retry, Fetched,
         diskvars, ListOK, BlksSame
<1>19. ASSUME intr_end PROVE ListOK'
    BY <1>19, <1>1, <1>2 DEF intr_end, At, Go, Retry, diskvars, ListOK, BlksSame
<1>20. QED
    BY <1>3, <1>4, <1>5, <1>6, <1>7, <1>8, <1>9, <1>10, <1>11, <1>12,
       <1>13, <1>14, <1>15, <1>16, <1>17, <1>18, <1>19 DEF BioNext, BioHalted, Wait, Device, Handler

-----------------------------------------------------------------------------
(* Who has got a buffer.                                                   *)

\* Nobody gets or gives back a buffer in a step that leaves io[].b alone.
LEMMA SameGetters ==
    ASSUME \A q \in IOProc : (io'[q].at = "user" <=> io[q].at = "user") /\ io'[q].b = io[q].b,
           NEW b
    PROVE  Getters(b)' = Getters(b)
BY DEF Getters

\* The count of one buffer grows by one when a process gets it,
LEMMA OneMore ==
    ASSUME NEW p \in IOProc, NEW v, NEW b, io[p].at = "user", io'[p].at # "user", io'[p].b = v,
           OthersSame(p)
    PROVE  Cardinality(Getters(b)') = Cardinality(Getters(b)) + (IF b = v THEN 1 ELSE 0)
<1>1. \A q \in IOProc \ {p} : io'[q] = io[q]
    BY DEF OthersSame
<1>2. p \notin Getters(b) /\ IsFiniteSet(Getters(b)) /\ Cardinality(Getters(b)) \in Nat
    BY GettersFinite DEF Getters
<1>3. CASE b = v
  <2>1. Getters(b)' = Getters(b) \cup {p}
      BY <1>1, <1>3 DEF Getters
  <2>2. Cardinality(Getters(b) \cup {p}) = Cardinality(Getters(b)) + 1
      BY <1>2, FS_AddElement
  <2>3. QED
      BY <1>3, <2>1, <2>2
<1>4. CASE b # v
  <2>1. Getters(b)' = Getters(b)
      BY <1>1, <1>4 DEF Getters
  <2>2. QED
      BY <1>2, <1>4, <2>1
<1>5. QED
    BY <1>3, <1>4

\* and shrinks by one when it gives it back.
LEMMA OneLess ==
    ASSUME NEW p \in IOProc, NEW b, io[p].at # "user", io'[p].at = "user", OthersSame(p)
    PROVE  Cardinality(Getters(b)') = Cardinality(Getters(b)) - (IF b = io[p].b THEN 1 ELSE 0)
<1>1. \A q \in IOProc \ {p} : io'[q] = io[q]
    BY DEF OthersSame
<1>2. IsFiniteSet(Getters(b)) /\ Cardinality(Getters(b)) \in Nat
    BY GettersFinite
<1>3. CASE b = io[p].b
  <2>1. Getters(b)' = Getters(b) \ {p} /\ p \in Getters(b)
      BY <1>1, <1>3 DEF Getters
  <2>2. Cardinality(Getters(b) \ {p}) = Cardinality(Getters(b)) - 1
      BY <1>2, <2>1, FS_RemoveElement
  <2>3. QED
      BY <1>3, <2>1, <2>2
<1>4. CASE b # io[p].b
  <2>1. Getters(b)' = Getters(b)
      BY <1>1, <1>4 DEF Getters
  <2>2. QED
      BY <1>2, <1>4, <2>1
<1>5. QED
    BY <1>3, <1>4

\* refcnt is the number of those who have got the buffer.
LEMMA CountedKept ==
    ASSUME BlockInv, [BioNext]_biovars
    PROVE  Counted'
<1> USE DEF diskvars
<1>1. /\ IOTypes /\ ListOK /\ Counted /\ Holders /\ OneCopy /\ Waiters /\ Descriptors /\ Reports
      /\ Sleepers /\ Contents
    BY DEF BlockInv
<1>2. \A q \in IOProc : io[q].b \in Bufs
    BY Typed DEF IOType
<1>3. CASE UNCHANGED biovars
    BY <1>3, <1>1 DEF biovars, Counted, Counted, Getters
<1>4. ASSUME NEW p \in IOProc, NEW op \in {"bread", "page"}, NEW s \in Sector, bget_hit(p, op, s)
      PROVE  Counted'
  <2>1. \E v \in Bufs : HitEffect(p, op, s, v)
      BY <1>4, HitDoes
  <2>2. PICK v \in Bufs : HitEffect(p, op, s, v)
      BY <2>1
  <2>3. /\ io[p].at = "user" /\ io'[p].at # "user" /\ io'[p].b = v /\ OthersSame(p)
        /\ buf'[v].ref = buf[v].ref + 1 /\ \A c \in Bufs \ {v} : buf'[c].ref = buf[c].ref
      BY <2>2 DEF HitEffect, Fetched, BufsSame
  <2>4. \A c \in Bufs : Cardinality(Getters(c)') = Cardinality(Getters(c)) + (IF c = v THEN 1 ELSE 0)
      BY <2>3, OneMore
  <2>5. \A c \in Bufs : buf[c].ref = Cardinality(Getters(c)) /\ Cardinality(Getters(c)) \in Nat
      BY <1>1, GettersFinite DEF Counted
  <2>6. QED
      BY <2>3, <2>4, <2>5 DEF Counted
<1>5. ASSUME NEW p \in IOProc, NEW op \in {"bread", "page"}, NEW s \in Sector, bget_recycle(p, op, s)
      PROVE  Counted'
  <2>1. \E v \in Bufs : RecycleEffect(p, op, s, v)
      BY <1>5, RecycleDoes
  <2>2. PICK v \in Bufs : RecycleEffect(p, op, s, v)
      BY <2>1
  <2>3. /\ io[p].at = "user" /\ io'[p].at # "user" /\ io'[p].b = v /\ OthersSame(p)
        /\ buf[v].ref = 0 /\ buf'[v].ref = 1 /\ \A c \in Bufs \ {v} : buf'[c].ref = buf[c].ref
      BY <2>2 DEF RecycleEffect, Fetched, BufsSame
  <2>4. \A c \in Bufs : Cardinality(Getters(c)') = Cardinality(Getters(c)) + (IF c = v THEN 1 ELSE 0)
      BY <2>3, OneMore
  <2>5. \A c \in Bufs : buf[c].ref = Cardinality(Getters(c)) /\ Cardinality(Getters(c)) \in Nat
      BY <1>1, GettersFinite DEF Counted
  <2>6. QED
      BY <2>3, <2>4, <2>5 DEF Counted
<1>6. ASSUME NEW p \in IOProc, NEW s \in Sector, bget_panics(p, s) PROVE Counted'
  <2>1. RefsSame /\ \A q \in IOProc : (io'[q].at = "user" <=> io[q].at = "user") /\ io'[q].b = io[q].b
      BY <1>6, Typed DEF bget_panics, At, Go, Retry, diskvars, RefsSame, IOType
  <2>2. \A c \in Bufs : Getters(c)' = Getters(c)
      BY <2>1, SameGetters
  <2>3. QED
      BY <1>1, <2>1, <2>2 DEF Counted, RefsSame
<1>7. ASSUME NEW p \in IOProc, bget_lock(p) PROVE Counted'
  <2>1. LockEffect(p)
      BY <1>7, LockDoes
  <2>2. RefsSame /\ \A q \in IOProc : (io'[q].at = "user" <=> io[q].at = "user") /\ io'[q].b = io[q].b
      BY <2>1 DEF LockEffect, RefsSame, OthersSame, AlertOnly, Retry, Fetched,
         diskvars
  <2>3. \A c \in Bufs : Getters(c)' = Getters(c)
      BY <2>2, SameGetters
  <2>4. QED
      BY <1>1, <2>2, <2>3 DEF Counted, RefsSame
<1>8. ASSUME NEW p \in IOProc, use(p) PROVE Counted'
  <2>1. UseEffect(p)
      BY <1>8, UseDoes
  <2>2. RefsSame /\ \A q \in IOProc : (io'[q].at = "user" <=> io[q].at = "user") /\ io'[q].b = io[q].b
      BY <2>1 DEF UseEffect, RefsSame, OthersSame, AlertOnly, Retry, Fetched,
         diskvars
  <2>3. \A c \in Bufs : Getters(c)' = Getters(c)
      BY <2>2, SameGetters
  <2>4. QED
      BY <1>1, <2>2, <2>3 DEF Counted, RefsSame
<1>9. ASSUME NEW p \in IOProc, rw_post(p) PROVE Counted'
  <2>1. \E S, h : PostEffect(p, S, h)
      BY <1>9, PostDoes
  <2>2. PICK S, h : PostEffect(p, S, h)
      BY <2>1
  <2>3. RefsSame /\ \A q \in IOProc : (io'[q].at = "user" <=> io[q].at = "user") /\ io'[q].b = io[q].b
      BY <2>2 DEF PostEffect, RefsSame, OthersSame, AlertOnly, Retry, Fetched,
         diskvars
  <2>4. \A c \in Bufs : Getters(c)' = Getters(c)
      BY <2>3, SameGetters
  <2>5. QED
      BY <1>1, <2>3, <2>4 DEF Counted, RefsSame
<1>10. ASSUME NEW p \in IOProc, rw_full(p) PROVE Counted'
  <2>1. FullEffect(p)
      BY <1>10, FullDoes
  <2>2. RefsSame /\ \A q \in IOProc : (io'[q].at = "user" <=> io[q].at = "user") /\ io'[q].b = io[q].b
      BY <2>1 DEF FullEffect, RefsSame, OthersSame, AlertOnly, Retry, Fetched,
         diskvars
  <2>3. \A c \in Bufs : Getters(c)' = Getters(c)
      BY <2>2, SameGetters
  <2>4. QED
      BY <1>1, <2>2, <2>3 DEF Counted, RefsSame
<1>11. ASSUME NEW p \in IOProc, rw_again(p) PROVE Counted'
  <2>1. RefsSame /\ \A q \in IOProc : (io'[q].at = "user" <=> io[q].at = "user") /\ io'[q].b = io[q].b
      BY <1>11, Typed DEF rw_again, At, Go, Retry, diskvars, RefsSame, IOType
  <2>2. \A c \in Bufs : Getters(c)' = Getters(c)
      BY <2>1, SameGetters
  <2>3. QED
      BY <1>1, <2>1, <2>2 DEF Counted, RefsSame
<1>12. ASSUME NEW p \in IOProc, rw_finish(p) PROVE Counted'
  <2>1. FinishEffect(p)
      BY <1>12, FinishDoes
  <2>2. RefsSame /\ \A q \in IOProc : (io'[q].at = "user" <=> io[q].at = "user") /\ io'[q].b = io[q].b
      BY <2>1 DEF FinishEffect, RefsSame, OthersSame, AlertOnly, Retry, Fetched,
         diskvars
  <2>3. \A c \in Bufs : Getters(c)' = Getters(c)
      BY <2>2, SameGetters
  <2>4. QED
      BY <1>1, <2>2, <2>3 DEF Counted, RefsSame
<1>13. ASSUME NEW p \in IOProc, kill_sleeper(p) PROVE Counted'
  <2>1. RefsSame /\ \A q \in IOProc : (io'[q].at = "user" <=> io[q].at = "user") /\ io'[q].b = io[q].b
      BY <1>13, Typed DEF kill_sleeper, At, Go, Retry, diskvars, RefsSame, IOType
  <2>2. \A c \in Bufs : Getters(c)' = Getters(c)
      BY <2>1, SameGetters
  <2>3. QED
      BY <1>1, <2>1, <2>2 DEF Counted, RefsSame
<1>14. ASSUME NEW p \in IOProc, brelse(p) PROVE Counted'
  <2>1. BrelseEffect(p)
      BY <1>14, BrelseDoes
  <2>2. RefsSame /\ \A q \in IOProc : (io'[q].at = "user" <=> io[q].at = "user") /\ io'[q].b = io[q].b
      BY <2>1 DEF BrelseEffect, RefsSame, OthersSame, AlertOnly, Retry, Fetched,
         diskvars
  <2>3. \A c \in Bufs : Getters(c)' = Getters(c)
      BY <2>2, SameGetters
  <2>4. QED
      BY <1>1, <2>2, <2>3 DEF Counted, RefsSame
<1>15. ASSUME NEW p \in IOProc, brelse_unref(p) PROVE Counted'
  <2>1. UnrefEffect(p)
      BY <1>15, UnrefDoes
  <2>2. /\ io[p].at # "user" /\ io'[p].at = "user" /\ OthersSame(p)
        /\ buf'[io[p].b].ref = buf[io[p].b].ref - 1
        /\ \A c \in Bufs \ {io[p].b} : buf'[c].ref = buf[c].ref
      BY <2>1 DEF UnrefEffect, Fetched, BufsSame
  <2>3. \A c \in Bufs : Cardinality(Getters(c)') =
                           Cardinality(Getters(c)) - (IF c = io[p].b THEN 1 ELSE 0)
      BY <2>2, OneLess
  <2>4. \A c \in Bufs : buf[c].ref = Cardinality(Getters(c)) /\ Cardinality(Getters(c)) \in Nat
      BY <1>1, GettersFinite DEF Counted
  <2>5. QED
      BY <2>2, <2>3, <2>4 DEF Counted
<1>16. ASSUME NEW i \in Descs, device(i) PROVE Counted'
  <2>1. DeviceEffect(i)
      BY <1>16, DeviceDoes
  <2>2. RefsSame /\ \A q \in IOProc : (io'[q].at = "user" <=> io[q].at = "user") /\ io'[q].b = io[q].b
      BY <2>1 DEF DeviceEffect, RefsSame, OthersSame, AlertOnly, Retry, Fetched,
         diskvars
  <2>3. \A c \in Bufs : Getters(c)' = Getters(c)
      BY <2>2, SameGetters
  <2>4. QED
      BY <1>1, <2>2, <2>3 DEF Counted, RefsSame
<1>17. ASSUME intr_ack PROVE Counted'
  <2>1. RefsSame /\ \A q \in IOProc : (io'[q].at = "user" <=> io[q].at = "user") /\ io'[q].b = io[q].b
      BY <1>17, Typed DEF intr_ack, At, Go, Retry, diskvars, RefsSame, IOType
  <2>2. \A c \in Bufs : Getters(c)' = Getters(c)
      BY <2>1, SameGetters
  <2>3. QED
      BY <1>1, <2>1, <2>2 DEF Counted, RefsSame
<1>18. ASSUME intr_report PROVE Counted'
  <2>1. \E i \in Descs : \E b \in Bufs : ReportEffect(i, b)
      BY <1>18, ReportDoes
  <2>2. PICK i \in Descs : \E b \in Bufs : ReportEffect(i, b)
      BY <2>1
  <2>3. PICK b \in Bufs : ReportEffect(i, b)
      BY <2>2
  <2>4. RefsSame /\ \A q \in IOProc : (io'[q].at = "user" <=> io[q].at = "user") /\ io'[q].b = io[q].b
      BY <2>3 DEF ReportEffect, RefsSame, OthersSame, AlertOnly, Retry, Fetched,
         diskvars
  <2>5. \A c \in Bufs : Getters(c)' = Getters(c)
      BY <2>4, SameGetters
  <2>6. QED
      BY <1>1, <2>4, <2>5 DEF Counted, RefsSame
<1>19. ASSUME intr_end PROVE Counted'
  <2>1. RefsSame /\ \A q \in IOProc : (io'[q].at = "user" <=> io[q].at = "user") /\ io'[q].b = io[q].b
      BY <1>19, Typed DEF intr_end, At, Go, Retry, diskvars, RefsSame, IOType
  <2>2. \A c \in Bufs : Getters(c)' = Getters(c)
      BY <2>1, SameGetters
  <2>3. QED
      BY <1>1, <2>1, <2>2 DEF Counted, RefsSame
<1>20. QED
    BY <1>3, <1>4, <1>5, <1>6, <1>7, <1>8, <1>9, <1>10, <1>11, <1>12,
       <1>13, <1>14, <1>15, <1>16, <1>17, <1>18, <1>19 DEF BioNext, BioHalted, Wait, Device, Handler

\* The lock has one owner, who has got the buffer.
LEMMA HoldersKept ==
    ASSUME BlockInv, [BioNext]_biovars
    PROVE  Holders'
<1> USE DEF diskvars
<1>1. /\ IOTypes /\ ListOK /\ Counted /\ Holders /\ OneCopy /\ Waiters /\ Descriptors /\ Reports
      /\ Sleepers /\ Contents
    BY DEF BlockInv
<1>2. \A q \in IOProc : io[q].b \in Bufs
    BY Typed DEF IOType
<1>3. CASE UNCHANGED biovars
    BY <1>3, <1>1 DEF biovars, Holders, Holders, Holding, Places, OwnersSame,
       BlksSame, ValidSame
<1>4. ASSUME NEW p \in IOProc, NEW op \in {"bread", "page"}, NEW s \in Sector, bget_hit(p, op, s)
      PROVE  Holders'
  <2>1. \E v \in Bufs : HitEffect(p, op, s, v)
      BY <1>4, HitDoes
  <2>2. PICK v \in Bufs : HitEffect(p, op, s, v)
      BY <2>1
  <2>3. /\ buf[v].blk = s /\ io'[p].at = "lock" /\ io'[p].b = v /\ io[p].at = "user"
        /\ OwnersSame /\ BlksSame /\ ValidSame /\ \A q \in IOProc \ {p} : io'[q] = io[q]
      BY <2>2 DEF HitEffect, Fetched, OthersSame
  <2>4. s # Nothing
      BY Typed
  <2>5. QED
      BY <1>1, <1>2, <2>3, <2>4 DEF Holders, Holding, Places, OwnersSame,
         BlksSame, ValidSame
<1>5. ASSUME NEW p \in IOProc, NEW op \in {"bread", "page"}, NEW s \in Sector, bget_recycle(p, op, s)
      PROVE  Holders'
  <2>1. \E v \in Bufs : RecycleEffect(p, op, s, v)
      BY <1>5, RecycleDoes
  <2>2. PICK v \in Bufs : RecycleEffect(p, op, s, v)
      BY <2>1
  <2>3. \A q \in IOProc : io[q].at # "user" => io[q].b # v
      BY <2>2, NoGetters DEF RecycleEffect
  <2>4. /\ ~buf'[v].valid /\ buf'[v].blk = s /\ \A c \in Bufs \ {v} : buf'[c] = buf[c]
        /\ io'[p].at = "lock" /\ io'[p].b = v /\ io[p].at = "user"
        /\ OwnersSame /\ \A q \in IOProc \ {p} : io'[q] = io[q]
      BY <2>2 DEF RecycleEffect, BufsSame, Fetched, OthersSame
  <2>5. s # Nothing
      BY Typed
  <2>6. QED
      BY <1>1, <1>2, <2>3, <2>4, <2>5 DEF Holders, Holding, Places, OwnersSame
<1>6. ASSUME NEW p \in IOProc, NEW s \in Sector, bget_panics(p, s) PROVE Holders'
    BY <1>6, <1>1, <1>2 DEF bget_panics, At, Go, Retry, diskvars, Holders,
       Holding, Places, OwnersSame, BlksSame, ValidSame
<1>7. ASSUME NEW p \in IOProc, bget_lock(p) PROVE Holders'
  <2>1. LockEffect(p)
      BY <1>7, LockDoes
  <2>2. /\ buf'[io[p].b].owner = p /\ buf[io[p].b].owner = Nothing
        /\ \A c \in Bufs \ {io[p].b} : buf'[c] = buf[c]
        /\ io[p].at = "lock" /\ io'[p].at \in {"have", "read"} /\ io'[p].b = io[p].b
        /\ BlksSame /\ ValidSame /\ \A q \in IOProc \ {p} : io'[q] = io[q]
      BY <2>1 DEF LockEffect, Fetched, OthersSame, BufsSame
  <2>3. Nothing \notin IOProc
      BY Typed
  <2>4. QED
      BY <1>1, <1>2, <2>2, <2>3 DEF Holders, Holding, Places, BlksSame, ValidSame
<1>8. ASSUME NEW p \in IOProc, use(p) PROVE Holders'
  <2>1. UseEffect(p)
      BY <1>8, UseDoes
  <2>2. QED
      BY <2>1, <1>1, <1>2 DEF UseEffect, OthersSame, AlertOnly, Retry, Fetched,
         diskvars, Holders, Holding, Places, OwnersSame, BlksSame, ValidSame
<1>9. ASSUME NEW p \in IOProc, rw_post(p) PROVE Holders'
  <2>1. \E S, h : PostEffect(p, S, h)
      BY <1>9, PostDoes
  <2>2. PICK S, h : PostEffect(p, S, h)
      BY <2>1
  <2>3. QED
      BY <2>2, <1>1, <1>2 DEF PostEffect, OthersSame, AlertOnly, Retry, Fetched,
         diskvars, Holders, Holding, Places, OwnersSame, BlksSame, ValidSame
<1>10. ASSUME NEW p \in IOProc, rw_full(p) PROVE Holders'
  <2>1. FullEffect(p)
      BY <1>10, FullDoes
  <2>2. QED
      BY <2>1, <1>1, <1>2 DEF FullEffect, OthersSame, AlertOnly, Retry, Fetched,
         diskvars, Holders, Holding, Places, OwnersSame, BlksSame, ValidSame
<1>11. ASSUME NEW p \in IOProc, rw_again(p) PROVE Holders'
    BY <1>11, <1>1, <1>2 DEF rw_again, At, Go, Retry, diskvars, Holders, Holding,
       Places, OwnersSame, BlksSame, ValidSame
<1>12. ASSUME NEW p \in IOProc, rw_finish(p) PROVE Holders'
  <2>1. FinishEffect(p)
      BY <1>12, FinishDoes
  <2>2. /\ io[p].at = "woken" /\ io'[p].at \in {"brelse", "have"} /\ io'[p].b = io[p].b
        /\ BlksSame /\ OwnersSame /\ \A c \in Bufs \ {io[p].b} : buf'[c] = buf[c]
      BY <2>1 DEF FinishEffect, Fetched, BufsSame
  <2>3. ASSUME NEW q \in IOProc \ {p}
        PROVE  /\ io'[q].b = io[q].b
               /\ io'[q].at \in Holding <=> io[q].at \in Holding
               /\ io'[q].at # "user" <=> io[q].at # "user"
    <3>1. io'[q].b = io[q].b /\ io'[q].at = Retry(io[q].at)
        BY <2>1 DEF FinishEffect, AlertOnly
    <3>2. QED
        BY <3>1 DEF Retry, Holding, Places
  <2>4. io[p].at \in Holding /\ io'[p].at \in Holding /\ buf[io[p].b].blk # Nothing
      BY <1>1, <2>2 DEF Holders, Holding, Places
  <2>5. QED
      BY <1>1, <1>2, <2>2, <2>3, <2>4 DEF Holders, BlksSame, OwnersSame
<1>13. ASSUME NEW p \in IOProc, kill_sleeper(p) PROVE Holders'
    BY <1>13, <1>1, <1>2 DEF kill_sleeper, At, Go, Retry, diskvars, Holders,
       Holding, Places, OwnersSame, BlksSame, ValidSame
<1>14. ASSUME NEW p \in IOProc, brelse(p) PROVE Holders'
  <2>1. BrelseEffect(p)
      BY <1>14, BrelseDoes
  <2>2. /\ buf'[io[p].b].owner = Nothing /\ \A c \in Bufs \ {io[p].b} : buf'[c] = buf[c]
        /\ io[p].at = "brelse" /\ io'[p].at = "unref" /\ io'[p].b = io[p].b
        /\ BlksSame /\ ValidSame /\ \A q \in IOProc \ {p} : io'[q] = io[q]
      BY <2>1 DEF BrelseEffect, Fetched, OthersSame, BufsSame
  <2>3. Nothing \notin IOProc /\ io[p].at \in Holding
      BY <2>2, Typed DEF Holding, Places
  <2>4. \A q \in IOProc : io[q].at \in Holding /\ io[q].b = io[p].b => q = p
      BY <2>3, OneHolder
  <2>5. QED
      BY <1>1, <1>2, <2>2, <2>3, <2>4 DEF Holders, Holding, Places, BlksSame,
         ValidSame
<1>15. ASSUME NEW p \in IOProc, brelse_unref(p) PROVE Holders'
  <2>1. UnrefEffect(p)
      BY <1>15, UnrefDoes
  <2>2. QED
      BY <2>1, <1>1, <1>2 DEF UnrefEffect, OthersSame, AlertOnly, Retry, Fetched,
         diskvars, Holders, Holding, Places, OwnersSame, BlksSame, ValidSame
<1>16. ASSUME NEW i \in Descs, device(i) PROVE Holders'
  <2>1. DeviceEffect(i)
      BY <1>16, DeviceDoes
  <2>2. QED
      BY <2>1, <1>1, <1>2 DEF DeviceEffect, OthersSame, AlertOnly, Retry, Fetched,
         diskvars, Holders, Holding, Places, OwnersSame, BlksSame, ValidSame
<1>17. ASSUME intr_ack PROVE Holders'
    BY <1>17, <1>1, <1>2 DEF intr_ack, At, Go, Retry, diskvars, Holders, Holding,
       Places, OwnersSame, BlksSame, ValidSame
<1>18. ASSUME intr_report PROVE Holders'
  <2>1. \E i \in Descs : \E b \in Bufs : ReportEffect(i, b)
      BY <1>18, ReportDoes
  <2>2. PICK i \in Descs : \E b \in Bufs : ReportEffect(i, b)
      BY <2>1
  <2>3. PICK b \in Bufs : ReportEffect(i, b)
      BY <2>2
  <2>4. QED
      BY <2>3, <1>1, <1>2 DEF ReportEffect, OthersSame, AlertOnly, Retry, Fetched,
         diskvars, Holders, Holding, Places, OwnersSame, BlksSame, ValidSame
<1>19. ASSUME intr_end PROVE Holders'
    BY <1>19, <1>1, <1>2 DEF intr_end, At, Go, Retry, diskvars, Holders, Holding,
       Places, OwnersSame, BlksSame, ValidSame
<1>20. QED
    BY <1>3, <1>4, <1>5, <1>6, <1>7, <1>8, <1>9, <1>10, <1>11, <1>12,
       <1>13, <1>14, <1>15, <1>16, <1>17, <1>18, <1>19 DEF BioNext, BioHalted, Wait, Device, Handler

-----------------------------------------------------------------------------
(* The requests.                                                           *)

\* A buffer has one chain.
LEMMA OneChain ==
    ASSUME BlockInv, NEW i \in Chains, NEW j \in Chains, chain[i].b = chain[j].b
    PROVE  i = j
<1>1. PICK p \in IOProc : io[p].at \in InFlight /\ io[p].head = i
    BY DEF BlockInv, Waiters
<1>2. PICK q \in IOProc : io[q].at \in InFlight /\ io[q].head = j
    BY DEF BlockInv, Waiters
<1>3. io[p].b = chain[i].b /\ io[q].b = chain[j].b
    BY <1>1, <1>2 DEF BlockInv, Waiters
<1>4. io[p].at \in Holding /\ io[q].at \in Holding
    BY <1>1, <1>2 DEF InFlight, Holding, Places
<1>5. io[q].b = io[p].b
    BY <1>3
<1>6. \A r \in IOProc : io[r].at \in Holding /\ io[r].b = io[p].b => r = p
    BY <1>4, OneHolder
<1>7. q = p
    BY <1>4, <1>5, <1>6
<1>8. QED
    BY <1>1, <1>2, <1>7

\* The chain of a request that is done has been reported and seen.
LEMMA FinishedChain ==
    ASSUME BlockInv, NEW p \in IOProc, io[p].at = "woken", ~buf[io[p].b].disk
    PROVE  /\ io[p].head \in Chains /\ chain[io[p].head].b = io[p].b
           /\ io[p].head \notin posted /\ io[p].head \notin ToSet(used)
<1>1. chain[io[p].head] # Nothing /\ chain[io[p].head].b = io[p].b
    BY DEF BlockInv, Waiters, InFlight
<1>2. io[p].head \in Chains /\ io[p].b \in Bufs
    BY <1>1, Typed DEF Chains, IOType
<1>3. QED
    BY <1>1, <1>2 DEF BlockInv, Reports

\* The types of a chain.
LEMMA ChainTyped == ASSUME BlockInv, NEW i \in Chains
                    PROVE  /\ i \in Descs /\ chain[i] \in Requested
                           /\ chain[i].b \in Bufs /\ chain[i].descs \subseteq Descs
<1>1. i \in Descs /\ chain[i] \in Requested
    BY Typed DEF Chains
<1>2. QED
    BY <1>1 DEF Requested

\* No descriptor is lost, none is in two chains.
LEMMA DescriptorsKept ==
    ASSUME BlockInv, [BioNext]_biovars
    PROVE  Descriptors'
<1> USE DEF diskvars
<1>1. /\ IOTypes /\ ListOK /\ Counted /\ Holders /\ OneCopy /\ Waiters /\ Descriptors /\ Reports
      /\ Sleepers /\ Contents
    BY DEF BlockInv
<1>2. \A q \in IOProc : io[q].b \in Bufs
    BY Typed DEF IOType
<1>3. CASE UNCHANGED biovars
    BY <1>3, <1>1 DEF biovars, Descriptors, Descriptors, Owned, Chains
<1>4. ASSUME NEW p \in IOProc, NEW op \in {"bread", "page"}, NEW s \in Sector, bget_hit(p, op, s)
      PROVE  Descriptors'
  <2>1. \E v \in Bufs : HitEffect(p, op, s, v)
      BY <1>4, HitDoes
  <2>2. PICK v \in Bufs : HitEffect(p, op, s, v)
      BY <2>1
  <2>3. QED
      BY <2>2, <1>1, <1>2 DEF HitEffect, OthersSame, AlertOnly, Retry, Fetched,
         diskvars, Descriptors, Owned, Chains
<1>5. ASSUME NEW p \in IOProc, NEW op \in {"bread", "page"}, NEW s \in Sector, bget_recycle(p, op, s)
      PROVE  Descriptors'
  <2>1. \E v \in Bufs : RecycleEffect(p, op, s, v)
      BY <1>5, RecycleDoes
  <2>2. PICK v \in Bufs : RecycleEffect(p, op, s, v)
      BY <2>1
  <2>3. QED
      BY <2>2, <1>1, <1>2 DEF RecycleEffect, OthersSame, AlertOnly, Retry,
         Fetched, diskvars, Descriptors, Owned, Chains
<1>6. ASSUME NEW p \in IOProc, NEW s \in Sector, bget_panics(p, s) PROVE Descriptors'
    BY <1>6, <1>1, <1>2 DEF bget_panics, At, Go, Retry, diskvars, Descriptors,
       Owned, Chains
<1>7. ASSUME NEW p \in IOProc, bget_lock(p) PROVE Descriptors'
  <2>1. LockEffect(p)
      BY <1>7, LockDoes
  <2>2. QED
      BY <2>1, <1>1, <1>2 DEF LockEffect, OthersSame, AlertOnly, Retry, Fetched,
         diskvars, Descriptors, Owned, Chains
<1>8. ASSUME NEW p \in IOProc, use(p) PROVE Descriptors'
  <2>1. UseEffect(p)
      BY <1>8, UseDoes
  <2>2. QED
      BY <2>1, <1>1, <1>2 DEF UseEffect, OthersSame, AlertOnly, Retry, Fetched,
         diskvars, Descriptors, Owned, Chains
<1>9. ASSUME NEW p \in IOProc, rw_post(p) PROVE Descriptors'
  <2>1. \E S, h : PostEffect(p, S, h)
      BY <1>9, PostDoes
  <2>2. PICK S, h : PostEffect(p, S, h)
      BY <2>1
  <2>3. h \in S /\ S \subseteq unused /\ unused' = unused \ S /\ h \in Descs /\ h \notin Chains
      BY <2>2, FreeHasNoChain DEF PostEffect
  <2>4. /\ chain'[h] # Nothing /\ chain'[h].descs = S
        /\ \A j \in Descs \ {h} : chain'[j] = chain[j]
      BY <2>2 DEF PostEffect
  <2>5. Chains' = Chains \cup {h} /\ \A j \in Chains : j # h /\ chain'[j] = chain[j]
      BY <2>3, <2>4 DEF Chains
  <2>6. /\ \A i \in Chains : i \in chain[i].descs /\ chain[i].descs \cap unused = {}
        /\ \A i, j \in Chains : i # j => chain[i].descs \cap chain[j].descs = {}
      BY <1>1 DEF Descriptors
  <2>7. \A i \in Chains' : i \in chain'[i].descs /\ chain'[i].descs \cap unused' = {}
      BY <2>3, <2>4, <2>5, <2>6
  <2>8. \A i, j \in Chains' : i # j => chain'[i].descs \cap chain'[j].descs = {}
      BY <2>3, <2>4, <2>5, <2>6
  <2>9. \A d \in Descs : Owned(d)' <=> Owned(d)
    <3>1. ASSUME NEW d \in Descs
          PROVE  Owned(d)' <=> \/ d \in unused'
                               \/ \E i \in Chains' : d \in chain'[i].descs
        BY DEF Owned
    <3>2. QED
        BY <2>3, <2>4, <2>5, <3>1 DEF Owned
  <2>10. QED
      BY <1>1, <2>7, <2>8, <2>9 DEF Descriptors
<1>10. ASSUME NEW p \in IOProc, rw_full(p) PROVE Descriptors'
  <2>1. FullEffect(p)
      BY <1>10, FullDoes
  <2>2. QED
      BY <2>1, <1>1, <1>2 DEF FullEffect, OthersSame, AlertOnly, Retry, Fetched,
         diskvars, Descriptors, Owned, Chains
<1>11. ASSUME NEW p \in IOProc, rw_again(p) PROVE Descriptors'
    BY <1>11, <1>1, <1>2 DEF rw_again, At, Go, Retry, diskvars, Descriptors,
       Owned, Chains
<1>12. ASSUME NEW p \in IOProc, rw_finish(p) PROVE Descriptors'
  <2>1. FinishEffect(p)
      BY <1>12, FinishDoes
  <2>2. PICK hd : hd = io[p].head
      OBVIOUS
  <2>3. hd \in Chains
      BY <2>2, <2>1, FinishedChain DEF FinishEffect
  <2>4. /\ unused' = unused \cup chain[hd].descs /\ chain'[hd] = Nothing
        /\ \A j \in Descs \ {hd} : chain'[j] = chain[j]
      BY <2>2, <2>1 DEF FinishEffect
  <2>5. Chains' = Chains \ {hd} /\ \A j \in Chains \ {hd} : chain'[j] = chain[j]
      BY <2>3, <2>4 DEF Chains
  <2>6. /\ \A i \in Chains : i \in chain[i].descs /\ chain[i].descs \cap unused = {}
        /\ \A i, j \in Chains : i # j => chain[i].descs \cap chain[j].descs = {}
      BY <1>1 DEF Descriptors
  <2>7. \A i \in Chains' : i \in chain'[i].descs /\ chain'[i].descs \cap unused' = {}
    <3>1. ASSUME NEW i \in Chains' PROVE i \in chain'[i].descs /\ chain'[i].descs \cap unused' = {}
      <4>1. i \in Chains /\ i # hd /\ chain'[i] = chain[i]
          BY <2>5
      <4>2. QED
          BY <2>3, <2>4, <2>6, <4>1
    <3>2. QED
        BY <3>1
  <2>8. \A i, j \in Chains' : i # j => chain'[i].descs \cap chain'[j].descs = {}
      BY <2>5, <2>6
  <2>9. \A d \in Descs : Owned(d)' <=> Owned(d)
    <3>1. ASSUME NEW d \in Descs
          PROVE  Owned(d)' <=> \/ d \in unused'
                               \/ \E i \in Chains' : d \in chain'[i].descs
        BY DEF Owned
    <3>2. QED
        BY <2>3, <2>4, <2>5, <3>1 DEF Owned
  <2>10. QED
      BY <1>1, <2>7, <2>8, <2>9 DEF Descriptors
<1>13. ASSUME NEW p \in IOProc, kill_sleeper(p) PROVE Descriptors'
    BY <1>13, <1>1, <1>2 DEF kill_sleeper, At, Go, Retry, diskvars, Descriptors,
       Owned, Chains
<1>14. ASSUME NEW p \in IOProc, brelse(p) PROVE Descriptors'
  <2>1. BrelseEffect(p)
      BY <1>14, BrelseDoes
  <2>2. QED
      BY <2>1, <1>1, <1>2 DEF BrelseEffect, OthersSame, AlertOnly, Retry, Fetched,
         diskvars, Descriptors, Owned, Chains
<1>15. ASSUME NEW p \in IOProc, brelse_unref(p) PROVE Descriptors'
  <2>1. UnrefEffect(p)
      BY <1>15, UnrefDoes
  <2>2. QED
      BY <2>1, <1>1, <1>2 DEF UnrefEffect, OthersSame, AlertOnly, Retry, Fetched,
         diskvars, Descriptors, Owned, Chains
<1>16. ASSUME NEW i \in Descs, device(i) PROVE Descriptors'
  <2>1. DeviceEffect(i)
      BY <1>16, DeviceDoes
  <2>2. QED
      BY <2>1, <1>1, <1>2 DEF DeviceEffect, OthersSame, AlertOnly, Retry, Fetched,
         diskvars, Descriptors, Owned, Chains
<1>17. ASSUME intr_ack PROVE Descriptors'
    BY <1>17, <1>1, <1>2 DEF intr_ack, At, Go, Retry, diskvars, Descriptors,
       Owned, Chains
<1>18. ASSUME intr_report PROVE Descriptors'
  <2>1. \E i \in Descs : \E b \in Bufs : ReportEffect(i, b)
      BY <1>18, ReportDoes
  <2>2. PICK i \in Descs : \E b \in Bufs : ReportEffect(i, b)
      BY <2>1
  <2>3. PICK b \in Bufs : ReportEffect(i, b)
      BY <2>2
  <2>4. QED
      BY <2>3, <1>1, <1>2 DEF ReportEffect, OthersSame, AlertOnly, Retry, Fetched,
         diskvars, Descriptors, Owned, Chains
<1>19. ASSUME intr_end PROVE Descriptors'
    BY <1>19, <1>1, <1>2 DEF intr_end, At, Go, Retry, diskvars, Descriptors,
       Owned, Chains
<1>20. QED
    BY <1>3, <1>4, <1>5, <1>6, <1>7, <1>8, <1>9, <1>10, <1>11, <1>12,
       <1>13, <1>14, <1>15, <1>16, <1>17, <1>18, <1>19 DEF BioNext, BioHalted, Wait, Device, Handler

\* b->disk is 1 from the request to the moment the handler sees its report.
LEMMA ReportsKept ==
    ASSUME BlockInv, [BioNext]_biovars
    PROVE  Reports'
<1> USE DEF diskvars
<1>1. /\ IOTypes /\ ListOK /\ Counted /\ Holders /\ OneCopy /\ Waiters /\ Descriptors /\ Reports
      /\ Sleepers /\ Contents
    BY DEF BlockInv
<1>2. \A q \in IOProc : io[q].b \in Bufs
    BY Typed DEF IOType
<1>3. CASE UNCHANGED biovars
    BY <1>3, <1>1 DEF biovars, Reports, Reports, Chains, DiskSame
<1>4. ASSUME NEW p \in IOProc, NEW op \in {"bread", "page"}, NEW s \in Sector, bget_hit(p, op, s)
      PROVE  Reports'
  <2>1. \E v \in Bufs : HitEffect(p, op, s, v)
      BY <1>4, HitDoes
  <2>2. PICK v \in Bufs : HitEffect(p, op, s, v)
      BY <2>1
  <2>3. QED
      BY <2>2, <1>1, <1>2 DEF HitEffect, OthersSame, AlertOnly, Retry, Fetched,
         diskvars, Reports, Chains, DiskSame
<1>5. ASSUME NEW p \in IOProc, NEW op \in {"bread", "page"}, NEW s \in Sector, bget_recycle(p, op, s)
      PROVE  Reports'
  <2>1. \E v \in Bufs : RecycleEffect(p, op, s, v)
      BY <1>5, RecycleDoes
  <2>2. PICK v \in Bufs : RecycleEffect(p, op, s, v)
      BY <2>1
  <2>3. QED
      BY <2>2, <1>1, <1>2 DEF RecycleEffect, OthersSame, AlertOnly, Retry,
         Fetched, diskvars, Reports, Chains, DiskSame
<1>6. ASSUME NEW p \in IOProc, NEW s \in Sector, bget_panics(p, s) PROVE Reports'
    BY <1>6, <1>1, <1>2 DEF bget_panics, At, Go, Retry, diskvars, Reports, Chains,
       DiskSame
<1>7. ASSUME NEW p \in IOProc, bget_lock(p) PROVE Reports'
  <2>1. LockEffect(p)
      BY <1>7, LockDoes
  <2>2. QED
      BY <2>1, <1>1, <1>2 DEF LockEffect, OthersSame, AlertOnly, Retry, Fetched,
         diskvars, Reports, Chains, DiskSame
<1>8. ASSUME NEW p \in IOProc, use(p) PROVE Reports'
  <2>1. UseEffect(p)
      BY <1>8, UseDoes
  <2>2. QED
      BY <2>1, <1>1, <1>2 DEF UseEffect, OthersSame, AlertOnly, Retry, Fetched,
         diskvars, Reports, Chains, DiskSame
<1>9. ASSUME NEW p \in IOProc, rw_post(p) PROVE Reports'
  <2>1. \E S, h : PostEffect(p, S, h)
      BY <1>9, PostDoes
  <2>2. PICK S, h : PostEffect(p, S, h)
      BY <2>1
  <2>3. /\ posted' = posted \cup {h} /\ used' = used /\ h \in Descs /\ h \notin Chains
        /\ buf'[io[p].b].disk = TRUE /\ \A c \in Bufs \ {io[p].b} : buf'[c] = buf[c]
      BY <2>2, FreeHasNoChain DEF PostEffect, BufsSame
  <2>4. /\ chain'[h] # Nothing /\ chain'[h].b = io[p].b
        /\ \A j \in Descs \ {h} : chain'[j] = chain[j]
      BY <2>2 DEF PostEffect
  <2>5. Chains' = Chains \cup {h} /\ \A j \in Chains : j # h /\ chain'[j] = chain[j]
      BY <2>3, <2>4 DEF Chains
  <2>6. /\ posted \subseteq Chains /\ ToSet(used) \subseteq Chains \ posted
        /\ \A b \in Bufs : buf[b].disk <=> \E i \in posted \cup ToSet(used) : chain[i].b = b
      BY <1>1 DEF Reports
  <2>7. ToSet(used') = ToSet(used)
      BY <2>3
  <2>8. posted' \subseteq Chains' /\ ToSet(used') \subseteq Chains' \ posted'
      BY <2>3, <2>5, <2>6, <2>7
  <2>9. ASSUME NEW b \in Bufs
        PROVE  buf'[b].disk <=> \E i \in posted' \cup ToSet(used') : chain'[i].b = b
    <3>1. (\E i \in posted' \cup ToSet(used') : chain'[i].b = b) <=>
             \/ b = io[p].b
             \/ \E i \in posted \cup ToSet(used) : chain[i].b = b
        BY <2>3, <2>4, <2>5, <2>6, <2>7
    <3>2. CASE b = io[p].b
        BY <2>3, <3>1, <3>2
    <3>3. CASE b # io[p].b
        BY <2>3, <2>6, <3>1, <3>3
    <3>4. QED
        BY <3>2, <3>3
  <2>10. \A j, k \in DOMAIN used' : used'[j] = used'[k] => j = k
      BY <1>1, <2>3 DEF Reports
  <2>11. QED
      BY <2>8, <2>9, <2>10 DEF Reports, ToSet
<1>10. ASSUME NEW p \in IOProc, rw_full(p) PROVE Reports'
  <2>1. FullEffect(p)
      BY <1>10, FullDoes
  <2>2. QED
      BY <2>1, <1>1, <1>2 DEF FullEffect, OthersSame, AlertOnly, Retry, Fetched,
         diskvars, Reports, Chains, DiskSame
<1>11. ASSUME NEW p \in IOProc, rw_again(p) PROVE Reports'
    BY <1>11, <1>1, <1>2 DEF rw_again, At, Go, Retry, diskvars, Reports, Chains,
       DiskSame
<1>12. ASSUME NEW p \in IOProc, rw_finish(p) PROVE Reports'
  <2>1. FinishEffect(p)
      BY <1>12, FinishDoes
  <2>2. io[p].head \in Chains /\ io[p].head \notin posted /\ io[p].head \notin ToSet(used)
      BY <2>1, FinishedChain DEF FinishEffect
  <2>3. /\ posted' = posted /\ used' = used /\ DiskSame
        /\ \A j \in Descs \ {io[p].head} : chain'[j] = chain[j]
      BY <2>1 DEF FinishEffect
  <2>4. \A j \in Chains \ {io[p].head} : j \in Chains' /\ chain'[j] = chain[j]
      BY <2>3 DEF Chains
  <2>5. /\ posted \subseteq Chains /\ ToSet(used) \subseteq Chains \ posted
        /\ \A j, k \in DOMAIN used : used[j] = used[k] => j = k
        /\ \A b \in Bufs : buf[b].disk <=> \E i \in posted \cup ToSet(used) : chain[i].b = b
      BY <1>1 DEF Reports
  <2>6. ToSet(used') = ToSet(used)
      BY <2>3
  <2>7. posted' \subseteq Chains' /\ ToSet(used') \subseteq Chains' \ posted'
      BY <2>2, <2>3, <2>4, <2>5, <2>6
  <2>8. \A b \in Bufs : buf'[b].disk <=> \E i \in posted' \cup ToSet(used') : chain'[i].b = b
    <3>1. \A i \in posted \cup ToSet(used) : chain'[i] = chain[i]
        BY <2>2, <2>4, <2>5
    <3>2. QED
        BY <2>3, <2>5, <2>6, <3>1 DEF DiskSame
  <2>9. QED
      BY <2>3, <2>5, <2>7, <2>8 DEF Reports
<1>13. ASSUME NEW p \in IOProc, kill_sleeper(p) PROVE Reports'
    BY <1>13, <1>1, <1>2 DEF kill_sleeper, At, Go, Retry, diskvars, Reports,
       Chains, DiskSame
<1>14. ASSUME NEW p \in IOProc, brelse(p) PROVE Reports'
  <2>1. BrelseEffect(p)
      BY <1>14, BrelseDoes
  <2>2. QED
      BY <2>1, <1>1, <1>2 DEF BrelseEffect, OthersSame, AlertOnly, Retry, Fetched,
         diskvars, Reports, Chains, DiskSame
<1>15. ASSUME NEW p \in IOProc, brelse_unref(p) PROVE Reports'
  <2>1. UnrefEffect(p)
      BY <1>15, UnrefDoes
  <2>2. QED
      BY <2>1, <1>1, <1>2 DEF UnrefEffect, OthersSame, AlertOnly, Retry, Fetched,
         diskvars, Reports, Chains, DiskSame
<1>16. ASSUME NEW i \in Descs, device(i) PROVE Reports'
  <2>1. DeviceEffect(i)
      BY <1>16, DeviceDoes
  <2>2. /\ i \in posted /\ posted' = posted \ {i} /\ used' = Append(used, i) /\ chain' = chain
        /\ DiskSame
      BY <2>1 DEF DeviceEffect, DiskSame
  <2>3. /\ posted \subseteq Chains /\ ToSet(used) \subseteq Chains \ posted
        /\ \A j, k \in DOMAIN used : used[j] = used[k] => j = k
        /\ \A b \in Bufs : buf[b].disk <=> \E x \in posted \cup ToSet(used) : chain[x].b = b
      BY <1>1 DEF Reports
  <2>4. /\ DOMAIN used = 1 .. Len(used) /\ Len(used) \in Nat /\ DOMAIN used' = 1 .. Len(used) + 1
        /\ used'[Len(used) + 1] = i /\ \A k \in DOMAIN used : used'[k] = used[k]
      BY <2>2, Typed
  <2>5. /\ ToSet(used) = {used[k] : k \in 1 .. Len(used)}
        /\ ToSet(used') = {used'[k] : k \in 1 .. Len(used) + 1}
      BY <2>4 DEF ToSet
  <2>6. ToSet(used') = ToSet(used) \cup {i}
    <3>1. ASSUME NEW k \in 1 .. Len(used) + 1 PROVE used'[k] \in ToSet(used) \cup {i}
        BY <2>4, <2>5
    <3>2. ASSUME NEW x \in ToSet(used) \cup {i} PROVE \E k \in 1 .. Len(used) + 1 : x = used'[k]
      <4>1. CASE x = i
        <5>1. Len(used) + 1 \in 1 .. Len(used) + 1
            BY <2>4
        <5>2. QED
            BY <2>4, <4>1, <5>1
      <4>2. CASE x \in ToSet(used)
        <5>1. PICK k \in 1 .. Len(used) : x = used[k]
            BY <2>5, <4>2
        <5>2. k \in 1 .. Len(used) + 1 /\ used'[k] = used[k]
            BY <2>4
        <5>3. QED
            BY <5>1, <5>2
      <4>3. QED
          BY <4>1, <4>2
    <3>3. ASSUME NEW x \in ToSet(used') PROVE x \in ToSet(used) \cup {i}
        BY <2>5, <3>1
    <3>4. ASSUME NEW x \in ToSet(used) \cup {i} PROVE x \in ToSet(used')
        BY <2>5, <3>2
    <3>5. QED
        BY <3>3, <3>4
  <2>7. \A j, k \in DOMAIN used' : used'[j] = used'[k] => j = k
    <3>1. \A k \in DOMAIN used : used[k] # i
        BY <2>2, <2>3 DEF ToSet
    <3>2. QED
        BY <2>3, <2>4, <3>1
  <2>8. Chains' = Chains
      BY <2>2 DEF Chains
  <2>9. posted' \subseteq Chains' /\ ToSet(used') \subseteq Chains' \ posted'
      BY <2>2, <2>3, <2>6, <2>8
  <2>10. posted' \cup ToSet(used') = posted \cup ToSet(used)
      BY <2>2, <2>6
  <2>11. \A b \in Bufs : buf'[b].disk <=> \E x \in posted' \cup ToSet(used') : chain'[x].b = b
      BY <2>2, <2>3, <2>10 DEF DiskSame
  <2>12. QED
      BY <2>7, <2>9, <2>11 DEF Reports
<1>17. ASSUME intr_ack PROVE Reports'
    BY <1>17, <1>1, <1>2 DEF intr_ack, At, Go, Retry, diskvars, Reports, Chains,
       DiskSame
<1>18. ASSUME intr_report PROVE Reports'
  <2>1. \E i \in Descs : \E b \in Bufs : ReportEffect(i, b)
      BY <1>18, ReportDoes
  <2>2. PICK i \in Descs : \E b \in Bufs : ReportEffect(i, b)
      BY <2>1
  <2>3. PICK b \in Bufs : ReportEffect(i, b)
      BY <2>2
  <2>4. /\ used # <<>> /\ i = used[1] /\ used' = Tail(used) /\ i \in Chains /\ b = chain[i].b
        /\ posted' = posted /\ chain' = chain
        /\ buf'[b].disk = FALSE /\ \A c \in Bufs \ {b} : buf'[c] = buf[c]
      BY <2>3 DEF ReportEffect, BufsSame
  <2>5. /\ posted \subseteq Chains /\ ToSet(used) \subseteq Chains \ posted
        /\ \A j, k \in DOMAIN used : used[j] = used[k] => j = k
        /\ \A c \in Bufs : buf[c].disk <=> \E x \in posted \cup ToSet(used) : chain[x].b = c
      BY <1>1 DEF Reports
  <2>6. /\ DOMAIN used = 1 .. Len(used) /\ Len(used) \in Nat \ {0}
        /\ DOMAIN used' = 1 .. Len(used) - 1 /\ \A k \in DOMAIN used' : used'[k] = used[k + 1]
      BY <2>4, Typed
  <2>7. \A j, k \in DOMAIN used' : used'[j] = used'[k] => j = k
    <3>1. \A k \in DOMAIN used' : k \in Nat /\ k + 1 \in DOMAIN used
        BY <2>6
    <3>2. QED
        BY <2>5, <2>6, <3>1
  <2>8. ToSet(used') = ToSet(used) \ {i}
    <3>1. /\ ToSet(used) = {used[k] : k \in 1 .. Len(used)}
          /\ ToSet(used') = {used'[k] : k \in 1 .. Len(used) - 1}
        BY <2>6 DEF ToSet
    <3>2. ASSUME NEW k \in 1 .. Len(used) - 1 PROVE used'[k] \in ToSet(used) \ {i}
      <4>1. k + 1 \in 1 .. Len(used) /\ 1 \in 1 .. Len(used) /\ k + 1 # 1 /\ used'[k] = used[k + 1]
          BY <2>6
      <4>2. used[k + 1] # used[1]
          BY <2>5, <2>6, <4>1
      <4>3. QED
          BY <2>4, <3>1, <4>1, <4>2
    <3>3. ASSUME NEW x \in ToSet(used) \ {i} PROVE \E k \in 1 .. Len(used) - 1 : x = used'[k]
      <4>1. PICK k \in 1 .. Len(used) : x = used[k]
          BY <3>1
      <4>2. k # 1
          BY <2>4, <3>3, <4>1
      <4>3. k - 1 \in 1 .. Len(used) - 1 /\ (k - 1) + 1 = k
          BY <2>6, <4>2
      <4>4. used'[k - 1] = used[k]
          BY <2>6, <4>3
      <4>5. QED
          BY <4>1, <4>3, <4>4
    <3>4. QED
        BY <3>1, <3>2, <3>3
  <2>9. Chains' = Chains
      BY <2>4 DEF Chains
  <2>10. posted' \subseteq Chains' /\ ToSet(used') \subseteq Chains' \ posted'
      BY <2>4, <2>5, <2>8, <2>9
  <2>11. i \in ToSet(used) /\ i \notin posted
    <3>1. 1 \in DOMAIN used
        BY <2>6
    <3>2. QED
        BY <2>4, <2>5, <3>1 DEF ToSet
  <2>12. posted' \cup ToSet(used') = (posted \cup ToSet(used)) \ {i}
      BY <2>4, <2>8, <2>11
  <2>13. \A x \in posted \cup ToSet(used) : x # i => chain[x].b # b
      BY <2>4, <2>5, OneChain
  <2>14. ASSUME NEW c \in Bufs
         PROVE  buf'[c].disk <=> \E x \in posted' \cup ToSet(used') : chain'[x].b = c
    <3>1. CASE c = b
        BY <2>4, <2>12, <2>13, <3>1
    <3>2. CASE c # b
      <4>1. (\E x \in posted' \cup ToSet(used') : chain'[x].b = c) <=>
                \E x \in posted \cup ToSet(used) : chain[x].b = c
          BY <2>4, <2>12, <3>2
      <4>2. QED
          BY <2>4, <2>5, <3>2, <4>1
    <3>3. QED
        BY <3>1, <3>2
  <2>15. QED
      BY <2>7, <2>10, <2>14 DEF Reports
<1>19. ASSUME intr_end PROVE Reports'
    BY <1>19, <1>1, <1>2 DEF intr_end, At, Go, Retry, diskvars, Reports, Chains,
       DiskSame
<1>20. QED
    BY <1>3, <1>4, <1>5, <1>6, <1>7, <1>8, <1>9, <1>10, <1>11, <1>12,
       <1>13, <1>14, <1>15, <1>16, <1>17, <1>18, <1>19 DEF BioNext, BioHalted, Wait, Device, Handler

-----------------------------------------------------------------------------
(* The types.                                                              *)

TypesOf(l) == Cardinality(ToSet(l)) = Len(l)

\* The list is as long as it has buffers.
LEMMA ListTyped ==
    ASSUME BlockInv, lru' \in Seq(Bufs), ListOK'
    PROVE  TypesOf(lru)'
<1>1. PICK m : m = lru'
    OBVIOUS
<1>2. m \in Seq(Bufs) /\ \A i, j \in DOMAIN m : m[i] = m[j] => i = j
    BY <1>1 DEF ListOK
<1>3. Cardinality(ToSet(m)) = Len(m)
    BY <1>2, InjectiveCount
<1>4. QED
    BY <1>1, <1>3 DEF TypesOf

\* The types are kept.
LEMMA TypesKept ==
    ASSUME BlockInv, [BioNext]_biovars
    PROVE  IOTypes'
<1> USE DEF diskvars
<1>1. /\ IOTypes /\ ListOK /\ Counted /\ Holders /\ OneCopy /\ Waiters /\ Descriptors /\ Reports
      /\ Sleepers /\ Contents
    BY DEF BlockInv
<1>2. \A q \in IOProc : io[q].b \in Bufs
    BY Typed DEF IOType
<1>3. CASE UNCHANGED biovars
    BY <1>3, <1>1 DEF biovars, IOTypes, BioTypeOK
<1>4. ASSUME NEW p \in IOProc, NEW op \in {"bread", "page"}, NEW s \in Sector, bget_hit(p, op, s)
      PROVE  IOTypes'
  <2>1. \E v \in Bufs : HitEffect(p, op, s, v)
      BY <1>4, HitDoes
  <2>2. PICK v \in Bufs : HitEffect(p, op, s, v)
      BY <2>1
  <2>3. /\ buf' \in BufType /\ io' \in IOType /\ lru' \in Seq(Bufs)
        /\ platter' \in [Sector -> Value] /\ unused' \subseteq Descs /\ posted' \subseteq Descs
        /\ used' \in Seq(Descs) /\ chain' \in [Descs -> Requested \cup {Nothing}]
      BY <2>2, Typed DEF HitEffect, Fetched, diskvars
  <2>4. TypesOf(lru)'
      BY <2>3, ListTyped, ListKept
  <2>5. QED
      BY <2>3, <2>4 DEF IOTypes, BioTypeOK, IOType, BufType, BufRec, TypesOf
<1>5. ASSUME NEW p \in IOProc, NEW op \in {"bread", "page"}, NEW s \in Sector, bget_recycle(p, op, s)
      PROVE  IOTypes'
  <2>1. \E v \in Bufs : RecycleEffect(p, op, s, v)
      BY <1>5, RecycleDoes
  <2>2. PICK v \in Bufs : RecycleEffect(p, op, s, v)
      BY <2>1
  <2>3. /\ buf' \in BufType /\ io' \in IOType /\ lru' \in Seq(Bufs)
        /\ platter' \in [Sector -> Value] /\ unused' \subseteq Descs /\ posted' \subseteq Descs
        /\ used' \in Seq(Descs) /\ chain' \in [Descs -> Requested \cup {Nothing}]
      BY <2>2, Typed DEF RecycleEffect, Fetched, diskvars
  <2>4. TypesOf(lru)'
      BY <2>3, ListTyped, ListKept
  <2>5. QED
      BY <2>3, <2>4 DEF IOTypes, BioTypeOK, IOType, BufType, BufRec, TypesOf
<1>6. ASSUME NEW p \in IOProc, NEW s \in Sector, bget_panics(p, s) PROVE IOTypes'
  <2>1. /\ buf' \in BufType /\ io' \in IOType /\ lru' \in Seq(Bufs)
        /\ platter' \in [Sector -> Value] /\ unused' \subseteq Descs /\ posted' \subseteq Descs
        /\ used' \in Seq(Descs) /\ chain' \in [Descs -> Requested \cup {Nothing}]
      BY <1>6, Typed DEF bget_panics, At, Go, diskvars
  <2>2. TypesOf(lru)'
      BY <2>1, ListTyped, ListKept
  <2>3. QED
      BY <2>1, <2>2 DEF IOTypes, BioTypeOK, IOType, BufType, BufRec, TypesOf
<1>7. ASSUME NEW p \in IOProc, bget_lock(p) PROVE IOTypes'
  <2>1. LockEffect(p)
      BY <1>7, LockDoes
  <2>2. /\ buf' \in BufType /\ io' \in IOType /\ lru' \in Seq(Bufs)
        /\ platter' \in [Sector -> Value] /\ unused' \subseteq Descs /\ posted' \subseteq Descs
        /\ used' \in Seq(Descs) /\ chain' \in [Descs -> Requested \cup {Nothing}]
      BY <2>1, Typed DEF LockEffect, Fetched, diskvars
  <2>3. TypesOf(lru)'
      BY <2>2, ListTyped, ListKept
  <2>4. QED
      BY <2>2, <2>3 DEF IOTypes, BioTypeOK, IOType, BufType, BufRec, TypesOf
<1>8. ASSUME NEW p \in IOProc, use(p) PROVE IOTypes'
  <2>1. UseEffect(p)
      BY <1>8, UseDoes
  <2>2. /\ buf' \in BufType /\ io' \in IOType /\ lru' \in Seq(Bufs)
        /\ platter' \in [Sector -> Value] /\ unused' \subseteq Descs /\ posted' \subseteq Descs
        /\ used' \in Seq(Descs) /\ chain' \in [Descs -> Requested \cup {Nothing}]
      BY <2>1, Typed DEF UseEffect, Fetched, diskvars
  <2>3. TypesOf(lru)'
      BY <2>2, ListTyped, ListKept
  <2>4. QED
      BY <2>2, <2>3 DEF IOTypes, BioTypeOK, IOType, BufType, BufRec, TypesOf
<1>9. ASSUME NEW p \in IOProc, rw_post(p) PROVE IOTypes'
  <2>1. \E S, h : PostEffect(p, S, h)
      BY <1>9, PostDoes
  <2>2. PICK S, h : PostEffect(p, S, h)
      BY <2>1
  <2>3. h \in Descs
      BY <2>2, FreeHasNoChain DEF PostEffect
  <2>4. /\ buf' \in BufType /\ io' \in IOType /\ lru' \in Seq(Bufs)
        /\ platter' \in [Sector -> Value] /\ unused' \subseteq Descs /\ posted' \subseteq Descs
        /\ used' \in Seq(Descs) /\ chain' \in [Descs -> Requested \cup {Nothing}]
      BY <2>2, <2>3, Typed DEF PostEffect, Fetched, diskvars
  <2>5. TypesOf(lru)'
      BY <2>4, ListTyped, ListKept
  <2>6. QED
      BY <2>4, <2>5 DEF IOTypes, BioTypeOK, IOType, BufType, BufRec, TypesOf
<1>10. ASSUME NEW p \in IOProc, rw_full(p) PROVE IOTypes'
  <2>1. FullEffect(p)
      BY <1>10, FullDoes
  <2>2. /\ buf' \in BufType /\ io' \in IOType /\ lru' \in Seq(Bufs)
        /\ platter' \in [Sector -> Value] /\ unused' \subseteq Descs /\ posted' \subseteq Descs
        /\ used' \in Seq(Descs) /\ chain' \in [Descs -> Requested \cup {Nothing}]
      BY <2>1, Typed DEF FullEffect, Fetched, diskvars
  <2>3. TypesOf(lru)'
      BY <2>2, ListTyped, ListKept
  <2>4. QED
      BY <2>2, <2>3 DEF IOTypes, BioTypeOK, IOType, BufType, BufRec, TypesOf
<1>11. ASSUME NEW p \in IOProc, rw_again(p) PROVE IOTypes'
  <2>1. io' \in IOType
      BY <1>11, Typed, SMTT(30) DEF rw_again, Go, IOType, Places
  <2>2. /\ buf' \in BufType /\ io' \in IOType /\ lru' \in Seq(Bufs)
        /\ platter' \in [Sector -> Value] /\ unused' \subseteq Descs /\ posted' \subseteq Descs
        /\ used' \in Seq(Descs) /\ chain' \in [Descs -> Requested \cup {Nothing}]
      BY <1>11, <2>1, Typed DEF rw_again, At, Go, diskvars
  <2>3. TypesOf(lru)'
      BY <2>2, ListTyped, ListKept
  <2>4. QED
      BY <2>2, <2>3 DEF IOTypes, BioTypeOK, IOType, BufType, BufRec, TypesOf
<1>12. ASSUME NEW p \in IOProc, rw_finish(p) PROVE IOTypes'
  <2>1. FinishEffect(p)
      BY <1>12, FinishDoes
  <2>2. unused' \subseteq Descs
      BY <2>1, FinishedChain, ChainTyped, Typed DEF FinishEffect
  <2>3. /\ buf' \in BufType /\ io' \in IOType /\ lru' \in Seq(Bufs)
        /\ platter' \in [Sector -> Value] /\ unused' \subseteq Descs /\ posted' \subseteq Descs
        /\ used' \in Seq(Descs) /\ chain' \in [Descs -> Requested \cup {Nothing}]
      BY <2>1, <2>2, Typed DEF FinishEffect, Fetched, diskvars
  <2>4. TypesOf(lru)'
      BY <2>3, ListTyped, ListKept
  <2>5. QED
      BY <2>3, <2>4 DEF IOTypes, BioTypeOK, IOType, BufType, BufRec, TypesOf
<1>13. ASSUME NEW p \in IOProc, kill_sleeper(p) PROVE IOTypes'
  <2>1. io' \in IOType
    <3>1. PICK at \in Places : at = IF io[p].at = "asleep" THEN "woken" ELSE Retry(io[p].at)
        BY Typed DEF IOType, Retry, Places
    <3>2. io' = [io EXCEPT ![p].at = at]
        BY <1>13, <3>1, Typed DEF kill_sleeper, IOType
    <3>3. QED
        BY <3>1, <3>2, Typed DEF IOType
  <2>2. /\ buf' \in BufType /\ io' \in IOType /\ lru' \in Seq(Bufs)
        /\ platter' \in [Sector -> Value] /\ unused' \subseteq Descs /\ posted' \subseteq Descs
        /\ used' \in Seq(Descs) /\ chain' \in [Descs -> Requested \cup {Nothing}]
      BY <1>13, <2>1, Typed DEF kill_sleeper, At, Go, diskvars
  <2>3. TypesOf(lru)'
      BY <2>2, ListTyped, ListKept
  <2>4. QED
      BY <2>2, <2>3 DEF IOTypes, BioTypeOK, IOType, BufType, BufRec, TypesOf
<1>14. ASSUME NEW p \in IOProc, brelse(p) PROVE IOTypes'
  <2>1. BrelseEffect(p)
      BY <1>14, BrelseDoes
  <2>2. /\ buf' \in BufType /\ io' \in IOType /\ lru' \in Seq(Bufs)
        /\ platter' \in [Sector -> Value] /\ unused' \subseteq Descs /\ posted' \subseteq Descs
        /\ used' \in Seq(Descs) /\ chain' \in [Descs -> Requested \cup {Nothing}]
      BY <2>1, Typed DEF BrelseEffect, Fetched, diskvars
  <2>3. TypesOf(lru)'
      BY <2>2, ListTyped, ListKept
  <2>4. QED
      BY <2>2, <2>3 DEF IOTypes, BioTypeOK, IOType, BufType, BufRec, TypesOf
<1>15. ASSUME NEW p \in IOProc, brelse_unref(p) PROVE IOTypes'
  <2>1. UnrefEffect(p)
      BY <1>15, UnrefDoes
  <2>2. lru' \in Seq(Bufs)
    <3>1. BlksSame /\ (lru' = lru \/ lru' = MostRecent(io[p].b)) /\ io[p].at = "unref"
        BY <2>1 DEF UnrefEffect
    <3>2. PICK k \in DOMAIN lru : lru[k] = io[p].b
        BY <1>1, <1>2, <3>1 DEF Holders, ListOK
    <3>3. PICK m : m = MostRecent(lru[k])
        OBVIOUS
    <3>4. m \in Seq(Bufs)
        BY <1>1, <3>3, Typed, ToTheHead DEF ListOK
    <3>5. QED
        BY <3>1, <3>2, <3>3, <3>4, Typed
  <2>3. /\ buf' \in BufType /\ io' \in IOType /\ lru' \in Seq(Bufs)
        /\ platter' \in [Sector -> Value] /\ unused' \subseteq Descs /\ posted' \subseteq Descs
        /\ used' \in Seq(Descs) /\ chain' \in [Descs -> Requested \cup {Nothing}]
      BY <2>1, <2>2, Typed DEF UnrefEffect, Fetched, diskvars
  <2>4. TypesOf(lru)'
      BY <2>3, ListTyped, ListKept
  <2>5. QED
      BY <2>3, <2>4 DEF IOTypes, BioTypeOK, IOType, BufType, BufRec, TypesOf
<1>16. ASSUME NEW i \in Descs, device(i) PROVE IOTypes'
  <2>1. DeviceEffect(i)
      BY <1>16, DeviceDoes
  <2>2. used' \in Seq(Descs)
      BY <2>1, Typed DEF DeviceEffect
  <2>3. /\ buf' \in BufType /\ io' \in IOType /\ lru' \in Seq(Bufs)
        /\ platter' \in [Sector -> Value] /\ unused' \subseteq Descs /\ posted' \subseteq Descs
        /\ used' \in Seq(Descs) /\ chain' \in [Descs -> Requested \cup {Nothing}]
      BY <2>1, <2>2, Typed DEF DeviceEffect, Fetched, diskvars
  <2>4. TypesOf(lru)'
      BY <2>3, ListTyped, ListKept
  <2>5. QED
      BY <2>3, <2>4 DEF IOTypes, BioTypeOK, IOType, BufType, BufRec, TypesOf
<1>17. ASSUME intr_ack PROVE IOTypes'
  <2>1. /\ buf' \in BufType /\ io' \in IOType /\ lru' \in Seq(Bufs)
        /\ platter' \in [Sector -> Value] /\ unused' \subseteq Descs /\ posted' \subseteq Descs
        /\ used' \in Seq(Descs) /\ chain' \in [Descs -> Requested \cup {Nothing}]
      BY <1>17, Typed DEF intr_ack, At, Go, diskvars
  <2>2. TypesOf(lru)'
      BY <2>1, ListTyped, ListKept
  <2>3. QED
      BY <2>1, <2>2 DEF IOTypes, BioTypeOK, IOType, BufType, BufRec, TypesOf
<1>18. ASSUME intr_report PROVE IOTypes'
  <2>1. \E i \in Descs : \E b \in Bufs : ReportEffect(i, b)
      BY <1>18, ReportDoes
  <2>2. PICK i \in Descs : \E b \in Bufs : ReportEffect(i, b)
      BY <2>1
  <2>3. PICK b \in Bufs : ReportEffect(i, b)
      BY <2>2
  <2>4. used' \in Seq(Descs)
      BY <2>3, Typed DEF ReportEffect
  <2>5. /\ buf' \in BufType /\ io' \in IOType /\ lru' \in Seq(Bufs)
        /\ platter' \in [Sector -> Value] /\ unused' \subseteq Descs /\ posted' \subseteq Descs
        /\ used' \in Seq(Descs) /\ chain' \in [Descs -> Requested \cup {Nothing}]
      BY <2>3, <2>4, Typed DEF ReportEffect, Fetched, diskvars
  <2>6. TypesOf(lru)'
      BY <2>5, ListTyped, ListKept
  <2>7. QED
      BY <2>5, <2>6 DEF IOTypes, BioTypeOK, IOType, BufType, BufRec, TypesOf
<1>19. ASSUME intr_end PROVE IOTypes'
  <2>1. /\ buf' \in BufType /\ io' \in IOType /\ lru' \in Seq(Bufs)
        /\ platter' \in [Sector -> Value] /\ unused' \subseteq Descs /\ posted' \subseteq Descs
        /\ used' \in Seq(Descs) /\ chain' \in [Descs -> Requested \cup {Nothing}]
      BY <1>19, Typed DEF intr_end, At, Go, diskvars
  <2>2. TypesOf(lru)'
      BY <2>1, ListTyped, ListKept
  <2>3. QED
      BY <2>1, <2>2 DEF IOTypes, BioTypeOK, IOType, BufType, BufRec, TypesOf
<1>20. QED
    BY <1>3, <1>4, <1>5, <1>6, <1>7, <1>8, <1>9, <1>10, <1>11, <1>12,
       <1>13, <1>14, <1>15, <1>16, <1>17, <1>18, <1>19 DEF BioNext, BioHalted, Wait, Device, Handler

-----------------------------------------------------------------------------
(* The invariant and what it says.                                         *)

\* The invariant holds at first,
LEMMA InvInit == BioInit => BlockInv
<1> SUFFICES ASSUME BioInit PROVE BlockInv
    OBVIOUS
<1>1. /\ buf = [b \in Bufs |-> [blk |-> Nothing, valid |-> FALSE, ref |-> 0, disk |-> FALSE,
                              data |-> 0, owner |-> Nothing]]
      /\ platter = [s \in Sector |-> 0] /\ chain = [i \in Descs |-> Nothing]
      /\ posted = {} /\ used = <<>> /\ io = [p \in IOProc |-> Away]
    BY DEF BioInit
<1>2. PICK NUM \in Queues : unused = 0 .. NUM - 1
    BY DEF BioInit
<1>3. PICK k \in Bufs : lru = [i \in 1 .. k |-> k + 1 - i]
    BY DEF BioInit
<1>4. /\ 0 \in Descs /\ 1 \in Bufs /\ \A d \in Descs : d \in Nat
      /\ Nothing \notin IOProc /\ Nothing \notin Sector
    BY BlockIOAssumption, DescsFinite DEF Bufs
<1>5. /\ Away.at = "user" /\ Away.b = 1 /\ Away.op = "bread" /\ Away.head = 0
      /\ Away \in [at : Places, op : {"bread", "page"}, b : Bufs, head : Descs]
    BY <1>4 DEF Away, Places
<1>6. lru \in Seq(Bufs) /\ \A i, j \in DOMAIN lru : lru[i] = lru[j] => i = j
  <2>1. k \in Nat /\ NBUF \in Nat /\ k <= NBUF
      BY BlockIOAssumption DEF Bufs
  <2>2. lru \in [1 .. k -> Bufs]
      BY <1>3, <2>1 DEF Bufs
  <2>3. \A i, j \in 1 .. k : k + 1 - i = k + 1 - j => i = j
      BY <2>1
  <2>4. lru \in Seq(Bufs)
      BY <2>1, <2>2
  <2>5. DOMAIN lru = 1 .. k
      BY <2>2
  <2>6. QED
      BY <1>3, <2>3, <2>4, <2>5
<1>7. unused \subseteq Descs
    BY <1>2, QueueBound DEF Descs
<1>8. /\ buf \in BufType /\ io \in IOType /\ platter \in [Sector -> Value]
      /\ chain \in [Descs -> Requested \cup {Nothing}]
    BY <1>1, <1>5 DEF BufType, BufRec, IOType, Value
<1>9. IOTypes
  <2>1. Cardinality(ToSet(lru)) = Len(lru)
      BY <1>6, InjectiveCount
  <2>2. used \in Seq(Descs) /\ posted \subseteq Descs
      BY <1>1
  <2>3. QED
      BY <1>6, <1>7, <1>8, <2>1, <2>2 DEF IOTypes, BioTypeOK, BufType, BufRec, IOType
<1>10. \A b \in Bufs : buf[b].blk = Nothing /\ ~buf[b].valid /\ buf[b].ref = 0 /\ ~buf[b].disk
                       /\ buf[b].owner = Nothing
    BY <1>1
<1>11. \A p \in IOProc : io[p].at = "user"
    BY <1>1, <1>5
<1>12. Counted
  <2>1. \A b \in Bufs : Getters(b) = {}
      BY <1>11 DEF Getters
  <2>2. QED
      BY <1>10, <2>1, FS_EmptySet DEF Counted
<1>13. ListOK /\ Holders /\ OneCopy
    BY <1>4, <1>6, <1>10, <1>11 DEF ListOK, Holders, OneCopy, Holding
<1>14. Chains = {}
    BY <1>1 DEF Chains
<1>15. Waiters /\ Sleepers /\ Contents
    BY <1>10, <1>11, <1>14 DEF Waiters, Sleepers, Contents, InFlight
<1>16. Reports
  <2>1. ToSet(used) = {} /\ DOMAIN used = {}
      BY <1>1 DEF ToSet
  <2>2. QED
      BY <1>1, <1>10, <2>1 DEF Reports
<1>17. Descriptors
  <2>1. \A d \in Descs : Owned(d) <=> d \in 0 .. NUM - 1
      BY <1>2, <1>14 DEF Owned
  <2>2. QED
      BY <1>14, <2>1 DEF Descriptors
<1>18. QED
    BY <1>9, <1>12, <1>13, <1>15, <1>16, <1>17 DEF BlockInv

\* every step keeps it,
LEMMA InvNext == BlockInv /\ [BioNext]_biovars => BlockInv'
<1> SUFFICES ASSUME BlockInv, [BioNext]_biovars PROVE BlockInv'
    OBVIOUS
<1>1. IOTypes' /\ ListOK' /\ Counted' /\ Holders'
    BY TypesKept, ListKept, CountedKept, HoldersKept
<1>2. OneCopy' /\ Waiters' /\ Descriptors'
    BY OneCopyKept, WaitersKept, DescriptorsKept
<1>3. Reports' /\ Sleepers' /\ Contents'
    BY ReportsKept, SleepersKept, ContentsKept
<1>4. QED
    BY <1>1, <1>2, <1>3 DEF BlockInv

\* and it says what BlockOK says.
LEMMA InvSound == BlockInv => BlockOK
<1> SUFFICES ASSUME BlockInv PROVE BlockOK
    OBVIOUS
<1>1. BioTypeOK
    BY DEF BlockInv, IOTypes
<1>2. OneBuffer
    BY DEF BlockInv, OneCopy, Counted, Getters, OneBuffer
<1>3. Coherent
  <2>1. \A b \in Bufs : buf[b].valid /\ buf[b].owner = Nothing => buf[b].data = platter[buf[b].blk]
      BY DEF BlockInv, Contents, Same
  <2>2. \A p \in IOProc : io[p].at = "have" /\ io[p].op # "page" => Same(io[p].b)
      BY DEF BlockInv, Contents
  <2>3. QED
      BY <2>1, <2>2 DEF Coherent, Same
<1>4. Requests
  <2>1. \A i \in Chains : /\ chain[i].descs \cap unused = {}
                          /\ \A j \in Chains \ {i} : chain[i].descs \cap chain[j].descs = {}
      BY DEF BlockInv, Descriptors
  <2>2. \E NUM \in Queues : unused \cup UNION {chain[i].descs : i \in Chains} = 0 .. NUM - 1
    <3>1. PICK NUM \in Queues : \A d \in Descs : Owned(d) <=> d \in 0 .. NUM - 1
        BY DEF BlockInv, Descriptors
    <3>2. 0 .. NUM - 1 \subseteq Descs
        BY QueueBound DEF Descs
    <3>3. PICK U : U = UNION {chain[i].descs : i \in Chains}
        OBVIOUS
    <3>4. \A d : d \in U <=> \E i \in Chains : d \in chain[i].descs
        BY <3>3
    <3>5. \A d \in unused \cup U : d \in Descs
        BY <3>4, Typed, ChainTyped
    <3>6. \A d \in Descs : d \in unused \cup U <=> d \in 0 .. NUM - 1
        BY <3>1, <3>4 DEF Owned
    <3>7. unused \cup U = 0 .. NUM - 1
        BY <3>2, <3>5, <3>6
    <3>8. QED
        BY <3>3, <3>7
  <2>3. \A b \in Bufs : buf[b].disk <=> \E i \in posted \cup ToSet(used) : chain[i].b = b
      BY DEF BlockInv, Reports
  <2>4. \A p \in IOProc : /\ io[p].at = "asleep" => buf[io[p].b].disk
                          /\ io[p].at \in {"rdesc", "wdesc"} => Cardinality(unused) < 3
      BY DEF BlockInv, Sleepers
  <2>5. QED
      BY <2>1, <2>2, <2>3, <2>4 DEF Requests
<1>5. QED
    BY <1>1, <1>2, <1>3, <1>4 DEF BlockOK

\* The inductive invariant of the buffer cache and the disk driver.
THEOREM BlockInvariant == BioSpec => []BlockInv
<1>1. BioInit => BlockInv
    BY InvInit
<1>2. BlockInv /\ [BioNext]_biovars => BlockInv'
    BY InvNext
<1>3. QED
    BY <1>1, <1>2, PTL DEF BioSpec

\* The cache has one copy of a block and hands out what the disk holds, whatever the number of
\* processes, buffers, blocks and descriptors, and however misses, evictions, completions,
\* interrupts and early wakeups fall together (bio.c, virtio_disk.c).
THEOREM CacheCoherent == BioSpec => []BlockOK
<1>1. BlockInv => BlockOK
    BY InvSound
<1>2. QED
    BY <1>1, BlockInvariant, PTL
=============================================================================
