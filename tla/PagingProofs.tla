---------------------------- MODULE PagingProofs ----------------------------
(***************************************************************************)
(* User memory in mp2, for any number of processes, pages and disk blocks: *)
(* who owns them (Ownership), that no process sees the data of another     *)
(* (Isolation), and why the kernel panics when it does (PanicCauses).  And *)
(* the page replacement buffer, for any number of walkers (BufferOK).      *)
(***************************************************************************)
EXTENDS Paging, PrBuffer, FiniteSetTheorems, SequenceTheorems, WellFoundedInduction, TLAPS

USE PagingAssumption DEF PagingAssumption

-----------------------------------------------------------------------------
(* The inductive invariant.                                                *)

Unused == {freep[i] : i \in 1 .. Len(freep)}

\* Who owns a page: one pte that maps it or one place of the free list.
Owners ==
    /\ \A p \in Proc, v \in VA : pt[p][v].V => pt[p][v].a \in Page \ Unused
    /\ \A p, q \in Proc : \A v, w \in VA :
          pt[p][v].V /\ pt[q][w].V /\ pt[p][v].a = pt[q][w].a => p = q /\ v = w
    /\ \A i, j \in 1 .. Len(freep) : freep[i] = freep[j] => i = j
    /\ \A g \in Page : g \in Unused \/ \E p \in Proc, v \in VA : pt[p][v].V /\ pt[p][v].a = g

\* A process that does not run has no pages; a child that fork() fills has exactly the
\* pages copied so far, in memory, and one parent.
Family(p) ==
    /\ job[p].op = "unused" => \A v \in VA : ~pt[p][v].V /\ ~pt[p][v].S
    /\ job[p].op \in {"fork", "unfork"} =>
          /\ child[p] \in Proc \ {p} /\ job[child[p]].op = "embryo"
          /\ \A q \in Proc \ {p} : job[q].op \in {"fork", "unfork"} => child[q] # child[p]
    /\ job[p].op = "fork" =>
          \A v \in VA : IF v < job[p].va THEN pt[child[p]][v].V
                                         ELSE ~pt[child[p]][v].V /\ ~pt[child[p]][v].S
    /\ job[p].op = "unfork" =>
          \A v \in VA : pt[child[p]][v].V => v \in job[p].va .. job[p].last

Families == \A p \in Proc : Family(p)

\* Below p->sz every page is in memory or swapped, until exit() unmaps them in turn.
Space(p) ==
    /\ job[p].op \in {"user", "fork", "unfork", "shrink"} \cup Advice =>
          \A v \in VA : v < sz[p] => pt[p][v].V \/ pt[p][v].S
    /\ job[p].op \in {"fork", "exit"} => job[p].last = sz[p] - 1
    /\ job[p].op = "shrink" => job[p].va = sz[p] - 1
    /\ job[p].op = "exit" => \A v \in VA : v < job[p].va => ~pt[p][v].V

Spaces == \A p \in Proc : Space(p)

PagingInv ==
    TypeOK /\ Owners /\ SwapOwnership /\ Families /\ Spaces /\ Isolation /\ PanicCauses

-----------------------------------------------------------------------------
(* What a step may do to pages: map one, free one, swap one out, store to  *)
(* one, or drop the page table of a process that has none in memory.       *)

Pages == Owners /\ SwapOwnership /\ Isolation

SameBut(p, v) == \A q \in Proc, w \in VA : q # p \/ w # v => pt'[q][w] = pt[q][w]

LEMMA Kalloc ==
    ASSUME TypeOK, Owners, NEW g \in Page, kalloc(g)
    PROVE  /\ g \in Unused /\ Unused' = Unused \ {g}
           /\ \A i, j \in 1 .. Len(freep') : freep'[i] = freep'[j] => i = j
           /\ freep' \in Seq(Page)
<1>1. freep \in Seq(Page) /\ freep # <<>> /\ g = freep[1] /\ freep' = Tail(freep)
    BY DEF TypeOK, kalloc
<1>2. /\ Len(freep) \in Nat \ {0} /\ freep' \in Seq(Page) /\ Len(freep') = Len(freep) - 1
      /\ \A i \in 1 .. Len(freep') : freep'[i] = freep[i + 1]
    BY <1>1
<1>3. \A i, j \in 1 .. Len(freep) : freep[i] = freep[j] => i = j
    BY DEF Owners
<1>4. ASSUME NEW i \in 1 .. Len(freep'), NEW j \in 1 .. Len(freep'), freep'[i] = freep'[j]
      PROVE  i = j
    <2>1. i + 1 \in 1 .. Len(freep) /\ j + 1 \in 1 .. Len(freep) /\ freep[i + 1] = freep[j + 1]
        BY <1>2, <1>4
    <2>2. i + 1 = j + 1
        BY <1>3, <2>1
    <2>3. QED
        BY <2>2
<1>5. \A i \in 1 .. Len(freep') : freep'[i] # g
    BY <1>1, <1>2, <1>3
<1>6. ASSUME NEW i \in 1 .. Len(freep), freep[i] # g
      PROVE  \E j \in 1 .. Len(freep') : freep'[j] = freep[i]
    <2>1. i # 1
        BY <1>1, <1>6
    <2>2. i - 1 \in 1 .. Len(freep') /\ freep'[i - 1] = freep[i]
        BY <1>2, <1>6, <2>1
    <2>3. QED
        BY <2>2
<1>7. \A i \in 1 .. Len(freep') : i + 1 \in 1 .. Len(freep) /\ freep'[i] = freep[i + 1]
    BY <1>2
<1>8. 1 \in 1 .. Len(freep) /\ freep[1] = g
    BY <1>1, <1>2
<1>9. Unused' = Unused \ {g}
    <2>1. ASSUME NEW h \in Unused' PROVE h \in Unused \ {g}
        BY <1>5, <1>7, <2>1 DEF Unused
    <2>2. ASSUME NEW h \in Unused \ {g} PROVE h \in Unused'
        BY <1>6, <2>2 DEF Unused
    <2>3. QED
        BY <2>1, <2>2
<1>10. QED
    BY <1>2, <1>4, <1>8, <1>9 DEF Unused

LEMMA Kfree ==
    ASSUME TypeOK, Owners, NEW g \in Page \ Unused, kfree(g)
    PROVE  /\ Unused' = Unused \cup {g}
           /\ \A i, j \in 1 .. Len(freep') : freep'[i] = freep'[j] => i = j
           /\ freep' \in Seq(Page)
<1>1. freep \in Seq(Page) /\ freep' = <<g>> \o freep /\ Len(freep) \in Nat
    BY DEF TypeOK, kfree
<1>2. /\ freep' \in Seq(Page) /\ Len(freep') = Len(freep) + 1 /\ freep'[1] = g
      /\ \A i \in 1 .. Len(freep') : i # 1 => freep'[i] = freep[i - 1]
    BY <1>1
<1>3. /\ \A i, j \in 1 .. Len(freep) : freep[i] = freep[j] => i = j
      /\ \A i \in 1 .. Len(freep) : freep[i] # g
    BY DEF Owners, Unused
<1>4. \A i \in 1 .. Len(freep') : i # 1 => i - 1 \in 1 .. Len(freep) /\ freep'[i] = freep[i - 1]
    BY <1>1, <1>2
<1>5. ASSUME NEW i \in 1 .. Len(freep'), NEW j \in 1 .. Len(freep'), freep'[i] = freep'[j]
      PROVE  i = j
    <2>1. i # 1 /\ j # 1 => i - 1 = j - 1
        BY <1>3, <1>4, <1>5
    <2>2. i = 1 <=> j = 1
        BY <1>2, <1>3, <1>4, <1>5
    <2>3. QED
        BY <1>1, <1>2, <2>1, <2>2
<1>6. \A i \in 1 .. Len(freep) : i + 1 \in 1 .. Len(freep') /\ freep'[i + 1] = freep[i]
    <2>1. ASSUME NEW i \in 1 .. Len(freep) PROVE i + 1 \in 1 .. Len(freep') /\ i + 1 # 1 /\ (i + 1) - 1 = i
        BY <1>1, <1>2
    <2>2. QED
        BY <1>2, <2>1
<1>7. 1 \in 1 .. Len(freep') /\ freep'[1] = g
    BY <1>1, <1>2
<1>8. Unused' = Unused \cup {g}
    <2>1. ASSUME NEW h \in Unused' PROVE h \in Unused \cup {g}
        BY <1>4, <1>7, <2>1 DEF Unused
    <2>2. ASSUME NEW h \in Unused \cup {g} PROVE h \in Unused'
        BY <1>6, <1>7, <2>2 DEF Unused
    <2>3. QED
        BY <2>1, <2>2
<1>9. QED
    BY <1>2, <1>5, <1>8

LEMMA PagesMap ==
    ASSUME TypeOK, Pages, NEW p \in Proc, NEW v \in VA, NEW g \in Page, NEW x, ~pt[p][v].V, kalloc(g),
           mem' = [mem EXCEPT ![g] = x], SameBut(p, v), UNCHANGED blkVars,
           pt'[p][v].V, ~pt'[p][v].S, pt'[p][v].a = g, x \in {user'[p][v], Zero},
           \A q \in Proc, w \in VA : q # p \/ w # v => user'[q][w] = user[q][w]
    PROVE  Pages'
<1>0. /\ \A q \in Proc, w \in VA : pt[q][w].V => pt[q][w].a \in Page \ (Unused \cup {g})
      /\ mem \in [Page -> Data] /\ UNCHANGED <<freeb, swap>>
    BY Kalloc DEF Pages, Owners, TypeOK, blkVars
<1>1. Owners'
    <2>1. \A q \in Proc, w \in VA : pt'[q][w].V => pt'[q][w].a \in Page \ Unused'
        BY <1>0, Kalloc DEF Pages, SameBut
    <2>2. ASSUME NEW q \in Proc, NEW r \in Proc, NEW w \in VA, NEW u \in VA,
                 pt'[q][w].V, pt'[r][u].V, pt'[q][w].a = pt'[r][u].a
          PROVE  q = r /\ w = u
        <3>1. (q # p \/ w # v) => pt[q][w].V /\ pt[q][w].a = pt'[q][w].a /\ pt[q][w].a # g
            BY <1>0, <2>2 DEF SameBut
        <3>2. (r # p \/ u # v) => pt[r][u].V /\ pt[r][u].a = pt'[r][u].a /\ pt[r][u].a # g
            BY <1>0, <2>2 DEF SameBut
        <3>3. CASE (q # p \/ w # v) /\ (r # p \/ u # v)
            BY <2>2, <3>1, <3>2, <3>3 DEF Pages, Owners
        <3>4. CASE ~(q # p \/ w # v) \/ ~(r # p \/ u # v)
            BY <2>2, <3>1, <3>2, <3>4
        <3>5. QED
            BY <3>3, <3>4
    <2>3. ASSUME NEW h \in Page, h \notin Unused'
          PROVE  \E q \in Proc, w \in VA : pt'[q][w].V /\ pt'[q][w].a = h
        <3>1. CASE h = g
            BY <3>1
        <3>2. CASE h # g
            <4>1. PICK q \in Proc, w \in VA : pt[q][w].V /\ pt[q][w].a = h
                BY <2>3, <3>2, Kalloc DEF Pages, Owners
            <4>2. pt'[q][w] = pt[q][w]
                BY <4>1 DEF SameBut
            <4>3. QED
                BY <4>1, <4>2
        <3>3. QED
            BY <3>1, <3>2
    <2>4. QED
        BY <2>1, <2>2, <2>3, Kalloc DEF Pages, Owners
<1>2. SwapOwnership'
    BY <1>0 DEF Pages, SwapOwnership, SameBut
<1>3. Isolation'
    <2>1. \A q \in Proc, w \in VA : q # p \/ w # v =>
              /\ pt'[q][w] = pt[q][w] /\ user'[q][w] = user[q][w]
              /\ pt[q][w].V => mem'[pt[q][w].a] = mem[pt[q][w].a]
        BY <1>0 DEF SameBut
    <2>2. mem'[g] = x
        BY <1>0
    <2>3. QED
        BY <1>0, <2>1, <2>2 DEF Pages, Isolation
<1>4. QED
    BY <1>1, <1>2, <1>3 DEF Pages

LEMMA PagesGive ==
    ASSUME TypeOK, Pages, NEW p \in Proc, NEW v \in VA, pt[p][v].V, kfree(pt[p][v].a),
           ~pt'[p][v].V, SameBut(p, v), UNCHANGED user
    PROVE  /\ Owners'
           /\ \A q \in Proc, w \in VA : pt'[q][w].V => mem'[pt'[q][w].a] = mem[pt[q][w].a] /\ pt[q][w].V
<1> DEFINE g == pt[p][v].a
<1>0. /\ g \in Page \ Unused /\ mem \in [Page -> Data] /\ mem' = [mem EXCEPT ![g] = Junk]
      /\ \A q \in Proc, w \in VA : q # p \/ w # v =>
            pt'[q][w] = pt[q][w] /\ (pt[q][w].V => pt[q][w].a \in Page \ (Unused \cup {g}))
    BY DEF Pages, Owners, TypeOK, SameBut, kfree
<1>1. /\ Unused' = Unused \cup {g}
      /\ \A i, j \in 1 .. Len(freep') : freep'[i] = freep'[j] => i = j
    BY <1>0, Kfree DEF Pages
<1>2. \A q \in Proc, w \in VA : pt'[q][w].V => pt'[q][w].a \in Page \ Unused'
    BY <1>0, <1>1
<1>3. \A q, r \in Proc : \A w, u \in VA :
          pt'[q][w].V /\ pt'[r][u].V /\ pt'[q][w].a = pt'[r][u].a => q = r /\ w = u
    BY <1>0 DEF Pages, Owners
<1>4. ASSUME NEW h \in Page, h \notin Unused'
      PROVE  \E q \in Proc, w \in VA : pt'[q][w].V /\ pt'[q][w].a = h
    <2>1. h # g
        BY <1>1, <1>4
    <2>2. PICK q \in Proc, w \in VA : pt[q][w].V /\ pt[q][w].a = h
        BY <1>1, <1>4, <2>1 DEF Pages, Owners
    <2>3. pt'[q][w] = pt[q][w]
        BY <1>0, <2>1, <2>2
    <2>4. QED
        BY <2>2, <2>3
<1>5. Owners'
    BY <1>1, <1>2, <1>3, <1>4 DEF Owners
<1>6. QED
    BY <1>0, <1>5

LEMMA PagesFree ==
    ASSUME TypeOK, Pages, NEW p \in Proc, NEW v \in VA, pt[p][v].V, kfree(pt[p][v].a),
           pt'[p][v] = NoPte, SameBut(p, v), UNCHANGED <<blkVars, user>>
    PROVE  Pages'
<1>0. ~pt'[p][v].V /\ ~pt'[p][v].S /\ UNCHANGED <<freeb, swap>>
    BY DEF NoPte, blkVars
<1>1. /\ Owners'
      /\ \A q \in Proc, w \in VA : pt'[q][w].V => mem'[pt'[q][w].a] = mem[pt[q][w].a] /\ pt[q][w].V
    BY <1>0, PagesGive
<1>2. SwapOwnership'
    BY <1>0 DEF Pages, SwapOwnership, SameBut
<1>3. Isolation'
    BY <1>0, <1>1 DEF Pages, Isolation, SameBut
<1>4. QED
    BY <1>1, <1>2, <1>3 DEF Pages

LEMMA PagesSwap ==
    ASSUME TypeOK, Pages, NEW p \in Proc, NEW v \in VA, NEW b \in freeb, pt[p][v].V,
           swap_page_from_pte(p, v, b), UNCHANGED user
    PROVE  Pages'
<1>0. /\ pt \in [Proc -> [VA -> Pte]] /\ swap \in [Blk -> Data] /\ b \in Blk
      /\ freeb' = freeb \ {b} /\ swap' = [swap EXCEPT ![b] = mem[pt[p][v].a]]
      /\ pt' = [pt EXCEPT ![p][v].V = FALSE, ![p][v].S = TRUE, ![p][v].a = b] /\ kfree(pt[p][v].a)
    BY DEF TypeOK, swap_page_from_pte
<1>1. ~pt'[p][v].V /\ pt'[p][v].S /\ pt'[p][v].a = b /\ SameBut(p, v)
    BY <1>0 DEF SameBut, Pte
<1>2. /\ Owners'
      /\ \A q \in Proc, w \in VA : pt'[q][w].V => mem'[pt'[q][w].a] = mem[pt[q][w].a] /\ pt[q][w].V
    BY <1>0, <1>1, PagesGive
<1>9. swap \in [Blk -> Data] /\ b \in Blk /\ freeb' = freeb \ {b} /\ swap' = [swap EXCEPT ![b] = mem[pt[p][v].a]]
    BY <1>0
<1>3. SwapOwnership'
    BY <1>1, <1>9 DEF Pages, SwapOwnership, SameBut
<1>4. \A q \in Proc, w \in VA : (q # p \/ w # v) /\ pt'[q][w].S =>
          swap'[pt'[q][w].a] = swap[pt[q][w].a] /\ pt[q][w].S
    BY <1>1, <1>9 DEF Pages, SwapOwnership, SameBut
<1>5. swap'[b] = mem[pt[p][v].a]
    BY <1>0
<1>6. ASSUME NEW q \in Proc, NEW w \in VA
      PROVE  /\ pt'[q][w].V => mem'[pt'[q][w].a] \in {user'[q][w], Zero}
             /\ pt'[q][w].S => swap'[pt'[q][w].a] \in {user'[q][w], Zero}
    <2>1. CASE q = p /\ w = v
        BY <1>1, <1>5, <2>1 DEF Pages, Isolation
    <2>2. CASE q # p \/ w # v
        BY <1>2, <1>4, <2>2 DEF Pages, Isolation
    <2>3. QED
        BY <2>1, <2>2
<1>7. Isolation'
    BY <1>6 DEF Isolation
<1>8. QED
    BY <1>2, <1>3, <1>7 DEF Pages

\* Pages and blocks stay where they are.
LEMMA PagesKeep ==
    ASSUME Pages, UNCHANGED <<memVars, blkVars, user>>,
           \A q \in Proc, w \in VA : /\ pt'[q][w].V <=> pt[q][w].V
                                     /\ pt'[q][w].S <=> pt[q][w].S
                                     /\ pt'[q][w].a = pt[q][w].a
    PROVE  Pages'
<1>1. Owners'
    BY DEF Pages, Owners, Unused, memVars
<1>2. SwapOwnership' /\ Isolation'
    BY DEF Pages, SwapOwnership, Isolation, memVars, blkVars
<1>3. QED
    BY <1>1, <1>2 DEF Pages

\* A page table without pages in memory is dropped, with what it had in swap space.
LEMMA PagesDrop ==
    ASSUME Pages, NEW p \in Proc, \A w \in VA : ~pt[p][w].V, UNCHANGED <<memVars, blkVars>>,
           \A w \in VA : ~pt'[p][w].V /\ ~pt'[p][w].S,
           \A q \in Proc \ {p}, w \in VA : pt'[q][w] = pt[q][w] /\ user'[q][w] = user[q][w]
    PROVE  Pages'
<1>1. Owners'
    <2>1. \A q \in Proc, w \in VA : pt[q][w].V \/ pt'[q][w].V => pt'[q][w] = pt[q][w]
        OBVIOUS
    <2>2. Unused' = Unused
        BY DEF Unused, memVars
    <2>3. \A q \in Proc, w \in VA : pt'[q][w].V => pt'[q][w].a \in Page \ Unused'
        BY <2>1, <2>2 DEF Pages, Owners
    <2>4. \A g \in Page : g \in Unused' \/ \E q \in Proc, w \in VA : pt'[q][w].V /\ pt'[q][w].a = g
        BY <2>1, <2>2 DEF Pages, Owners
    <2>5. \A q, r \in Proc : \A w, u \in VA :
              pt'[q][w].V /\ pt'[r][u].V /\ pt'[q][w].a = pt'[r][u].a => q = r /\ w = u
        BY <2>1 DEF Pages, Owners
    <2>6. \A i, j \in 1 .. Len(freep') : freep'[i] = freep'[j] => i = j
        BY DEF Pages, Owners, memVars
    <2>7. QED
        BY <2>3, <2>4, <2>5, <2>6 DEF Owners
<1>2. SwapOwnership' /\ Isolation'
    BY DEF Pages, SwapOwnership, Isolation, memVars, blkVars
<1>3. QED
    BY <1>1, <1>2 DEF Pages

LEMMA PagesStore ==
    ASSUME TypeOK, Pages, NEW p \in Proc, NEW v \in VA, NEW x \in Val, store(p, v, x)
    PROVE  Pages'
<1>0. /\ mem \in [Page -> Data] /\ user \in [Proc -> [VA -> Data]] /\ pt[p][v].V
      /\ mem' = [mem EXCEPT ![pt[p][v].a] = x] /\ user' = [user EXCEPT ![p][v] = x]
      /\ UNCHANGED <<pt, freep, freeb, swap>>
    BY DEF TypeOK, store, blkVars
<1>1. Owners' /\ SwapOwnership'
    <2>1. Unused' = Unused
        BY <1>0 DEF Unused
    <2>2. Owners'
        BY <1>0, <2>1 DEF Pages, Owners
    <2>3. SwapOwnership'
        BY <1>0 DEF Pages, SwapOwnership
    <2>4. QED
        BY <2>2, <2>3
<1>2. pt[p][v].a \in Page /\ ~pt[p][v].S
    BY <1>0 DEF Pages, Owners, SwapOwnership
<1>3. \A q \in Proc, w \in VA : q # p \/ w # v =>
          user'[q][w] = user[q][w] /\ (pt[q][w].V => mem'[pt[q][w].a] = mem[pt[q][w].a])
    BY <1>0, <1>2 DEF Pages, Owners
<1>4. mem'[pt[p][v].a] = x /\ user'[p][v] = x
    BY <1>0, <1>2
<1>5. Isolation'
    BY <1>0, <1>2, <1>3, <1>4 DEF Pages, Isolation
<1>6. QED
    BY <1>1, <1>5 DEF Pages
-----------------------------------------------------------------------------
(* The steps.                                                              *)

LEMMA PtAt ==
    ASSUME TypeOK, NEW p \in Proc, NEW v \in VA, NEW e, pt' = [pt EXCEPT ![p][v] = e]
    PROVE  pt'[p][v] = e /\ SameBut(p, v) /\ \A q \in Proc \ {p} : pt'[q] = pt[q]
<1>1. pt' = [pt EXCEPT ![p] = [pt[p] EXCEPT ![v] = e]]
    OBVIOUS
<1>2. pt \in [Proc -> [VA -> Pte]]
    BY DEF TypeOK
<1>3. /\ \A q \in Proc \ {p} : pt'[q] = pt[q]
      /\ pt'[p] = [pt[p] EXCEPT ![v] = e]
    BY <1>1, <1>2
<1>4. pt'[p][v] = e /\ \A w \in VA \ {v} : pt'[p][w] = pt[p][w]
    BY <1>2, <1>3
<1>5. QED
    BY <1>3, <1>4 DEF SameBut

\* uvmunmap() with do_free.
LEMMA PagesUnmap ==
    ASSUME TypeOK, Pages, NEW p \in Proc, NEW v \in VA, uvmunmap(p, v), UNCHANGED <<blkVars, user>>
    PROVE  /\ Pages'
           /\ SameBut(p, v) /\ ~pt'[p][v].V
           /\ pt'[p][v] = pt[p][v] \/ pt'[p][v] = NoPte
           /\ \A q \in Proc \ {p} : pt'[q] = pt[q]
<1>1. CASE (pt[p][v].S \/ ~pt[p][v].V) /\ UNCHANGED <<pt, memVars>>
    <2>1. ~pt[p][v].V
        BY <1>1 DEF Pages, SwapOwnership
    <2>2. Pages'
        BY <1>1, PagesKeep
    <2>3. QED
        BY <1>1, <2>1, <2>2 DEF SameBut
<1>2. CASE ~pt[p][v].S /\ pt[p][v].V /\ kfree(pt[p][v].a) /\ pt' = [pt EXCEPT ![p][v] = NoPte]
    <2>1. pt'[p][v] = NoPte /\ SameBut(p, v) /\ \A q \in Proc \ {p} : pt'[q] = pt[q]
        BY <1>2, PtAt
    <2>2. Pages'
        BY <1>2, <2>1, PagesFree
    <2>3. QED
        BY <2>1, <2>2 DEF NoPte
<1>3. QED
    BY <1>1, <1>2 DEF uvmunmap

\* A cleared page is mapped, the step of page faults, sbrk() and madvise().
LEMMA PagesZero ==
    ASSUME TypeOK, Pages, NEW p \in Proc, NEW v \in VA, NEW g \in Page, ~pt[p][v].V, kalloc(g),
           mem' = [mem EXCEPT ![g] = Zero], pt' = [pt EXCEPT ![p][v] = MapTo(g)], UNCHANGED blkVars,
           UNCHANGED user \/ user' = [user EXCEPT ![p][v] = Zero]
    PROVE  /\ Pages' /\ SameBut(p, v) /\ pt'[p][v].V
           /\ \A q \in Proc \ {p} : pt'[q] = pt[q]
<1>1. pt'[p][v] = MapTo(g) /\ SameBut(p, v) /\ \A q \in Proc \ {p} : pt'[q] = pt[q]
    BY PtAt
<1>2. pt'[p][v].V /\ ~pt'[p][v].S /\ pt'[p][v].a = g
    BY <1>1 DEF MapTo
<1>3. \A q \in Proc, w \in VA : q # p \/ w # v => user'[q][w] = user[q][w]
    BY DEF TypeOK
<1>4. Pages'
    BY <1>1, <1>2, <1>3, PagesMap
<1>5. QED
    BY <1>1, <1>2, <1>4

LEMMA Types ==
    ASSUME TypeOK
    PROVE  /\ pt \in [Proc -> [VA -> Pte]] /\ sz \in [Proc -> 0 .. MaxPages] /\ job \in [Proc -> Job]
           /\ user \in [Proc -> [VA -> Data]] /\ mem \in [Page -> Data] /\ child \in [Proc -> Proc \cup {Nil}]
           /\ MaxPages \in Nat /\ \A i \in Int : i \in VA <=> 0 <= i /\ i < MaxPages
           /\ \A q \in Proc : /\ sz[q] \in Int /\ 0 <= sz[q] /\ sz[q] <= MaxPages
                              /\ job[q].va \in Int /\ 0 <= job[q].va /\ job[q].va <= MaxPages
                              /\ job[q].last \in Int /\ -1 <= job[q].last /\ job[q].last < MaxPages
           /\ \A q \in Proc, w \in VA : pt[q][w] \in Pte
<1>1. \A q \in Proc : sz[q] \in 0 .. MaxPages /\ job[q].va \in 0 .. MaxPages /\ job[q].last \in -1 .. MaxPages - 1
    BY DEF TypeOK, Job
<1>2. QED
    BY <1>1 DEF TypeOK, VA

LEMMA PagesStep ==
    ASSUME TypeOK, Pages, Families, Spaces, [Next]_vars
    PROVE  Pages'
<1> USE DEF Doing, Step, panic
<1>0. /\ pt \in [Proc -> [VA -> Pte]] /\ sz \in [Proc -> 0 .. MaxPages] /\ job \in [Proc -> Job]
      /\ user \in [Proc -> [VA -> Data]] /\ mem \in [Page -> Data] /\ child \in [Proc -> Proc \cup {Nil}]
      /\ MaxPages \in Nat /\ \A i \in Int : i \in VA <=> 0 <= i /\ i < MaxPages
      /\ \A q \in Proc : /\ sz[q] \in Int /\ 0 <= sz[q] /\ sz[q] <= MaxPages
                         /\ job[q].va \in Int /\ 0 <= job[q].va /\ job[q].va <= MaxPages
                         /\ job[q].last \in Int /\ -1 <= job[q].last /\ job[q].last < MaxPages
      /\ \A q \in Proc, w \in VA : pt[q][w] \in Pte
    BY Types
<1>1. CASE UNCHANGED vars
    BY <1>1, PagesKeep DEF vars, memVars, blkVars
<1>2. ASSUME NEW p \in Proc, NEW v \in VA, NEW x \in Val, store(p, v, x) PROVE Pages'
    BY <1>2, PagesStore
<1>3. ASSUME NEW p \in Proc, NEW v \in VA, handle_pgfault(p, v) PROVE Pages'
    <2>0. ~(pt[p][v].V /\ pt[p][v].U)
        BY <1>3 DEF handle_pgfault
    <2>1. CASE UNCHANGED <<pt, memVars, blkVars, user>>
        BY <2>1, PagesKeep
    <2>2. CASE ~pt[p][v].V /\ freep # <<>> /\ ~UNCHANGED <<pt, memVars, blkVars, user>>
        <3>1. PICK g \in Page : /\ kalloc(g) /\ mem' = [mem EXCEPT ![g] = Zero]
                                /\ pt' = [pt EXCEPT ![p][v] = MapTo(g)]
            BY <1>3, <2>0, <2>2 DEF handle_pgfault
        <3>2. UNCHANGED blkVars /\ (UNCHANGED user \/ user' = [user EXCEPT ![p][v] = Zero])
            BY <1>3, <2>0 DEF handle_pgfault
        <3>3. QED
            BY <2>2, <3>1, <3>2, PagesZero
    <2>3. QED
        BY <1>3, <2>1, <2>2 DEF handle_pgfault, kalloc
<1>4. ASSUME NEW p \in Proc, sbrk_grow(p) PROVE Pages'
    <2>a. sz[p] < MaxPages
        BY <1>4 DEF sbrk_grow
    <2>0. PICK v \in VA : v = sz[p]
        BY <1>0, <2>a
    <2>1. CASE UNCHANGED <<pt, memVars, blkVars, user>>
        BY <2>1, PagesKeep
    <2>2. CASE ~pt[p][v].V /\ ~UNCHANGED <<pt, memVars, blkVars, user>>
        <3>1. PICK g \in Page : /\ kalloc(g) /\ mem' = [mem EXCEPT ![g] = Zero]
                                /\ pt' = [pt EXCEPT ![p][v] = MapTo(g)]
            BY <1>4, <2>0, <2>2 DEF sbrk_grow
        <3>2. UNCHANGED blkVars /\ (UNCHANGED user \/ user' = [user EXCEPT ![p][v] = Zero])
            BY <1>4, <2>0 DEF sbrk_grow
        <3>3. QED
            BY <2>2, <3>1, <3>2, PagesZero
    <2>3. QED
        BY <1>4, <2>0, <2>1, <2>2 DEF sbrk_grow
<1>5. ASSUME NEW p \in Proc, sbrk_shrink(p) PROVE Pages'
    BY <1>5, PagesKeep DEF sbrk_shrink
<1>6. ASSUME NEW p \in Proc, shrink_page(p) PROVE Pages'
    <2>1. job[p].va = sz[p] - 1
        BY <1>6 DEF shrink_page, Spaces, Space
    <2>2. job[p].va \in VA
        BY <1>0, <2>1
    <2>3. QED
        BY <1>6, <2>2, PagesUnmap DEF shrink_page
<1>7. ASSUME NEW p \in Proc, NEW b \in VA, NEW l \in VA, NEW a \in Advice, madvise(p, b, l, a) PROVE Pages'
    BY <1>7, PagesKeep DEF madvise
<1>8. ASSUME NEW p \in Proc, willneed_page(p) PROVE Pages'
    <2>a. job[p].va <= job[p].last
        BY <1>8 DEF willneed_page
    <2>0. PICK v \in VA : v = job[p].va
        BY <1>0, <2>a
    <2>1. CASE UNCHANGED <<pt, memVars, blkVars, user>>
        BY <2>1, PagesKeep
    <2>2. CASE ~pt[p][v].V /\ ~UNCHANGED <<pt, memVars, blkVars, user>>
        <3>1. PICK g \in Page : /\ kalloc(g) /\ mem' = [mem EXCEPT ![g] = Zero]
                                /\ pt' = [pt EXCEPT ![p][v] = MapTo(g)]
            BY <1>8, <2>0, <2>2 DEF willneed_page
        <3>2. UNCHANGED blkVars /\ (UNCHANGED user \/ user' = [user EXCEPT ![p][v] = Zero])
            BY <1>8, <2>0 DEF willneed_page
        <3>3. QED
            BY <2>2, <3>1, <3>2, PagesZero
    <2>3. QED
        BY <1>8, <2>0, <2>1, <2>2 DEF willneed_page
<1>9. ASSUME NEW p \in Proc, dontneed_page(p) PROVE Pages'
    <2>a. job[p].va <= job[p].last
        BY <1>9 DEF dontneed_page
    <2>0. PICK v \in VA : v = job[p].va
        BY <1>0, <2>a
    <2>1. CASE UNCHANGED <<pt, memVars, blkVars, user>>
        BY <2>1, PagesKeep
    <2>2. CASE pt[p][v].V /\ \E b \in freeb : swap_page_from_pte(p, v, b)
        BY <1>9, <2>2, PagesSwap DEF dontneed_page
    <2>3. QED
        BY <1>9, <2>0, <2>1, <2>2 DEF dontneed_page
<1>10. ASSUME NEW p \in Proc, pin_page(p) PROVE Pages'
    <2>a. job[p].va <= job[p].last
        BY <1>10 DEF pin_page
    <2>0. PICK v \in VA : v = job[p].va
        BY <1>0, <2>a
    <2>1. pt' = [pt EXCEPT ![p][v].P = (job[p].op = "pin")] /\ UNCHANGED <<memVars, blkVars, user>>
        BY <1>10, <2>0 DEF pin_page
    <2>2. \A q \in Proc, w \in VA : /\ pt'[q][w].V <=> pt[q][w].V
                                    /\ pt'[q][w].S <=> pt[q][w].S
                                    /\ pt'[q][w].a = pt[q][w].a
        BY <1>0, <2>1 DEF Pte
    <2>3. QED
        BY <2>1, <2>2, PagesKeep
<1>11. ASSUME NEW p \in Proc, madvise_return(p) PROVE Pages'
    BY <1>11, PagesKeep DEF madvise_return
<1>12. ASSUME NEW p \in Proc, NEW c \in Proc, fork(p, c) PROVE Pages'
    BY <1>12, PagesKeep DEF fork
<1>13. ASSUME NEW p \in Proc, uvmcopy_page(p) PROVE Pages'
    <2>a. job[p].va <= job[p].last
        BY <1>13 DEF uvmcopy_page
    <2>0. PICK v \in VA : v = job[p].va
        BY <1>0, <2>a
    <2>b. job[p].op = "fork"
        BY <1>13 DEF uvmcopy_page
    <2>c. PICK c \in Proc : c = child[p]
        BY <2>b DEF Families, Family
    <2>1. CASE UNCHANGED <<pt, memVars, blkVars, user>>
        BY <2>1, PagesKeep
    <2>2. CASE pt[p][v].V /\ ~UNCHANGED <<pt, memVars, blkVars, user>>
        <3>1. PICK g \in Page : /\ kalloc(g) /\ mem' = [mem EXCEPT ![g] = mem[pt[p][v].a]]
                                /\ pt' = [pt EXCEPT ![c][v] = [pt[p][v] EXCEPT !.a = g]]
            BY <1>13, <2>0, <2>c, <2>2 DEF uvmcopy_page
        <3>2. PICK e : e = [pt[p][v] EXCEPT !.a = g]
            OBVIOUS
        <3>12. pt' = [pt EXCEPT ![c][v] = e]
            BY <3>1, <3>2
        <3>3. pt'[c][v] = e /\ SameBut(c, v)
            <4>1. pt \in [Proc -> [VA -> Pte]] /\ pt' = [pt EXCEPT ![c] = [pt[c] EXCEPT ![v] = e]]
                BY <1>0, <3>12
            <4>2. pt'[c] = [pt[c] EXCEPT ![v] = e] /\ \A q \in Proc \ {c} : pt'[q] = pt[q]
                BY <4>1
            <4>3. pt'[c][v] = e /\ \A w \in VA \ {v} : pt'[c][w] = pt[c][w]
                BY <4>1, <4>2
            <4>4. QED
                BY <4>2, <4>3 DEF SameBut
        <3>4. pt[p][v] \in Pte /\ ~pt[p][v].S
            BY <1>0, <2>2 DEF Pages, SwapOwnership
        <3>5. e.V /\ ~e.S /\ e.a = g
            BY <2>2, <3>2, <3>4 DEF Pte
        <3>6. ~(v < job[p].va)
            BY <1>0, <2>0
        <3>7. ~pt[c][v].V
            BY <2>b, <2>c, <3>6 DEF Families, Family
        <3>8. user' = [user EXCEPT ![c][v] = user[p][v]] /\ UNCHANGED blkVars
            BY <1>13, <2>0, <2>c, <2>2 DEF uvmcopy_page
        <3>9. user'[c][v] = user[p][v] /\ \A q \in Proc, w \in VA : q # c \/ w # v => user'[q][w] = user[q][w]
            BY <1>0, <3>8
        <3>10. mem[pt[p][v].a] \in {user'[c][v], Zero}
            BY <2>2, <3>9 DEF Pages, Isolation
        <3>11. QED
            BY <3>1, <3>3, <3>5, <3>7, <3>8, <3>9, <3>10, PagesMap
    <2>3. QED
        BY <1>13, <2>0, <2>c, <2>1, <2>2 DEF uvmcopy_page
<1>14. ASSUME NEW p \in Proc, fork_return(p) PROVE Pages'
    BY <1>14, PagesKeep DEF fork_return
<1>15. ASSUME NEW p \in Proc, unfork_page(p) PROVE Pages'
    <2>1. job[p].va <= job[p].last /\ job[p].op = "unfork"
        BY <1>15 DEF unfork_page
    <2>2. job[p].va \in VA
        BY <1>0, <2>1
    <2>3. child[p] \in Proc
        BY <2>1 DEF Families, Family
    <2>4. QED
        BY <1>15, <2>2, <2>3, PagesUnmap DEF unfork_page
<1>16. ASSUME NEW p \in Proc, unfork_return(p) PROVE Pages'
    <2>1. job[p].op = "unfork" /\ job[p].va > job[p].last
        BY <1>16 DEF unfork_return
    <2>2. PICK c \in Proc : c = child[p] /\ \A v \in VA : pt[c][v].V => v \in job[p].va .. job[p].last
        BY <2>1 DEF Families, Family
    <2>3. \A v \in VA : ~pt[c][v].V
        BY <1>0, <2>1, <2>2
    <2>4. /\ pt' = [pt EXCEPT ![c] = [v \in VA |-> NoPte]] /\ UNCHANGED <<memVars, blkVars>>
          /\ user' = [user EXCEPT ![c] = [v \in VA |-> Zero]]
        BY <1>16, <2>2 DEF unfork_return
    <2>5. \A q \in Proc \ {c}, w \in VA : pt'[q][w] = pt[q][w] /\ user'[q][w] = user[q][w]
        BY <1>0, <2>4
    <2>6. \A w \in VA : ~pt'[c][w].V /\ ~pt'[c][w].S
        BY <1>0, <2>4 DEF NoPte
    <2>7. QED
        BY <2>3, <2>4, <2>5, <2>6, PagesDrop
<1>17. ASSUME NEW p \in Proc, exit(p) PROVE Pages'
    BY <1>17, PagesKeep DEF exit
<1>18. ASSUME NEW p \in Proc, exit_page(p) PROVE Pages'
    <2>1. job[p].va <= job[p].last
        BY <1>18 DEF exit_page
    <2>2. job[p].va \in VA
        BY <1>0, <2>1
    <2>3. QED
        BY <1>18, <2>2, PagesUnmap DEF exit_page
<1>19. ASSUME NEW p \in Proc, freewalk(p) PROVE Pages'
    <2>1. CASE UNCHANGED <<pt, memVars, blkVars, user>>
        BY <2>1, PagesKeep
    <2>2. CASE ~UNCHANGED <<pt, memVars, blkVars, user>>
        <3>1. /\ pt' = [pt EXCEPT ![p] = [v \in VA |-> NoPte]] /\ UNCHANGED <<memVars, blkVars>>
              /\ user' = [user EXCEPT ![p] = [v \in VA |-> Zero]] /\ \A v \in VA : ~pt[p][v].V
            BY <1>19, <2>2 DEF freewalk
        <3>2. \A q \in Proc \ {p}, w \in VA : pt'[q][w] = pt[q][w] /\ user'[q][w] = user[q][w]
            BY <1>0, <3>1
        <3>3. \A w \in VA : ~pt'[p][w].V /\ ~pt'[p][w].S
            BY <1>0, <3>1 DEF NoPte
        <3>4. QED
            BY <3>1, <3>2, <3>3, PagesDrop
    <2>3. QED
        BY <2>1, <2>2
<1>20. QED
    BY <1>1, <1>2, <1>3, <1>4, <1>5, <1>6, <1>7, <1>8, <1>9, <1>10,
       <1>11, <1>12, <1>13, <1>14, <1>15, <1>16, <1>17, <1>18, <1>19 DEF Next, halted
-----------------------------------------------------------------------------
(* Families and spaces: what a step does to the pages of one process, as   *)
(* far as they need to know it.                                            *)

\* Mapping a cleared page at v changes that pte and no other.
LEMMA OneZero ==
    ASSUME TypeOK, NEW p \in Proc, NEW v \in VA, NEW g \in Page, pt' = [pt EXCEPT ![p][v] = MapTo(g)]
    PROVE  /\ \A q \in Proc \ {p} : pt'[q] = pt[q]
           /\ \A w \in VA : w # v => pt'[p][w] = pt[p][w]
           /\ pt'[p][v].V
BY DEF TypeOK, MapTo

\* Where nothing leaves the memory of p, and p is not a child that fork() fills.
LEMMA PtGrows ==
    ASSUME TypeOK, Pages, NEW p \in Proc,
           \/ \E v \in VA : handle_pgfault(p, v)
           \/ sbrk_grow(p) \/ willneed_page(p) \/ dontneed_page(p) \/ pin_page(p)
    PROVE  /\ \A q \in Proc \ {p} : pt'[q] = pt[q]
           /\ \A w \in VA : pt[p][w].V \/ pt[p][w].S => pt'[p][w].V \/ pt'[p][w].S
<1> USE DEF Doing, Step, panic
<1>0. /\ pt \in [Proc -> [VA -> Pte]] /\ sz \in [Proc -> 0 .. MaxPages] /\ job \in [Proc -> Job]
      /\ user \in [Proc -> [VA -> Data]] /\ mem \in [Page -> Data] /\ child \in [Proc -> Proc \cup {Nil}]
      /\ MaxPages \in Nat /\ \A i \in Int : i \in VA <=> 0 <= i /\ i < MaxPages
      /\ \A q \in Proc : /\ sz[q] \in Int /\ 0 <= sz[q] /\ sz[q] <= MaxPages
                         /\ job[q].va \in Int /\ 0 <= job[q].va /\ job[q].va <= MaxPages
                         /\ job[q].last \in Int /\ -1 <= job[q].last /\ job[q].last < MaxPages
      /\ \A q \in Proc, w \in VA : pt[q][w] \in Pte
    BY Types
<1>1. ASSUME NEW v \in VA, handle_pgfault(p, v)
      PROVE  UNCHANGED pt \/ \E g \in Page : pt' = [pt EXCEPT ![p][v] = MapTo(g)]
    BY <1>1 DEF handle_pgfault
<1>2. CASE sbrk_grow(p)
    <2>1. sz[p] < MaxPages /\ (UNCHANGED pt \/ \E g \in Page : pt' = [pt EXCEPT ![p][sz[p]] = MapTo(g)])
        BY <1>2 DEF sbrk_grow
    <2>2. sz[p] \in VA
        BY <1>0, <2>1
    <2>3. QED
        BY <2>1, <2>2, OneZero
<1>3. CASE willneed_page(p)
    <2>1. /\ job[p].va <= job[p].last
          /\ UNCHANGED pt \/ \E g \in Page : pt' = [pt EXCEPT ![p][job[p].va] = MapTo(g)]
        BY <1>3 DEF willneed_page
    <2>2. job[p].va \in VA
        BY <1>0, <2>1
    <2>3. QED
        BY <2>1, <2>2, OneZero
<1>4. CASE dontneed_page(p)
    <2>1. job[p].va <= job[p].last /\ (UNCHANGED pt \/ \E b \in freeb : swap_page_from_pte(p, job[p].va, b))
        BY <1>4 DEF dontneed_page
    <2>2. PICK v \in VA : v = job[p].va
        BY <1>0, <2>1
    <2>3. UNCHANGED pt \/ \E b \in freeb : pt' = [pt EXCEPT ![p][v].V = FALSE, ![p][v].S = TRUE, ![p][v].a = b]
        BY <2>1, <2>2 DEF swap_page_from_pte
    <2>4. ASSUME NEW b \in freeb, pt' = [pt EXCEPT ![p][v].V = FALSE, ![p][v].S = TRUE, ![p][v].a = b]
          PROVE  /\ \A q \in Proc \ {p} : pt'[q] = pt[q]
                 /\ \A w \in VA : w # v => pt'[p][w] = pt[p][w]
                 /\ pt'[p][v].S
        BY <1>0, <2>4 DEF Pte
    <2>5. QED
        BY <2>3, <2>4
<1>5. CASE pin_page(p)
    <2>1. job[p].va <= job[p].last /\ pt' = [pt EXCEPT ![p][job[p].va].P = (job[p].op = "pin")]
        BY <1>5 DEF pin_page
    <2>2. PICK v \in VA : v = job[p].va
        BY <1>0, <2>1
    <2>3. pt' = [pt EXCEPT ![p][v].P = (job[p].op = "pin")]
        BY <2>1, <2>2
    <2>4. QED
        BY <1>0, <2>3 DEF Pte
<1>6. QED
    BY <1>1, <1>2, <1>3, <1>4, <1>5, OneZero

\* uvmunmap() as far as Families and Spaces go.
LEMMA PtLoses ==
    ASSUME TypeOK, Pages, NEW p \in Proc, NEW v \in VA, uvmunmap(p, v)
    PROVE  /\ \A q \in Proc \ {p} : pt'[q] = pt[q]
           /\ \A w \in VA : w # v => pt'[p][w] = pt[p][w]
           /\ ~pt'[p][v].V
<1>1. CASE (pt[p][v].S \/ ~pt[p][v].V) /\ UNCHANGED pt
    BY <1>1 DEF Pages, SwapOwnership
<1>2. CASE pt' = [pt EXCEPT ![p][v] = NoPte]
    BY <1>2 DEF TypeOK, NoPte
<1>3. QED
    BY <1>1, <1>2 DEF uvmunmap

Kin == {"unused", "embryo", "fork", "unfork"}

\* The child of a fork() is nobody else's, and in no fork() of its own.
LEMMA Child ==
    ASSUME Families, NEW p \in Proc, job[p].op \in {"fork", "unfork"}
    PROVE  /\ child[p] \in Proc \ {p} /\ job[child[p]].op = "embryo"
           /\ \A q \in Proc \ {p} : job[q].op \in {"fork", "unfork"} =>
                 child[q] \in Proc \ {p, child[p]} /\ child[q] # q /\ job[child[q]].op = "embryo"
BY DEF Families, Family

\* Whoever has no part in a step keeps its family.
LEMMA FamilyKept ==
    ASSUME NEW q \in Proc, Family(q), job'[q] = job[q],
           job[q].op = "unused" => pt'[q] = pt[q],
           job[q].op \in {"fork", "unfork"} =>
               /\ child'[q] = child[q]
               /\ pt'[child[q]] = pt[child[q]] /\ job'[child[q]].op = job[child[q]].op
               /\ \A r \in Proc \ {q} : job'[r].op \in {"fork", "unfork"} => child'[r] # child[q]
    PROVE  Family(q)'
BY DEF Family

\* Steps of a process that is neither in fork() nor the child of a fork().
LEMMA FamiliesKept ==
    ASSUME Families, NEW p \in Proc, job[p].op \notin Kin, job'[p].op \notin Kin \ {"unused"},
           job'[p].op = "unused" => \A v \in VA : ~pt'[p][v].V /\ ~pt'[p][v].S,
           \A q \in Proc \ {p} : pt'[q] = pt[q] /\ job'[q] = job[q], UNCHANGED child
    PROVE  Families'
<1>1. ASSUME NEW q \in Proc \ {p} PROVE Family(q)'
    <2>1. Family(q)
        BY DEF Families
    <2>2. job[q].op \in {"fork", "unfork"} =>
              /\ child[q] \in Proc \ {p}
              /\ \A r \in Proc \ {q} : job'[r].op \in {"fork", "unfork"} => child'[r] # child[q]
        BY <2>1 DEF Family, Kin
    <2>3. QED
        BY <2>1, <2>2, FamilyKept
<1>2. Family(p)'
    BY DEF Family, Kin
<1>3. QED
    BY <1>1, <1>2 DEF Families

LEMMA JobAt ==
    ASSUME TypeOK, NEW p \in Proc
    PROVE  /\ Step(p) => /\ job'[p].op = job[p].op /\ job'[p].last = job[p].last
                         /\ job'[p].va = job[p].va + 1
                         /\ \A q \in Proc \ {p} : job'[q] = job[q]
BY DEF TypeOK, Step, Job

\* Processes a step does not touch keep their space.
LEMMA SpaceKept ==
    ASSUME NEW q \in Proc, Space(q), job'[q] = job[q], sz'[q] = sz[q], pt'[q] = pt[q]
    PROVE  Space(q)'
BY DEF Space

LEMMA FamiliesStep ==
    ASSUME TypeOK, Pages, Families, Spaces, [Next]_vars
    PROVE  Families'
<1> USE DEF Doing, panic, NoJob, Dead
<1>0. /\ pt \in [Proc -> [VA -> Pte]] /\ sz \in [Proc -> 0 .. MaxPages] /\ job \in [Proc -> Job]
      /\ user \in [Proc -> [VA -> Data]] /\ mem \in [Page -> Data] /\ child \in [Proc -> Proc \cup {Nil}]
      /\ MaxPages \in Nat /\ \A i \in Int : i \in VA <=> 0 <= i /\ i < MaxPages
      /\ \A q \in Proc : /\ sz[q] \in Int /\ 0 <= sz[q] /\ sz[q] <= MaxPages
                         /\ job[q].va \in Int /\ 0 <= job[q].va /\ job[q].va <= MaxPages
                         /\ job[q].last \in Int /\ -1 <= job[q].last /\ job[q].last < MaxPages
      /\ \A q \in Proc, w \in VA : pt[q][w] \in Pte
    BY Types
<1>1. CASE UNCHANGED vars
    BY <1>1 DEF vars, Families, Family
<1>2. ASSUME NEW p \in Proc, NEW v \in VA, NEW x \in Val, store(p, v, x) PROVE Families'
    BY <1>2 DEF store, Families, Family
<1>3. ASSUME NEW p \in Proc, NEW v \in VA, handle_pgfault(p, v) PROVE Families'
    <2>1. /\ job[p].op \notin Kin /\ job'[p].op \notin Kin /\ UNCHANGED child
          /\ \A q \in Proc \ {p} : job'[q] = job[q]
        BY <1>3, <1>0, JobAt DEF handle_pgfault, Kin
    <2>2. \A q \in Proc \ {p} : pt'[q] = pt[q]
        BY <1>3, PtGrows
    <2>3. QED
        BY <2>1, <2>2, FamiliesKept DEF Kin
<1>4. ASSUME NEW p \in Proc, sbrk_grow(p) PROVE Families'
    <2>1. /\ job[p].op \notin Kin /\ job'[p].op \notin Kin /\ UNCHANGED child
          /\ \A q \in Proc \ {p} : job'[q] = job[q]
        BY <1>4, <1>0, JobAt DEF sbrk_grow, Kin
    <2>2. \A q \in Proc \ {p} : pt'[q] = pt[q]
        BY <1>4, PtGrows
    <2>3. QED
        BY <2>1, <2>2, FamiliesKept DEF Kin
<1>5. ASSUME NEW p \in Proc, sbrk_shrink(p) PROVE Families'
    <2>1. /\ job[p].op \notin Kin /\ job'[p].op \notin Kin /\ UNCHANGED child
          /\ \A q \in Proc \ {p} : job'[q] = job[q]
        BY <1>5, <1>0, JobAt DEF sbrk_shrink, Kin
    <2>2. UNCHANGED pt
        BY <1>5 DEF sbrk_shrink
    <2>3. QED
        BY <2>1, <2>2, FamiliesKept DEF Kin
<1>6. ASSUME NEW p \in Proc, shrink_page(p) PROVE Families'
    <2>1. /\ job[p].op \notin Kin /\ job'[p].op \notin Kin /\ UNCHANGED child
          /\ \A q \in Proc \ {p} : job'[q] = job[q]
        BY <1>6, <1>0, JobAt DEF shrink_page, Kin
    <2>4. job[p].va = sz[p] - 1
        BY <1>6 DEF shrink_page, Spaces, Space
    <2>5. job[p].va \in VA
        BY <1>0, <2>4
    <2>2. \A q \in Proc \ {p} : pt'[q] = pt[q]
        BY <1>6, <2>5, PtLoses DEF shrink_page
    <2>3. QED
        BY <2>1, <2>2, FamiliesKept DEF Kin
<1>7. ASSUME NEW p \in Proc, NEW b \in VA, NEW l \in VA, NEW a \in Advice, madvise(p, b, l, a) PROVE Families'
    <2>1. /\ job[p].op \notin Kin /\ job'[p].op \notin Kin /\ UNCHANGED child
          /\ \A q \in Proc \ {p} : job'[q] = job[q]
        BY <1>7, <1>0, JobAt DEF madvise, Kin
    <2>2. UNCHANGED pt
        BY <1>7 DEF madvise
    <2>3. QED
        BY <2>1, <2>2, FamiliesKept DEF Kin
<1>8. ASSUME NEW p \in Proc, willneed_page(p) PROVE Families'
    <2>0. job[p].op = "willneed" /\ UNCHANGED child /\ (Step(p) \/ job' = [job EXCEPT ![p] = NoJob])
        BY <1>8 DEF willneed_page
    <2>1. job[p].op \notin Kin /\ job'[p].op \notin Kin /\ \A q \in Proc \ {p} : job'[q] = job[q]
        BY <1>0, <2>0, JobAt DEF Kin
    <2>2. \A q \in Proc \ {p} : pt'[q] = pt[q]
        BY <1>8, PtGrows
    <2>3. QED
        BY <2>0, <2>1, <2>2, FamiliesKept DEF Kin
<1>9. ASSUME NEW p \in Proc, dontneed_page(p) PROVE Families'
    <2>1. /\ job[p].op \notin Kin /\ job'[p].op \notin Kin /\ UNCHANGED child
          /\ \A q \in Proc \ {p} : job'[q] = job[q]
        BY <1>9, <1>0, JobAt DEF dontneed_page, Kin
    <2>2. \A q \in Proc \ {p} : pt'[q] = pt[q]
        BY <1>9, PtGrows
    <2>3. QED
        BY <2>1, <2>2, FamiliesKept DEF Kin
<1>10. ASSUME NEW p \in Proc, pin_page(p) PROVE Families'
    <2>1. /\ job[p].op \notin Kin /\ job'[p].op \notin Kin /\ UNCHANGED child
          /\ \A q \in Proc \ {p} : job'[q] = job[q]
        BY <1>10, <1>0, JobAt DEF pin_page, Kin
    <2>2. \A q \in Proc \ {p} : pt'[q] = pt[q]
        BY <1>10, PtGrows
    <2>3. QED
        BY <2>1, <2>2, FamiliesKept DEF Kin
<1>11. ASSUME NEW p \in Proc, madvise_return(p) PROVE Families'
    <2>1. /\ job[p].op \notin Kin /\ job'[p].op \notin Kin /\ UNCHANGED child
          /\ \A q \in Proc \ {p} : job'[q] = job[q]
        BY <1>11, <1>0, JobAt DEF madvise_return, Kin
    <2>2. UNCHANGED pt
        BY <1>11 DEF madvise_return
    <2>3. QED
        BY <2>1, <2>2, FamiliesKept DEF Kin
<1>12. ASSUME NEW p \in Proc, NEW c \in Proc, fork(p, c) PROVE Families'
    <2>1. /\ job[p].op = "user" /\ job[c].op = "unused" /\ UNCHANGED pt /\ child' = [child EXCEPT ![p] = c]
          /\ job' = [job EXCEPT ![p] = [op |-> "fork", va |-> 0, last |-> sz[p] - 1],
                                ![c] = [op |-> "embryo", va |-> 0, last |-> -1]]
        BY <1>12 DEF fork
    <2>2. /\ c # p /\ job'[p].op = "fork" /\ job'[p].va = 0 /\ job'[c].op = "embryo"
          /\ \A q \in Proc \ {p, c} : job'[q] = job[q]
        BY <1>0, <2>1
    <2>3. child'[p] = c /\ \A q \in Proc \ {p} : child'[q] = child[q]
        BY <1>0, <2>1
    <2>4. ASSUME NEW q \in Proc \ {p, c} PROVE Family(q)'
        <3>1. Family(q)
            BY DEF Families
        <3>2. job[q].op \in {"fork", "unfork"} =>
                  child[q] \in Proc \ {p, c} /\ job'[child[q]].op = job[child[q]].op
            BY <2>1, <2>2, <3>1 DEF Family
        <3>3. job[q].op \in {"fork", "unfork"} =>
                  \A r \in Proc \ {q} : job'[r].op \in {"fork", "unfork"} => child'[r] # child[q]
            BY <2>2, <2>3, <3>1, <3>2 DEF Family
        <3>4. QED
            BY <2>1, <2>2, <2>3, <3>1, <3>2, <3>3, FamilyKept
    <2>5. Family(p)'
        <3>1. \A v \in VA : ~(v < 0) /\ ~pt[c][v].V /\ ~pt[c][v].S
            BY <1>0, <2>1 DEF VA, Families, Family
        <3>2. \A q \in Proc \ {p} : job'[q].op \in {"fork", "unfork"} => child'[q] # c
            BY <2>1, <2>2, <2>3 DEF Families, Family
        <3>3. QED
            BY <2>1, <2>2, <2>3, <3>1, <3>2 DEF Family
    <2>6. Family(c)'
        BY <2>2 DEF Family
    <2>7. QED
        BY <2>4, <2>5, <2>6 DEF Families
<1>13. ASSUME NEW p \in Proc, uvmcopy_page(p) PROVE Families'
    <2>1. job[p].op = "fork" /\ panicked = ""
        BY <1>13 DEF uvmcopy_page
    <2>2. PICK c \in Proc : c = child[p] /\ c # p /\ job[c].op = "embryo"
        BY <2>1, Child
    <2>0. \A q \in Proc \ {p} : job[q].op \in {"fork", "unfork"} =>
              child[q] \in Proc \ {p, c} /\ child[q] # q /\ job[child[q]].op = "embryo"
        BY <2>1, <2>2, Child
    <2>3. CASE UNCHANGED <<pt, job, child>>
        BY <2>3 DEF Families, Family
    <2>4. CASE \E g \in Page : /\ pt' = [pt EXCEPT ![c][job[p].va] = [pt[p][job[p].va] EXCEPT !.a = g]]
                               /\ pt[p][job[p].va].V /\ job[p].va <= job[p].last /\ Step(p) /\ UNCHANGED child
        <3>1. job[p].va \in VA
            BY <1>0, <2>4
        <3>2. PICK v \in VA : v = job[p].va
            BY <3>1
        <3>3. PICK g \in Page : pt' = [pt EXCEPT ![c][v] = [pt[p][v] EXCEPT !.a = g]]
            BY <2>4, <3>2
        <3>4. /\ \A q \in Proc \ {c} : pt'[q] = pt[q]
              /\ \A w \in VA : w # v => pt'[c][w] = pt[c][w]
              /\ pt'[c][v] = [pt[p][v] EXCEPT !.a = g]
            BY <1>0, <3>3
        <3>5. pt'[c][v].V
            BY <1>0, <2>4, <3>2, <3>4 DEF Pte
        <3>6. /\ job'[p].op = "fork" /\ job'[p].va = v + 1
              /\ \A q \in Proc \ {p} : job'[q] = job[q]
            BY <2>1, <2>4, <3>2, JobAt
        <3>7. \A w \in VA : IF w < v + 1 THEN pt'[c][w].V ELSE ~pt'[c][w].V /\ ~pt'[c][w].S
            <4>1. ASSUME NEW w \in VA PROVE w < v + 1 <=> w = v \/ w < v
                BY <1>0 DEF VA
            <4>2. \A w \in VA : IF w < v THEN pt[c][w].V ELSE ~pt[c][w].V /\ ~pt[c][w].S
                BY <2>1, <2>2, <3>2 DEF Families, Family
            <4>3. QED
                BY <3>4, <3>5, <4>1, <4>2
        <3>8. ASSUME NEW q \in Proc \ {p, c} PROVE Family(q)'
            <4>1. Family(q) /\ UNCHANGED child
                BY <2>4 DEF Families
            <4>2. job[q].op \in {"fork", "unfork"} =>
                      \A r \in Proc \ {q} : job'[r].op \in {"fork", "unfork"} => child'[r] # child[q]
                BY <2>0, <2>1, <2>2, <3>6, <4>1 DEF Family
            <4>3. QED
                BY <2>0, <3>4, <3>6, <4>1, <4>2, FamilyKept
        <3>9. Family(p)'
            <4>1. c = child'[p] /\ job'[c].op = "embryo"
                BY <2>2, <2>4, <3>6
            <4>2. \A q \in Proc \ {p} : job'[q].op \in {"fork", "unfork"} => child'[q] # c
                BY <2>0, <2>2, <2>4, <3>6
            <4>3. QED
                BY <2>2, <3>6, <3>7, <4>1, <4>2 DEF Family
        <3>10. Family(c)'
            BY <2>2, <3>6 DEF Family
        <3>11. QED
            BY <3>8, <3>9, <3>10 DEF Families
    <2>5. CASE /\ job' = [job EXCEPT ![p] = [op |-> "unfork", va |-> 0, last |-> job[p].va - 1]]
               /\ UNCHANGED <<pt, child>>
        <3>1. /\ job'[p].op = "unfork" /\ job'[p].va = 0 /\ job'[p].last = job[p].va - 1
              /\ \A q \in Proc \ {p} : job'[q] = job[q]
            BY <1>0, <2>5
        <3>2. ASSUME NEW w \in VA, pt[c][w].V PROVE w \in 0 .. job[p].va - 1
            <4>1. w < job[p].va
                BY <2>1, <2>2, <3>2 DEF Families, Family
            <4>2. QED
                BY <1>0, <4>1 DEF VA
        <3>3. ASSUME NEW q \in Proc \ {p, c} PROVE Family(q)'
            <4>1. Family(q)
                BY DEF Families
            <4>2. job[q].op \in {"fork", "unfork"} =>
                      \A r \in Proc \ {q} : job'[r].op \in {"fork", "unfork"} => child'[r] # child[q]
                BY <2>0, <2>1, <2>2, <2>5, <3>1, <4>1 DEF Family
            <4>3. QED
                BY <2>0, <2>5, <3>1, <4>1, <4>2, FamilyKept
        <3>4. Family(p)'
            <4>1. c = child'[p] /\ job'[c].op = "embryo"
                BY <2>2, <2>5, <3>1
            <4>2. \A q \in Proc \ {p} : job'[q].op \in {"fork", "unfork"} => child'[q] # c
                BY <2>0, <2>2, <2>5, <3>1
            <4>3. \A w \in VA : pt'[c][w].V => w \in 0 .. job'[p].last
                BY <2>5, <3>1, <3>2
            <4>4. QED
                BY <2>2, <3>1, <4>1, <4>2, <4>3 DEF Family
        <3>5. Family(c)'
            BY <2>2, <3>1 DEF Family
        <3>6. QED
            BY <3>3, <3>4, <3>5 DEF Families
    <2>6. QED
        BY <1>13, <2>2, <2>3, <2>4, <2>5 DEF uvmcopy_page
<1>14. ASSUME NEW p \in Proc, fork_return(p) PROVE Families'
    <2>1. job[p].op = "fork" /\ panicked = ""
        BY <1>14 DEF fork_return
    <2>2. PICK c \in Proc : c = child[p] /\ c # p /\ job[c].op = "embryo"
        BY <2>1, Child
    <2>0. \A q \in Proc \ {p} : job[q].op \in {"fork", "unfork"} =>
              child[q] \in Proc \ {p, c} /\ child[q] # q /\ job[child[q]].op = "embryo"
        BY <2>1, <2>2, Child
    <2>3. /\ job' = [job EXCEPT ![p] = NoJob, ![c] = NoJob] /\ child' = [child EXCEPT ![p] = Nil]
          /\ UNCHANGED pt
        BY <1>14, <2>2 DEF fork_return
    <2>4. job'[p].op = "user" /\ job'[c].op = "user" /\ \A q \in Proc \ {p, c} : job'[q] = job[q]
        BY <1>0, <2>2, <2>3
    <2>5. \A q \in Proc \ {p} : child'[q] = child[q]
        BY <1>0, <2>3
    <2>6. ASSUME NEW q \in Proc \ {p, c} PROVE Family(q)'
        <3>1. Family(q)
            BY DEF Families
        <3>4. ASSUME job[q].op \in {"fork", "unfork"}, NEW r \in Proc \ {q},
                     job'[r].op \in {"fork", "unfork"}
              PROVE  child'[r] # child[q]
            <4>1. r \notin {p, c}
                BY <2>4, <3>4
            <4>2. job[r] = job'[r] /\ child'[r] = child[r]
                BY <2>4, <2>5, <4>1
            <4>3. QED
                BY <3>1, <3>4, <4>2 DEF Family
        <3>2. job[q].op \in {"fork", "unfork"} =>
                  \A r \in Proc \ {q} : job'[r].op \in {"fork", "unfork"} => child'[r] # child[q]
            BY <3>4
        <3>3. QED
            BY <2>0, <2>3, <2>4, <2>5, <3>1, <3>2, FamilyKept
    <2>7. Family(p)' /\ Family(c)'
        BY <2>4 DEF Family
    <2>8. QED
        BY <2>6, <2>7 DEF Families
<1>15. ASSUME NEW p \in Proc, unfork_page(p) PROVE Families'
    <2>1. job[p].op = "unfork" /\ panicked = ""
        BY <1>15 DEF unfork_page
    <2>2. PICK c \in Proc : c = child[p] /\ c # p /\ job[c].op = "embryo"
        BY <2>1, Child
    <2>0. \A q \in Proc \ {p} : job[q].op \in {"fork", "unfork"} =>
              child[q] \in Proc \ {p, c} /\ child[q] # q /\ job[child[q]].op = "embryo"
        BY <2>1, <2>2, Child
    <2>3. job[p].va <= job[p].last /\ uvmunmap(c, job[p].va) /\ Step(p) /\ UNCHANGED child
        BY <1>15, <2>2 DEF unfork_page
    <2>4. job[p].va \in VA
        BY <1>0, <2>3
    <2>5. PICK v \in VA : v = job[p].va
        BY <2>4
    <2>6. /\ \A q \in Proc \ {c} : pt'[q] = pt[q]
          /\ \A w \in VA : w # v => pt'[c][w] = pt[c][w]
          /\ ~pt'[c][v].V
        BY <2>3, <2>5, PtLoses
    <2>7. /\ job'[p].op = "unfork" /\ job'[p].va = v + 1 /\ job'[p].last = job[p].last
          /\ \A q \in Proc \ {p} : job'[q] = job[q]
        BY <2>1, <2>3, <2>5, JobAt
    <2>8. ASSUME NEW w \in VA, pt'[c][w].V PROVE w \in v + 1 .. job[p].last
        <3>1. w # v /\ w \in v .. job[p].last
            BY <2>1, <2>2, <2>5, <2>6, <2>8 DEF Families, Family
        <3>2. QED
            BY <1>0, <3>1 DEF VA
    <2>9. ASSUME NEW q \in Proc \ {p, c} PROVE Family(q)'
        <3>1. Family(q)
            BY DEF Families
        <3>2. job[q].op \in {"fork", "unfork"} =>
                  \A r \in Proc \ {q} : job'[r].op \in {"fork", "unfork"} => child'[r] # child[q]
            <4>1. \A r \in Proc : job'[r].op \in {"fork", "unfork"} => job[r].op \in {"fork", "unfork"}
                BY <2>1, <2>7
            <4>2. QED
                BY <2>3, <3>1, <4>1 DEF Family
        <3>3. QED
            BY <2>0, <2>3, <2>6, <2>7, <3>1, <3>2, FamilyKept
    <2>10. Family(p)'
        <3>1. c = child'[p] /\ job'[c].op = "embryo"
            BY <2>2, <2>3, <2>7
        <3>2. \A q \in Proc \ {p} : job'[q].op \in {"fork", "unfork"} => child'[q] # c
            BY <2>0, <2>2, <2>3, <2>7
        <3>3. \A w \in VA : pt'[c][w].V => w \in job'[p].va .. job'[p].last
            BY <2>7, <2>8
        <3>4. QED
            BY <2>2, <2>7, <3>1, <3>2, <3>3 DEF Family
    <2>11. Family(c)'
        BY <2>2, <2>7 DEF Family
    <2>12. QED
        BY <2>9, <2>10, <2>11 DEF Families
<1>16. ASSUME NEW p \in Proc, unfork_return(p) PROVE Families'
    <2>1. job[p].op = "unfork" /\ panicked = ""
        BY <1>16 DEF unfork_return
    <2>2. PICK c \in Proc : c = child[p] /\ c # p /\ job[c].op = "embryo"
        BY <2>1, Child
    <2>0. \A q \in Proc \ {p} : job[q].op \in {"fork", "unfork"} =>
              child[q] \in Proc \ {p, c} /\ child[q] # q /\ job[child[q]].op = "embryo"
        BY <2>1, <2>2, Child
    <2>3. /\ job' = [job EXCEPT ![p] = NoJob, ![c] = Dead] /\ child' = [child EXCEPT ![p] = Nil]
          /\ pt' = [pt EXCEPT ![c] = [v \in VA |-> NoPte]]
        BY <1>16, <2>2 DEF unfork_return
    <2>4. job'[p].op = "user" /\ job'[c].op = "unused" /\ \A q \in Proc \ {p, c} : job'[q] = job[q]
        BY <1>0, <2>2, <2>3
    <2>5. /\ \A q \in Proc \ {p} : child'[q] = child[q]
          /\ \A q \in Proc \ {c} : pt'[q] = pt[q]
        BY <1>0, <2>3
    <2>6. \A v \in VA : ~pt'[c][v].V /\ ~pt'[c][v].S
        BY <1>0, <2>3 DEF NoPte
    <2>7. ASSUME NEW q \in Proc \ {p, c} PROVE Family(q)'
        <3>1. Family(q)
            BY DEF Families
        <3>4. ASSUME job[q].op \in {"fork", "unfork"}, NEW r \in Proc \ {q},
                     job'[r].op \in {"fork", "unfork"}
              PROVE  child'[r] # child[q]
            <4>1. r \notin {p, c}
                BY <2>4, <3>4
            <4>2. job[r] = job'[r] /\ child'[r] = child[r]
                BY <2>4, <2>5, <4>1
            <4>3. QED
                BY <3>1, <3>4, <4>2 DEF Family
        <3>2. job[q].op \in {"fork", "unfork"} =>
                  \A r \in Proc \ {q} : job'[r].op \in {"fork", "unfork"} => child'[r] # child[q]
            BY <3>4
        <3>3. QED
            BY <2>0, <2>4, <2>5, <3>1, <3>2, FamilyKept
    <2>8. Family(p)' /\ Family(c)'
        BY <2>4, <2>6 DEF Family
    <2>9. QED
        BY <2>7, <2>8 DEF Families
<1>17. ASSUME NEW p \in Proc, exit(p) PROVE Families'
    <2>1. /\ job[p].op \notin Kin /\ job'[p].op \notin Kin /\ UNCHANGED child
          /\ \A q \in Proc \ {p} : job'[q] = job[q]
        BY <1>17, <1>0, JobAt DEF exit, Kin
    <2>2. UNCHANGED pt
        BY <1>17 DEF exit
    <2>3. QED
        BY <2>1, <2>2, FamiliesKept DEF Kin
<1>18. ASSUME NEW p \in Proc, exit_page(p) PROVE Families'
    <2>1. /\ job[p].op \notin Kin /\ job'[p].op \notin Kin /\ UNCHANGED child
          /\ \A q \in Proc \ {p} : job'[q] = job[q]
        BY <1>18, <1>0, JobAt DEF exit_page, Kin
    <2>4. job[p].va <= job[p].last
        BY <1>18 DEF exit_page
    <2>5. job[p].va \in VA
        BY <1>0, <2>4
    <2>2. \A q \in Proc \ {p} : pt'[q] = pt[q]
        BY <1>18, <2>5, PtLoses DEF exit_page
    <2>3. QED
        BY <2>1, <2>2, FamiliesKept DEF Kin
<1>19. ASSUME NEW p \in Proc, freewalk(p) PROVE Families'
    <2>1. CASE UNCHANGED <<pt, job, child>>
        BY <2>1 DEF Families, Family
    <2>2. CASE ~UNCHANGED <<pt, job, child>>
        <3>1. /\ pt' = [pt EXCEPT ![p] = [v \in VA |-> NoPte]] /\ job' = [job EXCEPT ![p] = Dead]
              /\ job[p].op = "exit" /\ UNCHANGED child
            BY <1>19, <2>2 DEF freewalk
        <3>2. job'[p].op = "unused" /\ \A q \in Proc \ {p} : job'[q] = job[q]
            BY <1>0, <3>1
        <3>3. \A q \in Proc \ {p} : pt'[q] = pt[q]
            BY <1>0, <3>1
        <3>4. \A v \in VA : ~pt'[p][v].V /\ ~pt'[p][v].S
            BY <1>0, <3>1 DEF NoPte
        <3>5. QED
            BY <3>1, <3>2, <3>3, <3>4, FamiliesKept DEF Kin
    <2>3. QED
        BY <2>1, <2>2
<1>20. QED
    BY <1>1, <1>2, <1>3, <1>4, <1>5, <1>6, <1>7, <1>8, <1>9, <1>10,
       <1>11, <1>12, <1>13, <1>14, <1>15, <1>16, <1>17, <1>18, <1>19 DEF Next, halted

Running == {"user"} \cup Advice

LEMMA SpacesStep ==
    ASSUME TypeOK, Pages, Families, Spaces, [Next]_vars
    PROVE  Spaces'
<1> USE DEF Doing, panic, NoJob, Dead
<1>0. /\ pt \in [Proc -> [VA -> Pte]] /\ sz \in [Proc -> 0 .. MaxPages] /\ job \in [Proc -> Job]
      /\ user \in [Proc -> [VA -> Data]] /\ mem \in [Page -> Data] /\ child \in [Proc -> Proc \cup {Nil}]
      /\ MaxPages \in Nat /\ \A i \in Int : i \in VA <=> 0 <= i /\ i < MaxPages
      /\ \A q \in Proc : /\ sz[q] \in Int /\ 0 <= sz[q] /\ sz[q] <= MaxPages
                         /\ job[q].va \in Int /\ 0 <= job[q].va /\ job[q].va <= MaxPages
                         /\ job[q].last \in Int /\ -1 <= job[q].last /\ job[q].last < MaxPages
      /\ \A q \in Proc, w \in VA : pt[q][w] \in Pte
    BY Types
<1>1. CASE UNCHANGED vars
    BY <1>1 DEF vars, Spaces, Space
<1>2. ASSUME NEW p \in Proc, NEW v \in VA, NEW x \in Val, store(p, v, x) PROVE Spaces'
    BY <1>2 DEF store, Spaces, Space
<1>3. ASSUME NEW p \in Proc, NEW v \in VA, handle_pgfault(p, v) PROVE Spaces'
    <2>1. /\ \A q \in Proc \ {p} : job'[q] = job[q] /\ sz'[q] = sz[q]
          /\ job[p].op \in Running /\ job'[p].op = job[p].op /\ sz'[p] = sz[p]
        BY <1>3, <1>0, JobAt DEF handle_pgfault, Running
    <2>2. /\ \A q \in Proc \ {p} : pt'[q] = pt[q]
          /\ \A w \in VA : pt[p][w].V \/ pt[p][w].S => pt'[p][w].V \/ pt'[p][w].S
        BY <1>3, PtGrows
    <2>6. ASSUME NEW q \in Proc \ {p} PROVE Space(q)'
        BY <2>1, <2>2, SpaceKept DEF Spaces
    <2>7. Space(p)'
        BY <1>0, <2>1, <2>2 DEF Spaces, Space, Running
    <2>8. QED
        BY <2>6, <2>7 DEF Spaces
<1>4. ASSUME NEW p \in Proc, sbrk_grow(p) PROVE Spaces'
    <2>1. CASE UNCHANGED <<pt, sz, job>>
        BY <2>1 DEF Spaces, Space
    <2>2. CASE ~UNCHANGED <<pt, sz, job>>
        <3>10. sz[p] < MaxPages /\ job[p].op = "user" /\ UNCHANGED job /\ sz' = [sz EXCEPT ![p] = sz[p] + 1]
            BY <1>4, <2>2 DEF sbrk_grow
        <3>11. \E g \in Page : pt' = [pt EXCEPT ![p][sz[p]] = MapTo(g)]
            BY <1>4, <2>2 DEF sbrk_grow
        <3>1. /\ sz[p] < MaxPages /\ job[p].op = "user" /\ UNCHANGED job /\ sz' = [sz EXCEPT ![p] = sz[p] + 1]
              /\ \E g \in Page : pt' = [pt EXCEPT ![p][sz[p]] = MapTo(g)]
            BY <3>10, <3>11
        <3>2. PICK v \in VA : v = sz[p]
            BY <1>0, <3>1
        <3>3. PICK g \in Page : pt' = [pt EXCEPT ![p][v] = MapTo(g)]
            BY <3>1, <3>2
        <3>4. /\ \A q \in Proc \ {p} : pt'[q] = pt[q]
              /\ \A w \in VA : w # v => pt'[p][w] = pt[p][w]
              /\ pt'[p][v].V
            BY <3>3, OneZero
        <3>12. sz \in [Proc -> 0 .. MaxPages]
            BY <1>0
        <3>5. sz'[p] = v + 1 /\ \A q \in Proc \ {p} : sz'[q] = sz[q]
            BY <3>10, <3>12, <3>2
        <3>6. ASSUME NEW q \in Proc \ {p} PROVE Space(q)'
            BY <3>1, <3>4, <3>5, SpaceKept DEF Spaces
        <3>7. \A w \in VA : w < v + 1 => pt'[p][w].V \/ pt'[p][w].S
            <4>1. \A w \in VA : w < v + 1 => w = v \/ w < sz[p]
                BY <1>0, <3>2 DEF VA
            <4>2. \A w \in VA : w < sz[p] => pt[p][w].V \/ pt[p][w].S
                BY <3>1 DEF Spaces, Space
            <4>3. QED
                BY <3>4, <4>1, <4>2
        <3>8. Space(p)'
            BY <3>1, <3>5, <3>7 DEF Space
        <3>9. QED
            BY <3>6, <3>8 DEF Spaces
    <2>3. QED
        BY <2>1, <2>2
<1>5. ASSUME NEW p \in Proc, sbrk_shrink(p) PROVE Spaces'
    <2>1. /\ \A q \in Proc \ {p} : job'[q] = job[q] /\ sz'[q] = sz[q]
          /\ job[p].op = "user" /\ sz'[p] = sz[p]
          /\ job'[p] = [op |-> "shrink", va |-> sz[p] - 1, last |-> sz[p] - 1]
        BY <1>5, <1>0, JobAt DEF sbrk_shrink
    <2>2. UNCHANGED pt
        BY <1>5 DEF sbrk_shrink
    <2>6. ASSUME NEW q \in Proc \ {p} PROVE Space(q)'
        BY <2>1, <2>2, SpaceKept DEF Spaces
    <2>7. Space(p)'
        BY <1>0, <2>1, <2>2 DEF Spaces, Space
    <2>8. QED
        BY <2>6, <2>7 DEF Spaces
<1>6. ASSUME NEW p \in Proc, shrink_page(p) PROVE Spaces'
    <2>0. /\ job[p].op = "shrink" /\ uvmunmap(p, job[p].va) /\ sz' = [sz EXCEPT ![p] = job[p].va]
          /\ job' = [job EXCEPT ![p] = NoJob]
        BY <1>6 DEF shrink_page
    <2>1. job[p].va = sz[p] - 1 /\ \A w \in VA : w < sz[p] => pt[p][w].V \/ pt[p][w].S
        BY <2>0 DEF Spaces, Space
    <2>2. PICK v \in VA : v = job[p].va
        BY <1>0, <2>1
    <2>3. /\ \A q \in Proc \ {p} : pt'[q] = pt[q]
          /\ \A w \in VA : w # v => pt'[p][w] = pt[p][w]
        BY <2>0, <2>2, PtLoses
    <2>4. /\ \A q \in Proc \ {p} : job'[q] = job[q] /\ sz'[q] = sz[q]
          /\ job'[p].op = "user" /\ sz'[p] = v
        BY <1>0, <2>0, <2>2
    <2>5. \A w \in VA : w < v => w # v /\ w < sz[p]
        BY <1>0, <2>1, <2>2 DEF VA
    <2>6. ASSUME NEW q \in Proc \ {p} PROVE Space(q)'
        BY <2>3, <2>4, SpaceKept DEF Spaces
    <2>7. Space(p)'
        BY <2>1, <2>3, <2>4, <2>5 DEF Space
    <2>8. QED
        BY <2>6, <2>7 DEF Spaces
<1>7. ASSUME NEW p \in Proc, NEW b \in VA, NEW l \in VA, NEW a \in Advice, madvise(p, b, l, a) PROVE Spaces'
    <2>1. /\ \A q \in Proc \ {p} : job'[q] = job[q] /\ sz'[q] = sz[q]
          /\ job[p].op \in Running /\ job'[p].op \in Running /\ sz'[p] = sz[p]
        BY <1>7, <1>0, JobAt DEF madvise, Running
    <2>2. UNCHANGED pt
        BY <1>7 DEF madvise
    <2>6. ASSUME NEW q \in Proc \ {p} PROVE Space(q)'
        BY <2>1, <2>2, SpaceKept DEF Spaces
    <2>7. Space(p)'
        BY <1>0, <2>1, <2>2 DEF Spaces, Space, Running
    <2>8. QED
        BY <2>6, <2>7 DEF Spaces
<1>8. ASSUME NEW p \in Proc, willneed_page(p) PROVE Spaces'
    <2>0. job[p].op = "willneed" /\ UNCHANGED sz /\ (Step(p) \/ job' = [job EXCEPT ![p] = NoJob])
        BY <1>8 DEF willneed_page
    <2>3. job[p].op \in Running /\ job[p].op = "willneed"
        BY <1>0, <2>0 DEF Running, Job
    <2>4. Step(p) => job'[p].op = job[p].op /\ \A q \in Proc \ {p} : job'[q] = job[q]
        BY JobAt
    <2>5. job' = [job EXCEPT ![p] = NoJob] => job'[p].op = "user" /\ \A q \in Proc \ {p} : job'[q] = job[q]
        BY <1>0
    <2>1. /\ \A q \in Proc \ {p} : job'[q] = job[q] /\ sz'[q] = sz[q]
          /\ job[p].op \in Running /\ job'[p].op \in Running /\ sz'[p] = sz[p]
        BY <2>0, <2>3, <2>4, <2>5 DEF Running
    <2>2. /\ \A q \in Proc \ {p} : pt'[q] = pt[q]
          /\ \A w \in VA : pt[p][w].V \/ pt[p][w].S => pt'[p][w].V \/ pt'[p][w].S
        BY <1>8, PtGrows
    <2>6. ASSUME NEW q \in Proc \ {p} PROVE Space(q)'
        BY <2>1, <2>2, SpaceKept DEF Spaces
    <2>7. Space(p)'
        BY <1>0, <2>1, <2>2 DEF Spaces, Space, Running
    <2>8. QED
        BY <2>6, <2>7 DEF Spaces
<1>9. ASSUME NEW p \in Proc, dontneed_page(p) PROVE Spaces'
    <2>0. job[p].op \in {"dontneed", "pin", "unpin"} /\ UNCHANGED sz /\ (Step(p) \/ UNCHANGED job)
        BY <1>9 DEF dontneed_page
    <2>1. /\ \A q \in Proc \ {p} : job'[q] = job[q] /\ sz'[q] = sz[q]
          /\ job[p].op \in Running /\ job'[p].op \in Running /\ sz'[p] = sz[p]
        BY <1>0, <2>0, JobAt DEF Running, Job
    <2>2. /\ \A q \in Proc \ {p} : pt'[q] = pt[q]
          /\ \A w \in VA : pt[p][w].V \/ pt[p][w].S => pt'[p][w].V \/ pt'[p][w].S
        BY <1>9, PtGrows
    <2>6. ASSUME NEW q \in Proc \ {p} PROVE Space(q)'
        BY <2>1, <2>2, SpaceKept DEF Spaces
    <2>7. Space(p)'
        BY <1>0, <2>1, <2>2 DEF Spaces, Space, Running
    <2>8. QED
        BY <2>6, <2>7 DEF Spaces
<1>10. ASSUME NEW p \in Proc, pin_page(p) PROVE Spaces'
    <2>0. job[p].op \in {"dontneed", "pin", "unpin"} /\ UNCHANGED sz /\ (Step(p) \/ UNCHANGED job)
        BY <1>10 DEF pin_page
    <2>1. /\ \A q \in Proc \ {p} : job'[q] = job[q] /\ sz'[q] = sz[q]
          /\ job[p].op \in Running /\ job'[p].op \in Running /\ sz'[p] = sz[p]
        BY <1>0, <2>0, JobAt DEF Running, Job
    <2>2. /\ \A q \in Proc \ {p} : pt'[q] = pt[q]
          /\ \A w \in VA : pt[p][w].V \/ pt[p][w].S => pt'[p][w].V \/ pt'[p][w].S
        BY <1>10, PtGrows
    <2>6. ASSUME NEW q \in Proc \ {p} PROVE Space(q)'
        BY <2>1, <2>2, SpaceKept DEF Spaces
    <2>7. Space(p)'
        BY <1>0, <2>1, <2>2 DEF Spaces, Space, Running
    <2>8. QED
        BY <2>6, <2>7 DEF Spaces
<1>11. ASSUME NEW p \in Proc, madvise_return(p) PROVE Spaces'
    <2>1. /\ \A q \in Proc \ {p} : job'[q] = job[q] /\ sz'[q] = sz[q]
          /\ job[p].op \in Running /\ job'[p].op \in Running /\ sz'[p] = sz[p]
        BY <1>11, <1>0, JobAt DEF madvise_return, Running
    <2>2. UNCHANGED pt
        BY <1>11 DEF madvise_return
    <2>6. ASSUME NEW q \in Proc \ {p} PROVE Space(q)'
        BY <2>1, <2>2, SpaceKept DEF Spaces
    <2>7. Space(p)'
        BY <1>0, <2>1, <2>2 DEF Spaces, Space, Running
    <2>8. QED
        BY <2>6, <2>7 DEF Spaces
<1>12. ASSUME NEW p \in Proc, NEW c \in Proc, fork(p, c) PROVE Spaces'
    <2>1. /\ job[p].op = "user" /\ job[c].op = "unused" /\ UNCHANGED <<pt, sz>>
          /\ job' = [job EXCEPT ![p] = [op |-> "fork", va |-> 0, last |-> sz[p] - 1],
                                ![c] = [op |-> "embryo", va |-> 0, last |-> -1]]
        BY <1>12 DEF fork
    <2>2. /\ c # p /\ job'[p].op = "fork" /\ job'[p].last = sz[p] - 1 /\ job'[c].op = "embryo"
          /\ \A q \in Proc \ {p, c} : job'[q] = job[q]
        BY <1>0, <2>1
    <2>3. ASSUME NEW q \in Proc \ {p, c} PROVE Space(q)'
        BY <2>1, <2>2, SpaceKept DEF Spaces
    <2>4. Space(p)' /\ Space(c)'
        BY <2>1, <2>2 DEF Spaces, Space
    <2>5. QED
        BY <2>3, <2>4 DEF Spaces
<1>13. ASSUME NEW p \in Proc, uvmcopy_page(p) PROVE Spaces'
    <2>1. job[p].op = "fork" /\ panicked = ""
        BY <1>13 DEF uvmcopy_page
    <2>2. PICK c \in Proc : c = child[p] /\ c # p /\ job[c].op = "embryo"
        BY <2>1, Child
    <2>3. CASE UNCHANGED <<pt, sz, job>>
        BY <2>3 DEF Spaces, Space
    <2>4. CASE ~UNCHANGED <<pt, sz, job>>
        <3>1. /\ job[p].va <= job[p].last /\ UNCHANGED sz
              /\ UNCHANGED pt \/ \E g \in Page : pt' = [pt EXCEPT ![c][job[p].va] = [pt[p][job[p].va] EXCEPT !.a = g]]
              /\ Step(p) \/ job' = [job EXCEPT ![p] = [op |-> "unfork", va |-> 0, last |-> job[p].va - 1]]
            BY <1>13, <2>2, <2>4 DEF uvmcopy_page
        <3>2. \A q \in Proc \ {c} : pt'[q] = pt[q]
            BY <1>0, <3>1
        <3>8. Step(p) => /\ job'[p].op = "fork" /\ job'[p].last = job[p].last
                         /\ \A q \in Proc \ {p} : job'[q] = job[q]
            BY <2>1, JobAt
        <3>9. job' = [job EXCEPT ![p] = [op |-> "unfork", va |-> 0, last |-> job[p].va - 1]] =>
                  job'[p].op = "unfork" /\ \A q \in Proc \ {p} : job'[q] = job[q]
            BY <1>0
        <3>3. /\ \/ job'[p].op = "fork" /\ job'[p].last = job[p].last
                 \/ job'[p].op = "unfork"
              /\ \A q \in Proc \ {p} : job'[q] = job[q]
            BY <3>1, <3>8, <3>9
        <3>4. ASSUME NEW q \in Proc \ {p, c} PROVE Space(q)'
            BY <3>1, <3>2, <3>3, SpaceKept DEF Spaces
        <3>5. Space(p)'
            BY <2>1, <2>2, <3>1, <3>2, <3>3 DEF Spaces, Space
        <3>6. Space(c)'
            BY <2>2, <3>3 DEF Space
        <3>7. QED
            BY <3>4, <3>5, <3>6 DEF Spaces
    <2>5. QED
        BY <2>3, <2>4
<1>14. ASSUME NEW p \in Proc, fork_return(p) PROVE Spaces'
    <2>1. job[p].op = "fork" /\ panicked = ""
        BY <1>14 DEF fork_return
    <2>2. PICK c \in Proc : c = child[p] /\ c # p /\ job[c].op = "embryo"
        BY <2>1, Child
    <2>3. /\ job' = [job EXCEPT ![p] = NoJob, ![c] = NoJob] /\ sz' = [sz EXCEPT ![c] = sz[p]]
          /\ UNCHANGED pt /\ job[p].va > job[p].last
        BY <1>14, <2>2 DEF fork_return
    <2>4. /\ job'[p].op = "user" /\ job'[c].op = "user" /\ \A q \in Proc \ {p, c} : job'[q] = job[q]
          /\ sz'[c] = sz[p] /\ \A q \in Proc \ {c} : sz'[q] = sz[q]
        BY <1>0, <2>2, <2>3
    <2>5. job[p].last = sz[p] - 1 /\ \A w \in VA : w < job[p].va => pt[c][w].V
        BY <2>1, <2>2 DEF Spaces, Space, Families, Family
    <2>6. \A w \in VA : w < sz[p] => w < job[p].va
        BY <1>0, <2>3, <2>5 DEF VA
    <2>7. ASSUME NEW q \in Proc \ {p, c} PROVE Space(q)'
        BY <2>3, <2>4, SpaceKept DEF Spaces
    <2>8. Space(p)'
        BY <2>1, <2>2, <2>3, <2>4 DEF Spaces, Space
    <2>9. Space(c)'
        BY <2>3, <2>4, <2>5, <2>6 DEF Space
    <2>10. QED
        BY <2>7, <2>8, <2>9 DEF Spaces
<1>15. ASSUME NEW p \in Proc, unfork_page(p) PROVE Spaces'
    <2>1. job[p].op = "unfork" /\ panicked = ""
        BY <1>15 DEF unfork_page
    <2>2. PICK c \in Proc : c = child[p] /\ c # p /\ job[c].op = "embryo"
        BY <2>1, Child
    <2>3. job[p].va <= job[p].last /\ uvmunmap(c, job[p].va) /\ Step(p) /\ UNCHANGED sz
        BY <1>15, <2>2 DEF unfork_page
    <2>4. job[p].va \in VA
        BY <1>0, <2>3
    <2>5. \A q \in Proc \ {c} : pt'[q] = pt[q]
        BY <2>3, <2>4, PtLoses
    <2>6. job'[p].op = "unfork" /\ \A q \in Proc \ {p} : job'[q] = job[q]
        BY <2>1, <2>3, JobAt
    <2>7. ASSUME NEW q \in Proc \ {p, c} PROVE Space(q)'
        BY <2>3, <2>5, <2>6, SpaceKept DEF Spaces
    <2>8. Space(p)'
        BY <2>1, <2>2, <2>3, <2>5, <2>6 DEF Spaces, Space
    <2>9. Space(c)'
        BY <2>2, <2>6 DEF Space
    <2>10. QED
        BY <2>7, <2>8, <2>9 DEF Spaces
<1>16. ASSUME NEW p \in Proc, unfork_return(p) PROVE Spaces'
    <2>1. job[p].op = "unfork" /\ panicked = ""
        BY <1>16 DEF unfork_return
    <2>2. PICK c \in Proc : c = child[p] /\ c # p /\ job[c].op = "embryo"
        BY <2>1, Child
    <2>3. /\ job' = [job EXCEPT ![p] = NoJob, ![c] = Dead] /\ UNCHANGED sz
          /\ pt' = [pt EXCEPT ![c] = [v \in VA |-> NoPte]]
        BY <1>16, <2>2 DEF unfork_return
    <2>4. /\ job'[p].op = "user" /\ job'[c].op = "unused" /\ \A q \in Proc \ {p, c} : job'[q] = job[q]
          /\ \A q \in Proc \ {c} : pt'[q] = pt[q]
        BY <1>0, <2>2, <2>3
    <2>5. ASSUME NEW q \in Proc \ {p, c} PROVE Space(q)'
        BY <2>3, <2>4, SpaceKept DEF Spaces
    <2>6. Space(p)'
        BY <2>1, <2>2, <2>3, <2>4 DEF Spaces, Space
    <2>7. Space(c)'
        BY <2>4 DEF Space
    <2>8. QED
        BY <2>5, <2>6, <2>7 DEF Spaces
<1>17. ASSUME NEW p \in Proc, exit(p) PROVE Spaces'
    <2>1. /\ \A q \in Proc \ {p} : job'[q] = job[q] /\ sz'[q] = sz[q]
          /\ job[p].op = "user" /\ sz'[p] = sz[p]
          /\ job'[p] = [op |-> "exit", va |-> 0, last |-> sz[p] - 1]
        BY <1>17, <1>0, JobAt DEF exit
    <2>2. UNCHANGED pt
        BY <1>17 DEF exit
    <2>6. ASSUME NEW q \in Proc \ {p} PROVE Space(q)'
        BY <2>1, <2>2, SpaceKept DEF Spaces
    <2>7. Space(p)'
        <3>1. \A w \in VA : ~(w < 0)
            BY DEF VA
        <3>2. QED
            BY <2>1, <2>2, <3>1 DEF Space
    <2>8. QED
        BY <2>6, <2>7 DEF Spaces
<1>18. ASSUME NEW p \in Proc, exit_page(p) PROVE Spaces'
    <2>0. /\ job[p].op = "exit" /\ uvmunmap(p, job[p].va) /\ job[p].va <= job[p].last
          /\ Step(p) /\ UNCHANGED sz
        BY <1>18 DEF exit_page
    <2>1. \A w \in VA : w < job[p].va => ~pt[p][w].V
        BY <2>0 DEF Spaces, Space
    <2>2. PICK v \in VA : v = job[p].va
        BY <1>0, <2>0
    <2>3. /\ \A q \in Proc \ {p} : pt'[q] = pt[q]
          /\ \A w \in VA : w # v => pt'[p][w] = pt[p][w]
          /\ ~pt'[p][v].V
        BY <2>0, <2>2, PtLoses
    <2>4. /\ \A q \in Proc \ {p} : job'[q] = job[q]
          /\ job'[p].op = "exit" /\ job'[p].va = v + 1 /\ job'[p].last = job[p].last
        BY <2>0, <2>2, JobAt
    <2>5. \A w \in VA : w < v + 1 => w = v \/ w < v
        BY <1>0, <2>2 DEF VA
    <2>6. ASSUME NEW q \in Proc \ {p} PROVE Space(q)'
        BY <2>0, <2>3, <2>4, SpaceKept DEF Spaces
    <2>7. job[p].last = sz[p] - 1
        BY <2>0 DEF Spaces, Space
    <2>8. Space(p)'
        BY <2>0, <2>1, <2>2, <2>3, <2>4, <2>5, <2>7 DEF Space
    <2>9. QED
        BY <2>6, <2>8 DEF Spaces
<1>19. ASSUME NEW p \in Proc, freewalk(p) PROVE Spaces'
    <2>1. CASE UNCHANGED <<pt, sz, job>>
        BY <2>1 DEF Spaces, Space
    <2>2. CASE ~UNCHANGED <<pt, sz, job>>
        <3>1. /\ pt' = [pt EXCEPT ![p] = [v \in VA |-> NoPte]] /\ job' = [job EXCEPT ![p] = Dead]
              /\ sz' = [sz EXCEPT ![p] = 0]
            BY <1>19, <2>2 DEF freewalk
        <3>2. /\ \A q \in Proc \ {p} : pt'[q] = pt[q] /\ job'[q] = job[q] /\ sz'[q] = sz[q]
              /\ job'[p].op = "unused"
            BY <1>0, <3>1
        <3>3. ASSUME NEW q \in Proc \ {p} PROVE Space(q)'
            BY <3>2, SpaceKept DEF Spaces
        <3>4. Space(p)'
            BY <3>2 DEF Space
        <3>5. QED
            BY <3>3, <3>4 DEF Spaces
    <2>3. QED
        BY <2>1, <2>2
<1>20. QED
    BY <1>1, <1>2, <1>3, <1>4, <1>5, <1>6, <1>7, <1>8, <1>9, <1>10,
       <1>11, <1>12, <1>13, <1>14, <1>15, <1>16, <1>17, <1>18, <1>19 DEF Next, halted

-----------------------------------------------------------------------------
(* Why the kernel panics, and types.                                       *)

\* After a panic nothing moves.
LEMMA Stopped ==
    ASSUME Next, panicked # ""
    PROVE  UNCHANGED vars
<1> USE DEF Doing
<1>1. ASSUME NEW p \in Proc, NEW v \in Advised, NEW x \in Val PROVE ~store(p, v, x)
    BY DEF store
<1>2. ASSUME NEW p \in Proc, NEW v \in VA PROVE ~handle_pgfault(p, v)
    BY DEF handle_pgfault
<1>3. ASSUME NEW p \in Proc PROVE ~sbrk_grow(p)
    BY DEF sbrk_grow
<1>4. ASSUME NEW p \in Proc PROVE ~sbrk_shrink(p)
    BY DEF sbrk_shrink
<1>5. ASSUME NEW p \in Proc PROVE ~shrink_page(p)
    BY DEF shrink_page
<1>6. ASSUME NEW p \in Proc, NEW b \in Advised, NEW l \in Advised, NEW a \in Advice PROVE ~madvise(p, b, l, a)
    BY DEF madvise
<1>7. ASSUME NEW p \in Proc PROVE ~willneed_page(p)
    BY DEF willneed_page
<1>8. ASSUME NEW p \in Proc PROVE ~dontneed_page(p)
    BY DEF dontneed_page
<1>9. ASSUME NEW p \in Proc PROVE ~pin_page(p)
    BY DEF pin_page
<1>10. ASSUME NEW p \in Proc PROVE ~madvise_return(p)
    BY DEF madvise_return
<1>11. ASSUME NEW p \in Proc, NEW c \in Proc PROVE ~fork(p, c)
    BY DEF fork
<1>12. ASSUME NEW p \in Proc PROVE ~fork_return(p)
    BY DEF fork_return
<1>13. ASSUME NEW p \in Proc PROVE ~unfork_page(p)
    BY DEF unfork_page
<1>14. ASSUME NEW p \in Proc PROVE ~unfork_return(p)
    BY DEF unfork_return
<1>15. ASSUME NEW p \in Proc PROVE ~exit(p)
    BY DEF exit
<1>16. ASSUME NEW p \in Proc PROVE ~exit_page(p)
    BY DEF exit_page
<1>17. ASSUME NEW p \in Proc PROVE ~uvmcopy_page(p)
    BY DEF uvmcopy_page
<1>18. ASSUME NEW p \in Proc PROVE ~freewalk(p)
    BY DEF freewalk
<1>19. QED
    BY <1>1, <1>2, <1>3, <1>4, <1>5, <1>6, <1>7, <1>8, <1>9,
       <1>10, <1>11, <1>12, <1>13, <1>14, <1>15, <1>16, <1>17, <1>18 DEF Next, halted

\* Only freewalk() and uvmcopy() say of a page table that it is wrong.
LEMMA Panics ==
    ASSUME Next, panicked' # panicked
    PROVE  \/ panicked' \notin {"freewalk: leaf", "uvmcopy: page not present"}
           \/ \E p \in Proc : freewalk(p) \/ uvmcopy_page(p)
<1> USE DEF panic
<1> DEFINE Other == panicked' \notin {"freewalk: leaf", "uvmcopy: page not present"}
<1>1. ASSUME NEW p \in Proc, NEW v \in Advised, NEW x \in Val, store(p, v, x) PROVE Other
    BY <1>1 DEF store
<1>2. ASSUME NEW p \in Proc, NEW v \in VA, handle_pgfault(p, v) PROVE Other
    BY <1>2 DEF handle_pgfault
<1>3. ASSUME NEW p \in Proc, sbrk_grow(p) PROVE Other
    BY <1>3 DEF sbrk_grow
<1>4. ASSUME NEW p \in Proc, sbrk_shrink(p) PROVE Other
    BY <1>4 DEF sbrk_shrink
<1>5. ASSUME NEW p \in Proc, shrink_page(p) PROVE Other
    BY <1>5 DEF shrink_page
<1>6. ASSUME NEW p \in Proc, NEW b \in Advised, NEW l \in Advised, NEW a \in Advice, madvise(p, b, l, a) PROVE Other
    BY <1>6 DEF madvise
<1>7. ASSUME NEW p \in Proc, willneed_page(p) PROVE Other
    BY <1>7 DEF willneed_page
<1>8. ASSUME NEW p \in Proc, dontneed_page(p) PROVE Other
    BY <1>8 DEF dontneed_page
<1>9. ASSUME NEW p \in Proc, pin_page(p) PROVE Other
    BY <1>9 DEF pin_page
<1>10. ASSUME NEW p \in Proc, madvise_return(p) PROVE Other
    BY <1>10 DEF madvise_return
<1>11. ASSUME NEW p \in Proc, NEW c \in Proc, fork(p, c) PROVE Other
    BY <1>11 DEF fork
<1>12. ASSUME NEW p \in Proc, fork_return(p) PROVE Other
    BY <1>12 DEF fork_return
<1>13. ASSUME NEW p \in Proc, unfork_page(p) PROVE Other
    BY <1>13 DEF unfork_page
<1>14. ASSUME NEW p \in Proc, unfork_return(p) PROVE Other
    BY <1>14 DEF unfork_return
<1>15. ASSUME NEW p \in Proc, exit(p) PROVE Other
    BY <1>15 DEF exit
<1>16. ASSUME NEW p \in Proc, exit_page(p) PROVE Other
    BY <1>16 DEF exit_page
<1>17. ~halted
    BY DEF halted, vars
<1>18. QED
    BY <1>1, <1>2, <1>3, <1>4, <1>5, <1>6, <1>7, <1>8,
       <1>9, <1>10, <1>11, <1>12, <1>13, <1>14, <1>15, <1>16, <1>17 DEF Next

LEMMA PanicStep ==
    ASSUME TypeOK, Pages, Families, Spaces, PanicCauses, [Next]_vars
    PROVE  PanicCauses'
<1> USE DEF Doing, panic
<1>0. /\ pt \in [Proc -> [VA -> Pte]] /\ sz \in [Proc -> 0 .. MaxPages] /\ job \in [Proc -> Job]
      /\ user \in [Proc -> [VA -> Data]] /\ mem \in [Page -> Data] /\ child \in [Proc -> Proc \cup {Nil}]
      /\ MaxPages \in Nat /\ \A i \in Int : i \in VA <=> 0 <= i /\ i < MaxPages
      /\ \A q \in Proc : /\ sz[q] \in Int /\ 0 <= sz[q] /\ sz[q] <= MaxPages
                         /\ job[q].va \in Int /\ 0 <= job[q].va /\ job[q].va <= MaxPages
                         /\ job[q].last \in Int /\ -1 <= job[q].last /\ job[q].last < MaxPages
      /\ \A q \in Proc, w \in VA : pt[q][w] \in Pte
    BY Types
<1>1. CASE UNCHANGED vars
    BY <1>1 DEF vars, PanicCauses
<1>2. CASE panicked # ""
    <2>1. UNCHANGED vars
        BY <1>2, Stopped
    <2>2. QED
        BY <2>1, <1>1
<1>3. ASSUME NEW p \in Proc, freewalk(p), panicked' # "" PROVE PanicCauses'
    <2>1. job[p].op = "exit" /\ job[p].va > job[p].last
        BY <1>3 DEF freewalk
    <2>2. panicked' = "freewalk: leaf" /\ UNCHANGED <<pt, job>>
        BY <1>2, <1>3 DEF freewalk
    <2>3. \A v \in VA : v < job[p].va => ~pt[p][v].V
        BY <2>1 DEF Spaces, Space
    <2>4. \A v \in VA : v < job[p].va \/ v > job[p].last
        BY <1>0, <2>1 DEF VA
    <2>5. \A v \in VA : pt[p][v].V => v > job[p].last
        BY <2>3, <2>4
    <2>6. QED
        BY <2>1, <2>2, <2>5 DEF PanicCauses
<1>4. ASSUME NEW p \in Proc, uvmcopy_page(p), panicked' # "" PROVE PanicCauses'
    <2>1. job[p].op = "fork" /\ job[p].va <= job[p].last
        BY <1>4 DEF uvmcopy_page
    <2>2. panicked' = "uvmcopy: page not present" /\ UNCHANGED <<pt, job>> /\ ~pt[p][job[p].va].V
        BY <1>2, <1>4 DEF uvmcopy_page
    <2>3. job[p].last = sz[p] - 1 /\ \A v \in VA : v < sz[p] => pt[p][v].V \/ pt[p][v].S
        BY <2>1 DEF Spaces, Space
    <2>4. job[p].va \in VA /\ job[p].va < sz[p]
        BY <1>0, <2>1, <2>3
    <2>5. pt[p][job[p].va].S
        BY <2>2, <2>3, <2>4
    <2>6. QED
        BY <2>1, <2>2, <2>5 DEF PanicCauses
<1>5. CASE panicked = "" /\ panicked' \notin {"freewalk: leaf", "uvmcopy: page not present"}
    BY <1>5 DEF PanicCauses
<1>6. CASE panicked = "" /\ panicked' \in {"freewalk: leaf", "uvmcopy: page not present"} /\ Next
    <2>1. \E p \in Proc : freewalk(p) \/ uvmcopy_page(p)
        BY <1>6, Panics
    <2>2. panicked' # ""
        BY <1>6
    <2>3. QED
        BY <1>3, <1>4, <2>1, <2>2
<1>7. QED
    BY <1>1, <1>2, <1>5, <1>6

LEMMA UnmapTypes ==
    ASSUME TypeOK, Pages, NEW p \in Proc, NEW v \in VA, uvmunmap(p, v)
    PROVE  pt' \in [Proc -> [VA -> Pte]] /\ freep' \in Seq(Page) /\ mem' \in [Page -> Data]
<1>1. pt \in [Proc -> [VA -> Pte]] /\ freep \in Seq(Page) /\ mem \in [Page -> Data] /\ NoPte \in Pte
    BY DEF TypeOK, NoPte, Pte
<1>2. CASE UNCHANGED <<pt, memVars>>
    BY <1>1, <1>2 DEF memVars
<1>3. CASE pt[p][v].V /\ kfree(pt[p][v].a) /\ pt' = [pt EXCEPT ![p][v] = NoPte]
    <2>1. pt[p][v].a \in Page \ Unused
        BY <1>3 DEF Pages, Owners
    <2>2. freep' \in Seq(Page)
        BY <1>3, <2>1, Kfree DEF Pages
    <2>3. mem' \in [Page -> Data]
        BY <1>1, <1>3 DEF kfree, Data
    <2>4. QED
        BY <1>1, <1>3, <2>2, <2>3
<1>4. QED
    BY <1>2, <1>3 DEF uvmunmap

LEMMA ZeroTypes ==
    ASSUME TypeOK, Pages, NEW p \in Proc, NEW v \in VA, NEW g \in Page, kalloc(g),
           mem' = [mem EXCEPT ![g] = Zero], pt' = [pt EXCEPT ![p][v] = MapTo(g)]
    PROVE  pt' \in [Proc -> [VA -> Pte]] /\ freep' \in Seq(Page) /\ mem' \in [Page -> Data]
<1>1. pt \in [Proc -> [VA -> Pte]] /\ mem \in [Page -> Data] /\ MapTo(g) \in Pte
    BY DEF TypeOK, MapTo, Pte
<1>2. freep' \in Seq(Page)
    BY Kalloc DEF Pages
<1>3. QED
    BY <1>1, <1>2 DEF Data

\* What swapping, pinning and copying make of a pte.
LEMMA PteSwapped ==
    ASSUME NEW e \in Pte, NEW x \in Blk PROVE [e EXCEPT !.V = FALSE, !.S = TRUE, !.a = x] \in Pte
BY DEF Pte

LEMMA PtePinned ==
    ASSUME NEW e \in Pte, NEW x \in BOOLEAN PROVE [e EXCEPT !.P = x] \in Pte
BY DEF Pte

LEMMA PteMoved ==
    ASSUME NEW e \in Pte, NEW x \in Page PROVE [e EXCEPT !.a = x] \in Pte
BY DEF Pte

LEMMA PtSwapped ==
    ASSUME NEW p \in Proc, NEW v \in VA, NEW b \in Blk, pt \in [Proc -> [VA -> Pte]],
           pt' = [pt EXCEPT ![p][v].V = FALSE, ![p][v].S = TRUE, ![p][v].a = b]
    PROVE  pt' \in [Proc -> [VA -> Pte]]
<1> DEFINE e == [pt[p][v] EXCEPT !.V = FALSE, !.S = TRUE, !.a = b]
<1>1. pt' = [pt EXCEPT ![p] = [pt[p] EXCEPT ![v] = e]]
    OBVIOUS
<1>2. e \in Pte
    <2>1. pt[p][v] \in Pte
        OBVIOUS
    <2>2. QED
        BY <2>1 DEF Pte
<1>3. [pt[p] EXCEPT ![v] = e] \in [VA -> Pte]
    BY <1>2
<1>4. QED
    BY <1>1, <1>3

LEMMA PtPinned ==
    ASSUME NEW p \in Proc, NEW v \in VA, NEW x \in BOOLEAN, pt \in [Proc -> [VA -> Pte]],
           pt' = [pt EXCEPT ![p][v].P = x]
    PROVE  pt' \in [Proc -> [VA -> Pte]]
BY PtePinned

LEMMA StepTypes ==
    ASSUME TypeOK, NEW p \in Proc, Step(p), job[p].va < MaxPages
    PROVE  job' \in [Proc -> Job]
<1>1. job \in [Proc -> Job] /\ job[p].va + 1 \in 0 .. MaxPages
    BY Types
<1>2. [job[p] EXCEPT !.va = job[p].va + 1] \in Job
    BY <1>1 DEF Job
<1>3. QED
    BY <1>1, <1>2 DEF Step

LEMMA TypeStep ==
    ASSUME TypeOK, Pages, Families, Spaces, [Next]_vars
    PROVE  TypeOK'
<1> USE DEF Doing, panic
<1>0. /\ pt \in [Proc -> [VA -> Pte]] /\ sz \in [Proc -> 0 .. MaxPages] /\ job \in [Proc -> Job]
      /\ user \in [Proc -> [VA -> Data]] /\ mem \in [Page -> Data] /\ child \in [Proc -> Proc \cup {Nil}]
      /\ MaxPages \in Nat /\ \A i \in Int : i \in VA <=> 0 <= i /\ i < MaxPages
      /\ \A q \in Proc : /\ sz[q] \in Int /\ 0 <= sz[q] /\ sz[q] <= MaxPages
                         /\ job[q].va \in Int /\ 0 <= job[q].va /\ job[q].va <= MaxPages
                         /\ job[q].last \in Int /\ -1 <= job[q].last /\ job[q].last < MaxPages
      /\ \A q \in Proc, w \in VA : pt[q][w] \in Pte
    BY Types
<1>t. NoJob \in Job /\ Dead \in Job /\ NoPte \in Pte /\ Zero \in Data
    <2>1. 0 \in 0 .. MaxPages /\ 0 \in -1 .. MaxPages - 1
        BY DEF Stack
    <2>2. QED
        BY <2>1 DEF NoJob, Dead, Job, NoPte, Pte, Data
<1>1. CASE UNCHANGED vars
    BY <1>1 DEF vars, TypeOK
<1>2. ASSUME NEW p \in Proc, NEW v \in VA, NEW x \in Val, store(p, v, x) PROVE TypeOK'
    <2>1. pt[p][v].a \in Page /\ x \in Data
        BY <1>2 DEF store, Pages, Owners, Data
    <2>2. QED
        BY <1>2, <2>1 DEF store, TypeOK, blkVars
<1>3. ASSUME NEW p \in Proc, NEW v \in VA, handle_pgfault(p, v) PROVE TypeOK'
    <2>1. pt' \in [Proc -> [VA -> Pte]] /\ freep' \in Seq(Page) /\ mem' \in [Page -> Data]
        <3>1. CASE UNCHANGED <<pt, memVars>>
            BY <3>1 DEF TypeOK, memVars
        <3>2. CASE \E g \in Page : /\ kalloc(g) /\ mem' = [mem EXCEPT ![g] = Zero]
                                   /\ pt' = [pt EXCEPT ![p][v] = MapTo(g)]
            BY <3>2, ZeroTypes
        <3>3. QED
            BY <1>3, <3>1, <3>2 DEF handle_pgfault
    <2>2. QED
        BY <1>3, <2>1 DEF handle_pgfault, TypeOK, blkVars
<1>4. ASSUME NEW p \in Proc, sbrk_grow(p) PROVE TypeOK'
    <2>1. sz[p] < MaxPages /\ job[p].op = "user"
        BY <1>4 DEF sbrk_grow
    <2>2. sz[p] \in VA /\ sz[p] + 1 \in 0 .. MaxPages
        BY <1>0, <2>1
    <2>3. pt' \in [Proc -> [VA -> Pte]] /\ freep' \in Seq(Page) /\ mem' \in [Page -> Data]
        <3>1. CASE UNCHANGED <<pt, memVars>>
            BY <3>1 DEF TypeOK, memVars
        <3>2. CASE \E g \in Page : /\ kalloc(g) /\ mem' = [mem EXCEPT ![g] = Zero]
                                   /\ pt' = [pt EXCEPT ![p][sz[p]] = MapTo(g)]
            BY <2>2, <3>2, ZeroTypes
        <3>3. QED
            BY <1>4, <3>1, <3>2 DEF sbrk_grow
    <2>4. user' \in [Proc -> [VA -> Data]]
        <3>1. UNCHANGED user \/ user' = [user EXCEPT ![p][sz[p]] = Zero]
            BY <1>4 DEF sbrk_grow
        <3>2. user \in [Proc -> [VA -> Data]] /\ Zero \in Data
            BY <1>0, <1>t
        <3>3. QED
            BY <2>2, <3>1, <3>2
    <2>5. sz' \in [Proc -> 0 .. MaxPages]
        <3>1. sz' = sz \/ sz' = [sz EXCEPT ![p] = sz[p] + 1]
            BY <1>4 DEF sbrk_grow, panic
        <3>2. QED
            BY <1>0, <2>2, <3>1
    <2>6. QED
        BY <1>4, <2>3, <2>4, <2>5 DEF sbrk_grow, TypeOK, blkVars
<1>5. ASSUME NEW p \in Proc, sbrk_shrink(p) PROVE TypeOK'
    <2>1. [op |-> "shrink", va |-> sz[p] - 1, last |-> sz[p] - 1] \in Job
        <3>4. Stack \in Nat
            BY DEF Stack
        <3>5. Stack + 1 < sz[p]
            BY <1>5 DEF sbrk_shrink
        <3>1. Stack + 1 < sz[p] /\ Stack \in Nat
            BY <3>4, <3>5
        <3>2. sz[p] - 1 \in 0 .. MaxPages /\ sz[p] - 1 \in -1 .. MaxPages - 1
            BY <1>0, <3>1
        <3>3. QED
            BY <3>2 DEF Job
    <2>2. QED
        BY <1>5, <1>0, <2>1 DEF sbrk_shrink, TypeOK, memVars, blkVars
<1>6. ASSUME NEW p \in Proc, shrink_page(p) PROVE TypeOK'
    <2>1. job[p].va = sz[p] - 1
        BY <1>6 DEF shrink_page, Spaces, Space
    <2>2. job[p].va \in VA /\ job[p].va \in 0 .. MaxPages
        BY <1>0, <2>1
    <2>3. pt' \in [Proc -> [VA -> Pte]] /\ freep' \in Seq(Page) /\ mem' \in [Page -> Data]
        BY <1>6, <2>2, UnmapTypes DEF shrink_page
    <2>4. QED
        BY <1>6, <1>t, <2>2, <2>3 DEF shrink_page, TypeOK, blkVars
<1>7. ASSUME NEW p \in Proc, NEW b \in VA, NEW l \in VA, NEW a \in Advice, madvise(p, b, l, a) PROVE TypeOK'
    <2>1. [op |-> a, va |-> b, last |-> l] \in Job
        BY <1>0 DEF Job, VA
    <2>2. QED
        BY <1>7, <1>0, <2>1 DEF madvise, TypeOK, memVars, blkVars
<1>8. ASSUME NEW p \in Proc, willneed_page(p) PROVE TypeOK'
    <2>1. job[p].va <= job[p].last
        BY <1>8 DEF willneed_page
    <2>2. job[p].va \in VA /\ job[p].va < MaxPages
        BY <1>0, <2>1
    <2>3. pt' \in [Proc -> [VA -> Pte]] /\ freep' \in Seq(Page) /\ mem' \in [Page -> Data]
        <3>1. CASE UNCHANGED <<pt, memVars>>
            BY <3>1 DEF TypeOK, memVars
        <3>2. CASE \E g \in Page : /\ kalloc(g) /\ mem' = [mem EXCEPT ![g] = Zero]
                                   /\ pt' = [pt EXCEPT ![p][job[p].va] = MapTo(g)]
            BY <2>2, <3>2, ZeroTypes
        <3>3. QED
            BY <1>8, <3>1, <3>2 DEF willneed_page
    <2>4. job' \in [Proc -> Job]
        <3>1. Step(p) \/ job' = [job EXCEPT ![p] = NoJob]
            BY <1>8 DEF willneed_page
        <3>2. CASE job' = [job EXCEPT ![p] = NoJob]
            BY <1>0, <1>t, <3>2
        <3>3. QED
            BY <2>2, <3>1, <3>2, StepTypes
    <2>5. QED
        BY <1>8, <2>3, <2>4 DEF willneed_page, TypeOK, blkVars
<1>9. ASSUME NEW p \in Proc, dontneed_page(p) PROVE TypeOK'
    <2>1. job[p].va <= job[p].last
        BY <1>9 DEF dontneed_page
    <2>2. job[p].va \in VA /\ job[p].va < MaxPages
        BY <1>0, <2>1
    <2>3. CASE \E b \in freeb : swap_page_from_pte(p, job[p].va, b) /\ pt[p][job[p].va].V
        <3>1. PICK v \in VA : v = job[p].va
            BY <2>2
        <3>2. PICK b \in freeb : swap_page_from_pte(p, v, b) /\ pt[p][v].V
            BY <2>3, <3>1
        <3>3. b \in Blk /\ freeb' \subseteq Blk /\ pt[p][v].a \in Page \ Unused
            BY <3>2 DEF TypeOK, swap_page_from_pte, Pages, Owners
        <3>4. kfree(pt[p][v].a)
            BY <3>2 DEF swap_page_from_pte
        <3>5. freep' \in Seq(Page)
            BY <3>3, <3>4, Kfree DEF Pages
        <3>6. mem' \in [Page -> Data]
            BY <1>0, <3>4 DEF kfree, Data
        <3>7. swap' \in [Blk -> Data]
            BY <1>0, <3>2, <3>3 DEF swap_page_from_pte, TypeOK
        <3>8. pt' = [pt EXCEPT ![p][v].V = FALSE, ![p][v].S = TRUE, ![p][v].a = b]
            BY <3>2 DEF swap_page_from_pte
        <3>9. pt' \in [Proc -> [VA -> Pte]]
            BY <1>0, <3>3, <3>8, PtSwapped
        <3>10. freeb' \subseteq Blk /\ job' \in [Proc -> Job] /\ UNCHANGED <<sz, child, user>>
            <4>1. Step(p) /\ UNCHANGED <<sz, child, user>>
                BY <1>9, <3>1, <3>2 DEF dontneed_page
            <4>2. QED
                BY <2>2, <3>3, <4>1, StepTypes
        <3>11. QED
            BY <3>5, <3>6, <3>7, <3>9, <3>10 DEF TypeOK
    <2>4. CASE UNCHANGED <<pt, memVars, blkVars, sz, child, user>> /\ (Step(p) \/ UNCHANGED job)
        <3>1. job' \in [Proc -> Job]
            BY <1>0, <2>2, <2>4, StepTypes
        <3>2. QED
            BY <2>4, <3>1 DEF TypeOK, memVars, blkVars
    <2>5. QED
        BY <1>9, <2>3, <2>4 DEF dontneed_page
<1>10. ASSUME NEW p \in Proc, pin_page(p) PROVE TypeOK'
    <2>1. job[p].va <= job[p].last
        BY <1>10 DEF pin_page
    <2>2. job[p].va \in VA /\ job[p].va < MaxPages
        BY <1>0, <2>1
    <2>3. PICK v \in VA : v = job[p].va
        BY <2>2
    <2>4. pt' = [pt EXCEPT ![p][v].P = (job[p].op = "pin")] /\ Step(p)
        BY <1>10, <2>3 DEF pin_page
    <2>5. pt' \in [Proc -> [VA -> Pte]]
        BY <1>0, <2>4, PtPinned
    <2>6. job' \in [Proc -> Job]
        BY <2>2, <2>4, StepTypes
    <2>7. QED
        BY <1>10, <2>5, <2>6 DEF pin_page, TypeOK, memVars, blkVars
<1>11. ASSUME NEW p \in Proc, madvise_return(p) PROVE TypeOK'
    BY <1>11, <1>0, <1>t DEF madvise_return, TypeOK, memVars, blkVars
<1>12. ASSUME NEW p \in Proc, NEW c \in Proc, fork(p, c) PROVE TypeOK'
    <2>1. /\ [op |-> "fork", va |-> 0, last |-> sz[p] - 1] \in Job
          /\ [op |-> "embryo", va |-> 0, last |-> -1] \in Job
        <3>1. 0 \in 0 .. MaxPages /\ sz[p] - 1 \in -1 .. MaxPages - 1 /\ -1 \in -1 .. MaxPages - 1
            BY <1>0
        <3>2. QED
            BY <3>1 DEF Job
    <2>2. job' = [job EXCEPT ![p] = [op |-> "fork", va |-> 0, last |-> sz[p] - 1],
                             ![c] = [op |-> "embryo", va |-> 0, last |-> -1]]
        BY <1>12 DEF fork
    <2>3. job' \in [Proc -> Job]
        BY <1>0, <2>1, <2>2
    <2>4. QED
        BY <1>12, <2>3 DEF fork, TypeOK, memVars, blkVars
<1>13. ASSUME NEW p \in Proc, uvmcopy_page(p) PROVE TypeOK'
    <2>1. job[p].va <= job[p].last
        BY <1>13 DEF uvmcopy_page
    <2>2. job[p].va \in VA /\ job[p].va < MaxPages
        BY <1>0, <2>1
    <2>3. job[p].op = "fork"
        BY <1>13 DEF uvmcopy_page
    <2>4. PICK c \in Proc, v \in VA : c = child[p] /\ v = job[p].va
        BY <2>2, <2>3, Child
    <2>5. CASE \E g \in Page : /\ kalloc(g) /\ mem' = [mem EXCEPT ![g] = mem[pt[p][v].a]]
                               /\ pt' = [pt EXCEPT ![c][v] = [pt[p][v] EXCEPT !.a = g]]
                               /\ pt[p][v].V /\ user' = [user EXCEPT ![c][v] = user[p][v]]
                               /\ Step(p) /\ UNCHANGED <<sz, blkVars, child>>
        <3>1. PICK g \in Page : /\ kalloc(g) /\ mem' = [mem EXCEPT ![g] = mem[pt[p][v].a]]
                                /\ pt' = [pt EXCEPT ![c][v] = [pt[p][v] EXCEPT !.a = g]]
            BY <2>5
        <3>2. pt[p][v].a \in Page
            BY <2>5 DEF Pages, Owners
        <3>3. freep' \in Seq(Page) /\ mem' \in [Page -> Data]
            BY <1>0, <3>1, <3>2, Kalloc DEF Pages
        <3>4. [pt[p][v] EXCEPT !.a = g] \in Pte
            BY <1>0, PteMoved
        <3>8. pt' \in [Proc -> [VA -> Pte]]
            BY <1>0, <3>1, <3>4
        <3>9. user' \in [Proc -> [VA -> Data]]
            BY <1>0, <2>5
        <3>5. pt' \in [Proc -> [VA -> Pte]] /\ user' \in [Proc -> [VA -> Data]]
            BY <3>8, <3>9
        <3>6. job' \in [Proc -> Job]
            BY <2>2, <2>5, StepTypes
        <3>7. QED
            BY <2>5, <3>3, <3>5, <3>6 DEF TypeOK, blkVars
    <2>6. CASE UNCHANGED <<pt, sz, memVars, blkVars, child, user>> /\ job' \in [Proc -> Job]
        BY <2>6 DEF TypeOK, memVars, blkVars
    <2>7. [op |-> "unfork", va |-> 0, last |-> job[p].va - 1] \in Job
        <3>1. 0 \in 0 .. MaxPages /\ job[p].va - 1 \in -1 .. MaxPages - 1
            BY <1>0, <2>2
        <3>2. QED
            BY <3>1 DEF Job
    <2>8. /\ UNCHANGED job => job' \in [Proc -> Job]
          /\ job' = [job EXCEPT ![p] = [op |-> "unfork", va |-> 0, last |-> job[p].va - 1]] => job' \in [Proc -> Job]
        <3>1. PICK r \in Job : r = [op |-> "unfork", va |-> 0, last |-> job[p].va - 1]
            BY <2>7
        <3>2. job' = [job EXCEPT ![p] = r] => job' \in [Proc -> Job]
            BY <1>0
        <3>3. QED
            BY <1>0, <3>1, <3>2
    <2>9. QED
        BY <1>13, <2>4, <2>5, <2>6, <2>8 DEF uvmcopy_page
<1>14. ASSUME NEW p \in Proc, fork_return(p) PROVE TypeOK'
    <2>1. PICK c \in Proc : c = child[p]
        BY <1>14, Child DEF fork_return
    <2>2. /\ sz' = [sz EXCEPT ![c] = sz[p]] /\ job' = [job EXCEPT ![p] = NoJob, ![c] = NoJob]
          /\ child' = [child EXCEPT ![p] = Nil] /\ UNCHANGED <<pt, memVars, blkVars, user>>
        BY <1>14, <2>1 DEF fork_return
    <2>3. sz' \in [Proc -> 0 .. MaxPages] /\ job' \in [Proc -> Job] /\ child' \in [Proc -> Proc \cup {Nil}]
        BY <1>0, <1>t, <2>2
    <2>4. QED
        BY <2>2, <2>3 DEF TypeOK, memVars, blkVars
<1>15. ASSUME NEW p \in Proc, unfork_page(p) PROVE TypeOK'
    <2>1. job[p].va <= job[p].last
        BY <1>15 DEF unfork_page
    <2>2. job[p].va \in VA /\ job[p].va < MaxPages
        BY <1>0, <2>1
    <2>3. PICK c \in Proc : c = child[p]
        BY <1>15, Child DEF unfork_page
    <2>4. pt' \in [Proc -> [VA -> Pte]] /\ freep' \in Seq(Page) /\ mem' \in [Page -> Data]
        BY <1>15, <2>2, <2>3, UnmapTypes DEF unfork_page
    <2>5. job' \in [Proc -> Job]
        BY <1>15, <2>2, StepTypes DEF unfork_page
    <2>6. QED
        BY <1>15, <2>4, <2>5 DEF unfork_page, TypeOK, blkVars
<1>16. ASSUME NEW p \in Proc, unfork_return(p) PROVE TypeOK'
    <2>1. PICK c \in Proc : c = child[p]
        BY <1>16, Child DEF unfork_return
    <2>2. /\ job' = [job EXCEPT ![p] = NoJob, ![c] = Dead] /\ child' = [child EXCEPT ![p] = Nil]
          /\ pt' = [pt EXCEPT ![c] = [v \in VA |-> NoPte]] /\ user' = [user EXCEPT ![c] = [v \in VA |-> Zero]]
          /\ UNCHANGED <<sz, memVars, blkVars>>
        BY <1>16, <2>1 DEF unfork_return
    <2>3. job' \in [Proc -> Job] /\ child' \in [Proc -> Proc \cup {Nil}]
        BY <1>0, <1>t, <2>2
    <2>4. pt' \in [Proc -> [VA -> Pte]] /\ user' \in [Proc -> [VA -> Data]]
        BY <1>0, <1>t, <2>2
    <2>5. QED
        BY <2>2, <2>3, <2>4 DEF TypeOK, memVars, blkVars
<1>17. ASSUME NEW p \in Proc, exit(p) PROVE TypeOK'
    <2>1. [op |-> "exit", va |-> 0, last |-> sz[p] - 1] \in Job
        <3>1. 0 \in 0 .. MaxPages /\ sz[p] - 1 \in -1 .. MaxPages - 1
            BY <1>0
        <3>2. QED
            BY <3>1 DEF Job
    <2>2. QED
        BY <1>17, <1>0, <2>1 DEF exit, TypeOK, memVars, blkVars
<1>18. ASSUME NEW p \in Proc, exit_page(p) PROVE TypeOK'
    <2>1. job[p].va <= job[p].last
        BY <1>18 DEF exit_page
    <2>2. job[p].va \in VA /\ job[p].va < MaxPages
        BY <1>0, <2>1
    <2>3. pt' \in [Proc -> [VA -> Pte]] /\ freep' \in Seq(Page) /\ mem' \in [Page -> Data]
        BY <1>18, <2>2, UnmapTypes DEF exit_page
    <2>4. job' \in [Proc -> Job]
        BY <1>18, <2>2, StepTypes DEF exit_page
    <2>5. QED
        BY <1>18, <2>3, <2>4 DEF exit_page, TypeOK, blkVars
<1>19. ASSUME NEW p \in Proc, freewalk(p) PROVE TypeOK'
    <2>1. CASE UNCHANGED <<pt, sz, memVars, blkVars, job, child, user>>
        BY <2>1 DEF TypeOK, memVars, blkVars
    <2>2. CASE /\ pt' = [pt EXCEPT ![p] = [v \in VA |-> NoPte]] /\ user' = [user EXCEPT ![p] = [v \in VA |-> Zero]]
               /\ sz' = [sz EXCEPT ![p] = 0] /\ job' = [job EXCEPT ![p] = Dead]
               /\ UNCHANGED <<memVars, blkVars, child>>
        <3>1. pt' \in [Proc -> [VA -> Pte]] /\ user' \in [Proc -> [VA -> Data]]
            BY <1>0, <1>t, <2>2
        <3>2. sz' \in [Proc -> 0 .. MaxPages] /\ job' \in [Proc -> Job]
            BY <1>0, <1>t, <2>2
        <3>3. QED
            BY <2>2, <3>1, <3>2 DEF TypeOK, memVars, blkVars
    <2>3. QED
        BY <1>19, <2>1, <2>2 DEF freewalk
<1>20. QED
    BY <1>1, <1>2, <1>3, <1>4, <1>5, <1>6, <1>7, <1>8, <1>9, <1>10,
       <1>11, <1>12, <1>13, <1>14, <1>15, <1>16, <1>17, <1>18, <1>19 DEF Next, halted

-----------------------------------------------------------------------------
(* The theorems.                                                           *)

LEMMA PagingInit == Init => PagingInv
<1> SUFFICES ASSUME Init PROVE PagingInv
    OBVIOUS
<1>1. /\ Stack \in Nat /\ NPAGE \in Nat /\ MaxPages \in Nat /\ Stack < MaxPages /\ Stack < NPAGE
      /\ \A v \in VA : v \in Nat /\ (v <= Stack => v + 1 \in Page)
    BY DEF Stack, VA, Page
<1>2. /\ freep = [i \in 1 .. NPAGE - Stack - 1 |-> i + Stack + 1] /\ NPAGE - Stack - 1 \in Nat
      /\ \A i \in 1 .. NPAGE - Stack - 1 : i + Stack + 1 \in Page
    <2>1. freep = [i \in 1 .. NPAGE - Stack - 1 |-> i + Stack + 1]
        BY DEF Init
    <2>2. NPAGE - Stack - 1 \in Nat
        BY <1>1
    <2>3. ASSUME NEW i \in 1 .. NPAGE - Stack - 1 PROVE i + Stack + 1 \in Page
        BY <1>1, <2>2 DEF Page
    <2>4. QED
        BY <2>1, <2>2, <2>3
<1>3. freep \in Seq(Page) /\ Len(freep) = NPAGE - Stack - 1
    BY <1>2
<1>4. \A p \in Proc, v \in VA :
          /\ pt[p][v] \in Pte /\ ~pt[p][v].S
          /\ pt[p][v].V <=> p = First /\ v <= Stack
          /\ pt[p][v].V => pt[p][v].a = v + 1
    <2>1. ASSUME NEW p \in Proc, NEW v \in VA, p = First, v <= Stack
          PROVE  pt[p][v] = [V |-> TRUE, S |-> FALSE, U |-> (v # Guard), P |-> FALSE, a |-> v + 1]
        BY <2>1 DEF Init, MapTo
    <2>2. ASSUME NEW p \in Proc, NEW v \in VA, ~(p = First /\ v <= Stack)
          PROVE  pt[p][v] = [V |-> FALSE, S |-> FALSE, U |-> FALSE, P |-> FALSE, a |-> Nil]
        BY <2>2 DEF Init, NoPte
    <2>3. ASSUME NEW v \in VA, v <= Stack
          PROVE  [V |-> TRUE, S |-> FALSE, U |-> (v # Guard), P |-> FALSE, a |-> v + 1] \in Pte
        <3>1. v + 1 \in Page /\ (v # Guard) \in BOOLEAN
            BY <1>1, <2>3
        <3>2. PICK x \in Page, u \in BOOLEAN : x = v + 1 /\ u = (v # Guard)
            BY <3>1
        <3>3. [V |-> TRUE, S |-> FALSE, U |-> u, P |-> FALSE, a |-> x] \in Pte
            BY DEF Pte
        <3>4. QED
            BY <3>2, <3>3
    <2>4. [V |-> FALSE, S |-> FALSE, U |-> FALSE, P |-> FALSE, a |-> Nil] \in Pte
        BY DEF Pte
    <2>5. ASSUME NEW p \in Proc, NEW v \in VA
          PROVE  /\ pt[p][v] \in Pte /\ ~pt[p][v].S
                 /\ pt[p][v].V <=> p = First /\ v <= Stack
                 /\ pt[p][v].V => pt[p][v].a = v + 1
        <3>1. CASE p = First /\ v <= Stack
            <4>1. PICK u : u = (v # Guard)
                OBVIOUS
            <4>2. pt[p][v] = [V |-> TRUE, S |-> FALSE, U |-> u, P |-> FALSE, a |-> v + 1]
                BY <2>1, <3>1, <4>1
            <4>3. [V |-> TRUE, S |-> FALSE, U |-> u, P |-> FALSE, a |-> v + 1] \in Pte
                BY <2>3, <3>1, <4>1
            <4>4. QED
                BY <3>1, <4>2, <4>3
        <3>2. CASE ~(p = First /\ v <= Stack)
            BY <2>2, <2>4, <3>2
        <3>3. QED
            BY <3>1, <3>2
    <2>6. QED
        BY <2>5
<1>5. TypeOK
    <2>1. pt \in [Proc -> [VA -> Pte]]
        <3>1. pt = [p \in Proc |-> pt[p]] /\ \A p \in Proc : pt[p] = [v \in VA |-> pt[p][v]]
            BY DEF Init
        <3>2. QED
            BY <1>4, <3>1
    <2>2. sz \in [Proc -> 0 .. MaxPages]
        <3>1. 0 \in 0 .. MaxPages /\ Stack + 1 \in 0 .. MaxPages
            BY <1>1
        <3>2. QED
            BY <3>1 DEF Init
    <2>3. job \in [Proc -> Job]
        <3>1. 0 \in 0 .. MaxPages /\ 0 \in -1 .. MaxPages - 1
            BY <1>1
        <3>2. NoJob \in Job /\ Dead \in Job
            BY <3>1 DEF NoJob, Dead, Job
        <3>3. QED
            BY <3>2 DEF Init
    <2>4. /\ mem \in [Page -> Data] /\ freeb \subseteq Blk /\ swap \in [Blk -> Data]
          /\ child \in [Proc -> Proc \cup {Nil}] /\ user \in [Proc -> [VA -> Data]]
        BY DEF Init, Data
    <2>5. QED
        BY <1>3, <2>1, <2>2, <2>3, <2>4 DEF TypeOK
<1>6. Owners
    <2>1. Unused = {i + Stack + 1 : i \in 1 .. NPAGE - Stack - 1}
        BY <1>2, <1>3 DEF Unused
    <2>2. \A p \in Proc, v \in VA : pt[p][v].V => pt[p][v].a \in Page \ Unused
        BY <1>1, <1>4, <2>1
    <2>3. \A p, q \in Proc : \A v, w \in VA :
              pt[p][v].V /\ pt[q][w].V /\ pt[p][v].a = pt[q][w].a => p = q /\ v = w
        BY <1>1, <1>4
    <2>4. \A i, j \in 1 .. Len(freep) : freep[i] = freep[j] => i = j
        BY <1>1, <1>2, <1>3
    <2>5. ASSUME NEW g \in Page
          PROVE  g \in Unused \/ \E p \in Proc, v \in VA : pt[p][v].V /\ pt[p][v].a = g
        <3>1. CASE g <= Stack + 1
            <4>1. PICK v \in VA : v = g - 1
                BY <1>1, <3>1 DEF Page, VA
            <4>2. v <= Stack /\ v + 1 = g
                BY <1>1, <3>1, <4>1 DEF Page
            <4>3. pt[First][v].V /\ pt[First][v].a = g
                BY <1>4, <4>2
            <4>4. QED
                BY <4>3
        <3>2. CASE ~(g <= Stack + 1)
            <4>1. g - Stack - 1 \in 1 .. NPAGE - Stack - 1 /\ g = (g - Stack - 1) + Stack + 1
                BY <1>1, <3>2 DEF Page
            <4>2. QED
                BY <2>1, <4>1
        <3>3. QED
            BY <3>1, <3>2
    <2>6. QED
        BY <2>2, <2>3, <2>4, <2>5 DEF Owners
<1>7. SwapOwnership
    BY <1>4 DEF SwapOwnership
<1>8. Families
    BY <1>4 DEF Init, NoJob, Dead, Families, Family
<1>9. Spaces
    <2>1. \A p \in Proc : job[p].op = IF p = First THEN "user" ELSE "unused"
        BY DEF Init, NoJob, Dead
    <2>2. sz[First] = Stack + 1
        BY DEF Init
    <2>3. \A v \in VA : v < Stack + 1 => v <= Stack
        BY <1>1
    <2>4. \A v \in VA : v < sz[First] => pt[First][v].V
        BY <1>4, <2>2, <2>3
    <2>5. QED
        BY <2>1, <2>4 DEF Spaces, Space
<1>10. Isolation
    <2>1. \A p \in Proc, v \in VA : pt[p][v].V => mem[pt[p][v].a] = Zero
        <3>1. ASSUME NEW v \in VA, v <= Stack PROVE v + 1 \in Page /\ ~(v + 1 > Stack + 1)
            BY <1>1, <3>1
        <3>2. \A g \in Page : ~(g > Stack + 1) => mem[g] = Zero
            BY DEF Init
        <3>3. QED
            BY <1>4, <3>1, <3>2
    <2>2. QED
        BY <1>4, <2>1 DEF Isolation
<1>11. PanicCauses
    BY DEF Init, PanicCauses
<1>12. QED
    BY <1>5, <1>6, <1>7, <1>8, <1>9, <1>10, <1>11 DEF PagingInv

LEMMA PagingStep == PagingInv /\ [Next]_vars => PagingInv'
<1> SUFFICES ASSUME PagingInv, [Next]_vars PROVE PagingInv'
    OBVIOUS
<1>1. TypeOK /\ Pages /\ Families /\ Spaces /\ PanicCauses
    BY DEF PagingInv, Pages
<1>2. TypeOK' /\ Pages' /\ Families' /\ Spaces' /\ PanicCauses'
    BY <1>1, TypeStep, PagesStep, FamiliesStep, SpacesStep, PanicStep
<1>3. QED
    BY <1>2 DEF PagingInv, Pages

\* The inductive invariant holds in every reachable state.
THEOREM PagingInvariant == Spec => []PagingInv
<1>1. Init => PagingInv
    BY PagingInit
<1>2. PagingInv /\ [Next]_vars => PagingInv'
    BY PagingStep
<1>3. QED
    BY <1>1, <1>2, PTL DEF Spec

\* One owner each, counted: a page is once on the free list or at one user address.
LEMMA OneOwner == TypeOK /\ Owners => PageOwnership
<1> SUFFICES ASSUME TypeOK, Owners, NEW g \in Page PROVE Cardinality(Mapped(g)) + Cardinality(FreeAt(g)) = 1
    BY DEF PageOwnership
<1>1. DOMAIN freep = 1 .. Len(freep) /\ Len(freep) \in Nat
    BY DEF TypeOK
<1>2. Cardinality({}) = 0
    BY FS_EmptySet
<1>3. CASE g \in Unused
    <2>1. PICK i \in 1 .. Len(freep) : freep[i] = g
        BY <1>3 DEF Unused
    <2>2. FreeAt(g) = {i}
        BY <1>1, <2>1 DEF FreeAt, Owners
    <2>3. Mapped(g) = {}
        BY <1>3 DEF Mapped, Owners
    <2>4. Cardinality(FreeAt(g)) = 1
        BY <2>2, FS_Singleton
    <2>5. QED
        BY <1>2, <2>3, <2>4
<1>4. CASE g \notin Unused
    <2>1. PICK p \in Proc, v \in VA : pt[p][v].V /\ pt[p][v].a = g
        BY <1>4 DEF Owners
    <2>2. Mapped(g) = {<<p, v>>}
        <3>1. \A m \in Mapped(g) : m = <<p, v>>
            BY <2>1 DEF Mapped, Owners
        <3>2. <<p, v>> \in Mapped(g)
            BY <2>1 DEF Mapped
        <3>3. QED
            BY <3>1, <3>2
    <2>3. FreeAt(g) = {}
        BY <1>1, <1>4 DEF FreeAt, Unused
    <2>4. Cardinality(Mapped(g)) = 1
        BY <2>2, FS_Singleton
    <2>5. QED
        BY <1>2, <2>3, <2>4
<1>5. QED
    BY <1>3, <1>4

\* Every physical page is free once or mapped at one user address, and no block group has
\* two owners, or one while it is free: page faults, sbrk(), madvise(), fork() with its
\* failure path and exit() neither leak a page nor free one that is mapped.  Blocks do get
\* lost, see BlocksLost.
THEOREM PagesOwned == Spec => []Ownership
<1>1. PagingInv => Ownership
    BY OneOwner DEF PagingInv, Ownership
<1>2. QED
    BY <1>1, PagingInvariant, PTL

\* A process finds in its memory what it stored there last or zeros, never the data of
\* another process, through any number of page faults, swaps and forks.
THEOREM PagesIsolated == Spec => []Isolation
<1>1. PagingInv => Isolation
    BY DEF PagingInv
<1>2. QED
    BY <1>1, PagingInvariant, PTL

\* exit() panics only over a page that a fault mapped beyond p->sz, fork() only over
\* a page that is swapped out.
THEOREM PanicsExplained == Spec => []PanicCauses
<1>1. PagingInv => PanicCauses
    BY DEF PagingInv
<1>2. QED
    BY <1>1, PagingInvariant, PTL

-----------------------------------------------------------------------------
(* Where blocks are lost.                                                  *)

LEMMA KeptSame == ASSUME UNCHANGED <<pt, freeb>> PROVE Kept
BY DEF Kept

\* One page table changes, and none of its swapped pages loses its block.
LEMMA KeptOne ==
    ASSUME UNCHANGED freeb, NEW p \in Proc, \A q \in Proc \ {p} : pt'[q] = pt[q],
           \A w \in VA : pt[p][w].S => pt'[p][w] = pt[p][w] \/ pt'[p][w].V \/ job'[p].op = "unused"
    PROVE  Kept
BY DEF Kept

LEMMA KeptZero ==
    ASSUME TypeOK, UNCHANGED freeb, NEW p \in Proc, NEW v \in VA,
           UNCHANGED pt \/ \E g \in Page : pt' = [pt EXCEPT ![p][v] = MapTo(g)]
    PROVE  Kept
<1>1. CASE UNCHANGED pt
    BY <1>1, KeptSame
<1>2. CASE \E g \in Page : pt' = [pt EXCEPT ![p][v] = MapTo(g)]
    <2>1. /\ \A q \in Proc \ {p} : pt'[q] = pt[q]
          /\ \A w \in VA : w # v => pt'[p][w] = pt[p][w]
          /\ pt'[p][v].V
        BY <1>2, OneZero
    <2>2. QED
        BY <2>1, KeptOne
<1>3. QED
    BY <1>1, <1>2

LEMMA KeptUnmap ==
    ASSUME TypeOK, UNCHANGED freeb, NEW p \in Proc, NEW v \in VA, uvmunmap(p, v)
    PROVE  Kept
<1>1. CASE UNCHANGED pt
    BY <1>1, KeptSame
<1>2. CASE ~pt[p][v].S /\ pt' = [pt EXCEPT ![p][v] = NoPte]
    <2>1. SameBut(p, v) /\ \A q \in Proc \ {p} : pt'[q] = pt[q]
        BY <1>2, PtAt
    <2>2. \A w \in VA : pt[p][w].S => pt'[p][w] = pt[p][w]
        BY <1>2, <2>1 DEF SameBut
    <2>3. QED
        BY <2>1, <2>2, KeptOne
<1>3. QED
    BY <1>1, <1>2 DEF uvmunmap

\* The page table of c goes, and c with it.
LEMMA KeptDrop ==
    ASSUME TypeOK, UNCHANGED freeb, NEW c \in Proc, job'[c].op = "unused",
           pt' = [pt EXCEPT ![c] = [v \in VA |-> NoPte]]
    PROVE  Kept
<1>1. \A q \in Proc \ {c} : pt'[q] = pt[q]
    BY DEF TypeOK
<1>2. QED
    BY <1>1, KeptOne

LEMMA KeptSwap ==
    ASSUME TypeOK, SwapOwnership, NEW p \in Proc, NEW v \in VA, NEW b \in freeb,
           pt[p][v].V, swap_page_from_pte(p, v, b)
    PROVE  Kept
<1>1. pt \in [Proc -> [VA -> Pte]] /\ pt[p][v] \in Pte
    BY DEF TypeOK
<1>2. PICK e : e = [pt[p][v] EXCEPT !.V = FALSE, !.S = TRUE, !.a = b]
    OBVIOUS
<1>3. pt' = [pt EXCEPT ![p][v] = e]
    BY <1>1, <1>2 DEF swap_page_from_pte
<1>4. pt'[p][v] = e /\ SameBut(p, v)
    BY <1>3, PtAt
<1>5. e.S /\ e.a = b
    BY <1>1, <1>2 DEF Pte
<1>6. freeb \ freeb' \subseteq {b}
    BY DEF swap_page_from_pte
<1>7. ~pt[p][v].S
    BY DEF SwapOwnership
<1>8. \A q \in Proc, w \in VA : pt[q][w].S => pt'[q][w] = pt[q][w]
    BY <1>4, <1>7 DEF SameBut
<1>9. QED
    BY <1>4, <1>5, <1>6, <1>8 DEF Kept

LEMMA KeptStep ==
    ASSUME PagingInv, Next
    PROVE  Kept
<1> USE DEF Doing, Step, panic, blkVars, memVars
<1>t. TypeOK /\ SwapOwnership /\ Families /\ Spaces
    BY DEF PagingInv
<1>0. /\ pt \in [Proc -> [VA -> Pte]] /\ job \in [Proc -> Job]
      /\ MaxPages \in Nat /\ \A i \in Int : i \in VA <=> 0 <= i /\ i < MaxPages
      /\ \A q \in Proc : /\ sz[q] \in Int /\ 0 <= sz[q] /\ sz[q] <= MaxPages
                         /\ job[q].va \in Int /\ 0 <= job[q].va
                         /\ job[q].last \in Int /\ job[q].last < MaxPages
      /\ \A q \in Proc, w \in VA : pt[q][w] \in Pte
    BY <1>t, Types
<1>1. ASSUME NEW p \in Proc, NEW v \in VA, NEW x \in Val, store(p, v, x) PROVE Kept
    BY <1>1, KeptSame DEF store
<1>2. ASSUME NEW p \in Proc, NEW v \in VA, handle_pgfault(p, v) PROVE Kept
    <2>1. UNCHANGED freeb /\ (UNCHANGED pt \/ \E g \in Page : pt' = [pt EXCEPT ![p][v] = MapTo(g)])
        BY <1>2 DEF handle_pgfault
    <2>2. QED
        BY <1>t, <2>1, KeptZero
<1>3. ASSUME NEW p \in Proc, sbrk_grow(p) PROVE Kept
    <2>1. /\ sz[p] < MaxPages /\ UNCHANGED freeb
          /\ UNCHANGED pt \/ \E g \in Page : pt' = [pt EXCEPT ![p][sz[p]] = MapTo(g)]
        BY <1>3 DEF sbrk_grow
    <2>2. sz[p] \in VA
        BY <1>0, <2>1
    <2>3. QED
        BY <1>t, <2>1, <2>2, KeptZero
<1>4. ASSUME NEW p \in Proc, shrink_page(p) PROVE Kept
    <2>1. job[p].va = sz[p] - 1 /\ uvmunmap(p, job[p].va) /\ UNCHANGED freeb
        BY <1>t, <1>4 DEF shrink_page, Spaces, Space
    <2>2. job[p].va \in VA
        BY <1>0, <2>1
    <2>3. QED
        BY <1>t, <2>1, <2>2, KeptUnmap
<1>5. ASSUME NEW p \in Proc, sbrk_shrink(p) \/ madvise_return(p) \/ fork_return(p) \/ exit(p)
      PROVE  Kept
    BY <1>5, KeptSame DEF sbrk_shrink, madvise_return, fork_return, exit
<1>16. ASSUME NEW p \in Proc, NEW b \in Advised, NEW l \in Advised, NEW a \in Advice, madvise(p, b, l, a)
      PROVE  Kept
    BY <1>16, KeptSame DEF madvise
<1>6. ASSUME NEW p \in Proc, willneed_page(p) PROVE Kept
    <2>1. /\ job[p].va <= job[p].last /\ UNCHANGED freeb
          /\ UNCHANGED pt \/ \E g \in Page : pt' = [pt EXCEPT ![p][job[p].va] = MapTo(g)]
        BY <1>6 DEF willneed_page
    <2>2. job[p].va \in VA
        BY <1>0, <2>1
    <2>3. QED
        BY <1>t, <2>1, <2>2, KeptZero
<1>7. ASSUME NEW p \in Proc, dontneed_page(p) PROVE Kept
    <2>1. /\ job[p].va <= job[p].last
          /\ \/ UNCHANGED <<pt, freeb>>
             \/ pt[p][job[p].va].V /\ \E b \in freeb : swap_page_from_pte(p, job[p].va, b)
        BY <1>7 DEF dontneed_page
    <2>2. job[p].va \in VA
        BY <1>0, <2>1
    <2>3. QED
        BY <1>t, <2>1, <2>2, KeptSame, KeptSwap
<1>8. ASSUME NEW p \in Proc, pin_page(p) PROVE Kept
    <2>1. job[p].va <= job[p].last
        BY <1>8 DEF pin_page
    <2>2. PICK v \in VA : v = job[p].va
        BY <1>0, <2>1
    <2>3. pt' = [pt EXCEPT ![p][v].P = (job[p].op = "pin")] /\ UNCHANGED freeb
        BY <1>8, <2>2 DEF pin_page
    <2>4. \A q \in Proc, w \in VA : pt'[q][w].S = pt[q][w].S /\ pt'[q][w].a = pt[q][w].a
        BY <1>0, <2>3 DEF Pte
    <2>5. QED
        BY <2>3, <2>4 DEF Kept
<1>9. ASSUME NEW p \in Proc, NEW c \in Proc, fork(p, c) PROVE Kept
    BY <1>9, KeptSame DEF fork
<1>10. ASSUME NEW p \in Proc, uvmcopy_page(p) PROVE Kept
    <2>1. job[p].va <= job[p].last /\ job[p].op = "fork" /\ UNCHANGED freeb
        BY <1>10 DEF uvmcopy_page
    <2>2. PICK v \in VA : v = job[p].va
        BY <1>0, <2>1
    <2>3. PICK c \in Proc : c = child[p] /\ ~pt[c][v].S
        <3>1. child[p] \in Proc
            BY <1>t, <2>1 DEF Families, Family
        <3>2. ~(v < job[p].va)
            BY <1>0, <2>2
        <3>3. ~pt[child[p]][v].S
            BY <1>t, <2>1, <3>2 DEF Families, Family
        <3>4. QED
            BY <3>1, <3>3
    <2>4. CASE UNCHANGED pt
        BY <2>1, <2>4, KeptSame
    <2>5. CASE \E g \in Page : pt' = [pt EXCEPT ![c][v] = [pt[p][v] EXCEPT !.a = g]]
        <3>1. PICK e : pt' = [pt EXCEPT ![c][v] = e]
            BY <2>5
        <3>2. SameBut(c, v) /\ \A q \in Proc \ {c} : pt'[q] = pt[q]
            BY <1>t, <3>1, PtAt
        <3>3. \A w \in VA : pt[c][w].S => pt'[c][w] = pt[c][w]
            BY <2>3, <3>2 DEF SameBut
        <3>4. QED
            BY <2>1, <3>2, <3>3, KeptOne
    <2>6. QED
        BY <1>10, <2>2, <2>3, <2>4, <2>5 DEF uvmcopy_page
<1>11. ASSUME NEW p \in Proc, unfork_page(p) PROVE Kept
    <2>1. job[p].va <= job[p].last /\ job[p].op = "unfork" /\ uvmunmap(child[p], job[p].va) /\ UNCHANGED freeb
        BY <1>11 DEF unfork_page
    <2>2. job[p].va \in VA /\ child[p] \in Proc
        BY <1>0, <1>t, <2>1 DEF Families, Family
    <2>3. QED
        BY <1>t, <2>1, <2>2, KeptUnmap
<1>12. ASSUME NEW p \in Proc, unfork_return(p) PROVE Kept
    <2>1. PICK c \in Proc : c = child[p] /\ job[p].op = "unfork"
        BY <1>t, <1>12 DEF unfork_return, Families, Family
    <2>2. /\ pt' = [pt EXCEPT ![c] = [v \in VA |-> NoPte]] /\ UNCHANGED freeb
          /\ job' = [job EXCEPT ![p] = NoJob, ![c] = Dead]
        BY <1>12, <2>1 DEF unfork_return
    <2>3. job'[c].op = "unused"
        BY <1>0, <2>2 DEF Dead
    <2>4. QED
        BY <1>t, <2>2, <2>3, KeptDrop
<1>13. ASSUME NEW p \in Proc, exit_page(p) PROVE Kept
    <2>1. job[p].va <= job[p].last /\ uvmunmap(p, job[p].va) /\ UNCHANGED freeb
        BY <1>13 DEF exit_page
    <2>2. job[p].va \in VA
        BY <1>0, <2>1
    <2>3. QED
        BY <1>t, <2>1, <2>2, KeptUnmap
<1>14. ASSUME NEW p \in Proc, freewalk(p) PROVE Kept
    <2>1. CASE UNCHANGED <<pt, freeb>>
        BY <2>1, KeptSame
    <2>2. CASE pt' = [pt EXCEPT ![p] = [v \in VA |-> NoPte]] /\ job' = [job EXCEPT ![p] = Dead] /\ UNCHANGED freeb
        <3>1. job'[p].op = "unused"
            BY <1>0, <2>2 DEF Dead
        <3>2. QED
            BY <1>t, <2>2, <3>1, KeptDrop
    <2>3. QED
        BY <1>14, <2>1, <2>2 DEF freewalk
<1>15. CASE halted
    BY <1>15, KeptSame DEF halted, vars
<1>17. QED
    BY <1>1, <1>2, <1>3, <1>4, <1>5, <1>6, <1>7, <1>8, <1>9,
       <1>10, <1>11, <1>12, <1>13, <1>14, <1>15, <1>16 DEF Next

\* A block group is lost when another page is mapped over the swapped one, or with the
\* whole page table, and by no other step.
THEOREM BlocksLost == Spec => BlocksKept
<1>1. PagingInv /\ [Next]_vars => [Kept]_vars
    BY KeptStep
<1>2. QED
    BY <1>1, PagingInvariant, PTL DEF Spec, BlocksKept

-----------------------------------------------------------------------------
(* The page replacement buffer.  Tight and PrInv hold until two walkers    *)
(* race, Overlap says that they do; PrTypeOK holds for ever.               *)

HIDE PagingAssumption DEF PagingAssumption

WalkRecord == [op : Ops \cup {"idle", "map"}, pte : Ptes, last : Ptes,
               at : {"", "find", "evict", "pop", "push", "apply", "trim"},
               idx : -1 .. PG_BUF_SIZE - 1]

\* The types while nobody races: every index fits the array.
Tight ==
    /\ policy \in Policies
    /\ bucket \in BoundedSeq(Ptes, PG_BUF_SIZE)
    /\ fifo_flag \in {0, 1}
    /\ pinned \in BOOLEAN
    /\ V \subseteq Ptes /\ P \subseteq Ptes /\ S \subseteq Ptes
    /\ walks \in [Walkers -> WalkRecord]
    /\ seen \subseteq Ptes /\ older \subseteq seen \X seen
    /\ dropped \subseteq Ptes
    /\ overrun \in BOOLEAN

Distinct(s) == \A i, j \in DOMAIN s : i # j => s[i] # s[j]
Sorted(s) == \A i, j \in DOMAIN s : i < j => <<s[i], s[j]>> \in older
Latest(e) == \A d \in seen : d # e => <<d, e>> \in older
Holds(s, e) == \E i \in DOMAIN s : s[i] = e

\* What is not in s, and was not removed by madvise(), is older than all that is.
Gone(s, but) ==
    \A d \in (seen \ dropped) \ but : Holds(s, d) \/ \A i \in DOMAIN s : <<d, s[i]>> \in older

Busy(x, here) == walks[x].op # "idle" /\ walks[x].at = here
Quiet == \A x \in Walkers : ~Busy(x, "evict") /\ ~Busy(x, "push") /\ ~Busy(x, "pop")

\* Between two updates of the buffer it is in order; while one is under way, its entry is
\* the newest, and has no place yet (after pop(), or when it is new), or a wrong one.
Replacing(x) ==
    LET e == walks[x].pte IN
    /\ Busy(x, "evict") \/ Busy(x, "push") =>
          /\ Sorted(bucket) /\ ~Holds(bucket, e)
          /\ policy = "LRU" => e \in seen /\ Latest(e) /\ Gone(bucket, {e})
    /\ Busy(x, "evict") => Len(bucket) = PG_BUF_SIZE
    /\ Busy(x, "push") => Len(bucket) < PG_BUF_SIZE
    /\ Busy(x, "pop") =>
          /\ policy = "LRU" /\ walks[x].idx + 1 \in DOMAIN bucket /\ bucket[walks[x].idx + 1] = e
          /\ \A i, j \in DOMAIN bucket : i < j /\ bucket[i] # e /\ bucket[j] # e => <<bucket[i], bucket[j]>> \in older
          /\ e \in seen /\ Latest(e) /\ Gone(bucket, {e})
    /\ Busy(x, "trim") =>
          \/ walks[x].idx = -1 /\ ~Holds(bucket, e)
          \/ walks[x].idx + 1 \in DOMAIN bucket /\ bucket[walks[x].idx + 1] = e

PrInv ==
    /\ Tight /\ ~overrun /\ Distinct(bucket)
    /\ \A i \in DOMAIN bucket : bucket[i] \in seen
    /\ \A d \in Ptes : <<d, d>> \notin older
    /\ Quiet => Sorted(bucket) /\ (policy = "LRU" => Gone(bucket, {}))
    /\ \A x \in Walkers : Replacing(x)

LEMMA BoundedIs ==
    ASSUME NEW T, NEW n \in Nat, NEW s
    PROVE  s \in BoundedSeq(T, n) <=> s \in Seq(T) /\ Len(s) <= n
<1>1. ASSUME NEW m \in 0 .. n, s \in [1 .. m -> T]
      PROVE  s \in Seq(T) /\ Len(s) <= n
    BY <1>1
<1>2. ASSUME s \in Seq(T), Len(s) <= n
      PROVE  \E m \in 0 .. n : s \in [1 .. m -> T]
    <2>1. Len(s) \in 0 .. n /\ s \in [1 .. Len(s) -> T]
        BY <1>2, LenProperties
    <2>2. QED
        BY <2>1
<1>3. QED
    BY <1>1, <1>2 DEF BoundedSeq, SeqOf

LEMMA BucketIs ==
    ASSUME NEW s
    PROVE  s \in BoundedSeq(Ptes, PG_BUF_SIZE) <=> s \in Seq(Ptes) /\ Len(s) <= PG_BUF_SIZE
<1>1. PG_BUF_SIZE \in Nat
    BY PrBufferAssumption DEF PrBufferAssumption
<1>2. QED
    BY <1>1, BoundedIs

LEMMA TypesAre ==
    ASSUME Tight
    PROVE  /\ bucket \in Seq(Ptes) /\ Len(bucket) \in Nat /\ DOMAIN bucket = 1 .. Len(bucket)
           /\ Len(bucket) <= PG_BUF_SIZE /\ PG_BUF_SIZE \in Nat /\ PG_BUF_SIZE > 1 /\ NPTE \in Nat
           /\ \A i \in DOMAIN bucket : bucket[i] \in Ptes
<1>1. bucket \in Seq(Ptes) /\ Len(bucket) <= PG_BUF_SIZE
    BY BucketIs DEF Tight
<1>2. PG_BUF_SIZE \in Nat /\ PG_BUF_SIZE > 1 /\ NPTE \in Nat
    BY PrBufferAssumption DEF PrBufferAssumption
<1>3. QED
    BY <1>1, <1>2, LenProperties, ElementOfSeq

LEMMA RemoveAtIs ==
    ASSUME NEW T, NEW s \in Seq(T), NEW i \in 1 .. Len(s)
    PROVE  /\ RemoveAt(s, i) \in Seq(T) /\ Len(RemoveAt(s, i)) = Len(s) - 1
           /\ \A k \in 1 .. Len(s) - 1 : RemoveAt(s, i)[k] = IF k < i THEN s[k] ELSE s[k + 1]
<1> DEFINE a == SubSeq(s, 1, i - 1)
           b == SubSeq(s, i + 1, Len(s))
<1>1. Len(s) \in Nat /\ \A k \in 1 .. Len(s) : s[k] \in T
    BY LenProperties, ElementOfSeq
<1>2. /\ a \in Seq(T) /\ Len(a) = i - 1 /\ \A k \in 1 .. i - 1 : a[k] = s[k]
    <2>1. \A k \in 1 .. i - 1 : s[k] \in T
        BY <1>1
    <2>2. QED
        BY <1>1, <2>1, SubSeqProperties
<1>3. /\ b \in Seq(T) /\ Len(b) = Len(s) - i /\ \A k \in 1 .. Len(s) - i : b[k] = s[k + i]
    <2>1. \A k \in i + 1 .. Len(s) : s[k] \in T
        BY <1>1
    <2>2. /\ b \in Seq(T) /\ Len(b) = (IF i + 1 <= Len(s) THEN Len(s) - (i + 1) + 1 ELSE 0)
          /\ \A k \in 1 .. Len(s) - (i + 1) + 1 : b[k] = s[i + 1 + k - 1]
        BY <1>1, <2>1, SubSeqProperties
    <2>3. \A k \in 1 .. Len(s) - i : i + 1 + k - 1 = k + i
        BY <1>1
    <2>4. QED
        BY <1>1, <2>2, <2>3
<1> HIDE DEF a, b
<1>4. /\ a \o b \in Seq(T) /\ Len(a \o b) = Len(a) + Len(b)
      /\ \A k \in 1 .. Len(a) + Len(b) : (a \o b)[k] = IF k <= Len(a) THEN a[k] ELSE b[k - Len(a)]
    BY <1>2, <1>3, ConcatProperties
<1>5. ASSUME NEW k \in 1 .. Len(s) - 1 PROVE (a \o b)[k] = IF k < i THEN s[k] ELSE s[k + 1]
    <2>1. CASE k < i
        <3>1. k \in 1 .. i - 1 /\ k <= Len(a) /\ k \in 1 .. Len(a) + Len(b)
            BY <1>1, <1>2, <1>3, <2>1
        <3>2. QED
            BY <1>2, <1>4, <2>1, <3>1
    <2>2. CASE ~(k < i)
        <3>1. k - Len(a) \in 1 .. Len(s) - i /\ ~(k <= Len(a)) /\ k \in 1 .. Len(a) + Len(b) /\ (k - Len(a)) + i = k + 1
            BY <1>1, <1>2, <1>3, <2>2
        <3>2. QED
            BY <1>3, <1>4, <2>2, <3>1
    <2>3. QED
        BY <2>1, <2>2
<1>6. RemoveAt(s, i) = a \o b
    BY DEF RemoveAt, a, b
<1>7. QED
    BY <1>1, <1>2, <1>3, <1>4, <1>5, <1>6

\* lru_find(), q_find().
LEMMA FindIs ==
    ASSUME Tight, Distinct(bucket), NEW e
    PROVE  \/ find(e) = -1 /\ ~Holds(bucket, e)
           \/ find(e) + 1 \in DOMAIN bucket /\ bucket[find(e) + 1] = e /\ find(e) \in 0 .. Len(bucket) - 1
<1>1. DOMAIN bucket = 1 .. Len(bucket) /\ Len(bucket) \in Nat
    BY TypesAre
<1>2. CASE ~Holds(bucket, e)
    BY <1>1, <1>2 DEF find, Contains, Holds
<1>3. CASE Holds(bucket, e)
    <2>1. PICK k \in 1 .. Len(bucket) : bucket[k] = e
        BY <1>1, <1>3 DEF Holds
    <2>2. {i \in 1 .. Len(bucket) : bucket[i] = e} = {k}
        BY <1>1, <2>1 DEF Distinct
    <2>3. Min({k}) = k
        BY <1>1 DEF Min
    <2>4. SelectInSeq(bucket, LAMBDA y : y = e) = k
        BY <2>2, <2>3 DEF SelectInSeq
    <2>5. find(e) = k - 1
        BY <2>1, <2>4 DEF find, Contains
    <2>6. QED
        BY <1>1, <2>1, <2>5
<1>4. QED
    BY <1>2, <1>3

\* lru_pop() and q_pop_idx() within bounds: one entry goes, the others keep their order.
LEMMA PopIs ==
    ASSUME Tight, Distinct(bucket), ~overrun, NEW k, k + 1 \in DOMAIN bucket, k \in Int, pop(k)
    PROVE  /\ bucket' \in Seq(Ptes) /\ Len(bucket') = Len(bucket) - 1 /\ overrun' = overrun
           /\ DOMAIN bucket' = 1 .. Len(bucket) - 1
           /\ \A i \in DOMAIN bucket' :
                LET o == IF i < k + 1 THEN i ELSE i + 1
                IN  o \in DOMAIN bucket /\ o # k + 1 /\ bucket'[i] = bucket[o] /\ bucket'[i] # bucket[k + 1]
           /\ \A j \in DOMAIN bucket : j # k + 1 => \E i \in DOMAIN bucket' : bucket'[i] = bucket[j]
<1>1. bucket \in Seq(Ptes) /\ Len(bucket) \in Nat /\ DOMAIN bucket = 1 .. Len(bucket)
    BY TypesAre
<1>2. bucket' = RemoveAt(bucket, k + 1) /\ overrun' = overrun
    BY <1>1 DEF pop
<1>3. /\ bucket' \in Seq(Ptes) /\ Len(bucket') = Len(bucket) - 1
      /\ \A i \in 1 .. Len(bucket) - 1 : bucket'[i] = IF i < k + 1 THEN bucket[i] ELSE bucket[i + 1]
    BY <1>1, <1>2, RemoveAtIs
<1>4. DOMAIN bucket' = 1 .. Len(bucket) - 1
    BY <1>1, <1>3
<1>5. ASSUME NEW i \in DOMAIN bucket', NEW o, o = IF i < k + 1 THEN i ELSE i + 1
      PROVE  o \in DOMAIN bucket /\ o # k + 1 /\ bucket'[i] = bucket[o] /\ bucket'[i] # bucket[k + 1]
    BY <1>1, <1>3, <1>4, <1>5 DEF Distinct
<1>6. ASSUME NEW j \in DOMAIN bucket, j # k + 1 PROVE \E i \in DOMAIN bucket' : bucket'[i] = bucket[j]
    <2>1. CASE j < k + 1
        <3>1. j \in DOMAIN bucket' /\ bucket'[j] = bucket[j]
            BY <1>1, <1>3, <1>4, <2>1
        <3>2. QED
            BY <3>1
    <2>2. CASE ~(j < k + 1)
        <3>1. j - 1 \in DOMAIN bucket' /\ ~(j - 1 < k + 1) /\ (j - 1) + 1 = j
            BY <1>1, <1>4, <1>6, <2>2
        <3>2. bucket'[j - 1] = bucket[j]
            BY <1>3, <1>4, <3>1
        <3>3. QED
            BY <3>1, <3>2
    <2>3. QED
        BY <2>1, <2>2
<1>7. QED
    BY <1>2, <1>3, <1>4, <1>5, <1>6

\* What follows for the order: pop() keeps entries apart and in order, apart from the one that goes.
LEMMA PopKeeps ==
    ASSUME Tight, Distinct(bucket), ~overrun, NEW k, k + 1 \in DOMAIN bucket, k \in Int, pop(k),
           UNCHANGED <<older, seen>>
    PROVE  /\ Distinct(bucket') /\ ~Holds(bucket', bucket[k + 1])
           /\ Sorted(bucket) => Sorted(bucket)'
           /\ \A e : ~Holds(bucket, e) => ~Holds(bucket', e)
           /\ (\A i \in DOMAIN bucket : bucket[i] \in seen) => \A i \in DOMAIN bucket' : bucket'[i] \in seen'
           /\ (\A i, j \in DOMAIN bucket : i < j /\ bucket[i] # bucket[k + 1] /\ bucket[j] # bucket[k + 1]
                    => <<bucket[i], bucket[j]>> \in older)
              => Sorted(bucket)'
           /\ \A but : Gone(bucket, but) =>
                 \A d \in (seen \ dropped) \ but : d # bucket[k + 1] =>
                     Holds(bucket', d) \/ \A i \in DOMAIN bucket' : <<d, bucket'[i]>> \in older
<1>0. DOMAIN bucket = 1 .. Len(bucket) /\ Len(bucket) \in Nat
    BY TypesAre
<1> DEFINE Old(i) == IF i < k + 1 THEN i ELSE i + 1
<1>1. /\ DOMAIN bucket' = 1 .. Len(bucket) - 1
      /\ \A i \in DOMAIN bucket' : /\ Old(i) \in DOMAIN bucket /\ Old(i) # k + 1
                                   /\ bucket'[i] = bucket[Old(i)] /\ bucket'[i] # bucket[k + 1]
      /\ \A j \in DOMAIN bucket : j # k + 1 => \E i \in DOMAIN bucket' : bucket'[i] = bucket[j]
    BY PopIs
<1>2. \A i, j \in DOMAIN bucket' : i < j => Old(i) < Old(j)
    BY <1>0, <1>1
<1>3. \A i, j \in DOMAIN bucket' : i # j => Old(i) # Old(j)
    BY <1>0, <1>1
<1> HIDE DEF Old
<1>4. Distinct(bucket')
    BY <1>1, <1>3 DEF Distinct
<1>5. \A e : Holds(bucket', e) => Holds(bucket, e)
    BY <1>1 DEF Holds
<1>6. ~Holds(bucket', bucket[k + 1]) /\ (Sorted(bucket) => Sorted(bucket)')
    BY <1>1, <1>2 DEF Holds, Sorted
<1>7. (\A i, j \in DOMAIN bucket : i < j /\ bucket[i] # bucket[k + 1] /\ bucket[j] # bucket[k + 1]
                    => <<bucket[i], bucket[j]>> \in older)
      => Sorted(bucket)'
    BY <1>1, <1>2 DEF Sorted
<1>8. \A d : Holds(bucket, d) /\ d # bucket[k + 1] => Holds(bucket', d)
    BY <1>1 DEF Holds
<1>9. ASSUME NEW but, Gone(bucket, but), NEW d \in (seen \ dropped) \ but, d # bucket[k + 1]
      PROVE  Holds(bucket', d) \/ \A i \in DOMAIN bucket' : <<d, bucket'[i]>> \in older
    BY <1>1, <1>8, <1>9 DEF Gone
<1>10. QED
    BY <1>1, <1>4, <1>5, <1>6, <1>7, <1>9

\* lru_push() and q_push() of the newest entry.
LEMMA PushKeeps ==
    ASSUME Tight, Distinct(bucket), NEW e \in Ptes, ~Holds(bucket, e), bucket' = Append(bucket, e)
    PROVE  /\ bucket' \in Seq(Ptes) /\ Len(bucket') = Len(bucket) + 1 /\ Distinct(bucket')
           /\ DOMAIN bucket' = 1 .. Len(bucket) + 1
           /\ \A i \in DOMAIN bucket' : IF i = Len(bucket) + 1 THEN bucket'[i] = e
                                        ELSE i \in DOMAIN bucket /\ bucket'[i] = bucket[i]
           /\ Holds(bucket', e) /\ \A d : Holds(bucket, d) => Holds(bucket', d)
<1>1. bucket \in Seq(Ptes) /\ Len(bucket) \in Nat /\ DOMAIN bucket = 1 .. Len(bucket)
    BY TypesAre
<1>2. /\ bucket' \in Seq(Ptes) /\ Len(bucket') = Len(bucket) + 1
      /\ \A i \in 1 .. Len(bucket) : bucket'[i] = bucket[i]
      /\ bucket'[Len(bucket) + 1] = e
    BY <1>1, AppendProperties
<1>3. DOMAIN bucket' = 1 .. Len(bucket) + 1
    BY <1>1, <1>2
<1>4. \A i \in DOMAIN bucket' : IF i = Len(bucket) + 1 THEN bucket'[i] = e
                                ELSE i \in DOMAIN bucket /\ bucket'[i] = bucket[i]
    BY <1>1, <1>2, <1>3
<1>5. Distinct(bucket')
    BY <1>4 DEF Distinct, Holds
<1>6. /\ Len(bucket) + 1 \in DOMAIN bucket'
      /\ \A i \in DOMAIN bucket : i \in DOMAIN bucket' /\ bucket'[i] = bucket[i]
    BY <1>1, <1>2, <1>3
<1>7. Holds(bucket', e) /\ \A d : Holds(bucket, d) => Holds(bucket', d)
    BY <1>2, <1>6 DEF Holds
<1>8. QED
    BY <1>2, <1>3, <1>4, <1>5, <1>7

\* Its time of last use moves to now.
LEMMA NewestIs ==
    ASSUME Tight, NEW e \in Ptes, Newest(e), \A d \in Ptes : <<d, d>> \notin older
    PROVE  /\ seen' = seen \cup {e} /\ seen' \subseteq Ptes /\ older' \subseteq seen' \X seen'
           /\ \A d \in Ptes : <<d, d>> \notin older'
           /\ \A d \in seen : d # e => <<d, e>> \in older'
           /\ \A c, d \in Ptes : c # e /\ d # e => (<<c, d>> \in older' <=> <<c, d>> \in older)
<1>1. seen \subseteq Ptes /\ older \subseteq seen \X seen
    BY DEF Tight
<1>2. seen' = seen \cup {e} /\ older' = {d \in older : e \notin {d[1], d[2]}} \cup {<<d, e>> : d \in seen \ {e}}
    BY DEF Newest
<1>3. older' \subseteq seen' \X seen'
    BY <1>1, <1>2
<1>4. \A c, d \in Ptes : <<c, d>> \in older' <=> (<<c, d>> \in older /\ e \notin {c, d}) \/ (c \in seen \ {e} /\ d = e)
    BY <1>2
<1>5. QED
    BY <1>1, <1>2, <1>3, <1>4

LEMMA SizeIs == PG_BUF_SIZE \in Nat /\ PG_BUF_SIZE > 1 /\ NPTE \in Nat /\ NPTE > 0 /\ -1 \in -1 .. PG_BUF_SIZE - 1
<1>1. PG_BUF_SIZE \in Nat /\ PG_BUF_SIZE > 1 /\ NPTE \in Nat /\ NPTE > 0
    BY PrBufferAssumption DEF PrBufferAssumption
<1>2. QED
    BY <1>1

LEMMA WalkIs ==
    ASSUME Tight, NEW x \in Walkers
    PROVE  /\ walks \in [Walkers -> WalkRecord]
           /\ walks[x].op \in Ops \cup {"idle", "map"} /\ walks[x].pte \in Ptes /\ walks[x].last \in Ptes
           /\ walks[x].at \in {"", "find", "evict", "pop", "push", "apply", "trim"}
           /\ walks[x].idx \in -1 .. PG_BUF_SIZE - 1 /\ walks[x].idx \in Int
<1>1. walks \in [Walkers -> WalkRecord]
    BY DEF Tight
<1>2. walks[x] \in WalkRecord
    BY <1>1
<1>3. walks[x].idx \in -1 .. PG_BUF_SIZE - 1
    BY <1>2 DEF WalkRecord
<1>4. walks[x].idx \in Int
    BY <1>3, SizeIs
<1>5. QED
    BY <1>1, <1>2, <1>3, <1>4 DEF WalkRecord

\* A step of x leaves the other walkers where they are.
Others(x) == \A y \in Walkers \ {x} : walks'[y] = walks[y]

LEMMA GotoIs ==
    ASSUME Tight, NEW x \in Walkers, NEW i \in -1 .. PG_BUF_SIZE - 1,
           NEW there \in {"", "find", "evict", "pop", "push", "apply", "trim"},
           walks' = [walks EXCEPT ![x].idx = i, ![x].at = there]
    PROVE  /\ walks' \in [Walkers -> WalkRecord] /\ walks'[x].at = there /\ walks'[x].idx = i
           /\ Others(x)
           /\ walks'[x].op = walks[x].op /\ walks'[x].pte = walks[x].pte /\ walks'[x].last = walks[x].last
<1>1. walks \in [Walkers -> WalkRecord] /\ walks[x] \in WalkRecord
    BY WalkIs
<1>2. [walks[x] EXCEPT !.idx = i, !.at = there] \in WalkRecord
    BY <1>1 DEF WalkRecord
<1>3. walks' = [walks EXCEPT ![x] = [walks[x] EXCEPT !.idx = i, !.at = there]]
    BY <1>1
<1>4. walks' \in [Walkers -> WalkRecord] /\ walks'[x] = [walks[x] EXCEPT !.idx = i, !.at = there]
    BY <1>1, <1>2, <1>3
<1>5. Others(x)
    BY <1>1, <1>3 DEF Others
<1>6. QED
    BY <1>1, <1>4, <1>5 DEF WalkRecord

\* The same, with the index left as it is.
LEMMA GotoOnlyIs ==
    ASSUME Tight, NEW x \in Walkers,
           NEW there \in {"", "find", "evict", "pop", "push", "apply", "trim"}, Goto(x, there)
    PROVE  /\ walks' \in [Walkers -> WalkRecord] /\ walks'[x].at = there /\ walks'[x].idx = walks[x].idx
           /\ Others(x)
           /\ walks'[x].op = walks[x].op /\ walks'[x].pte = walks[x].pte /\ walks'[x].last = walks[x].last
<1>1. walks \in [Walkers -> WalkRecord] /\ walks[x] \in WalkRecord
    BY WalkIs
<1>2. walks' = [walks EXCEPT ![x] = [walks[x] EXCEPT !.at = there]]
    BY DEF Goto
<1>3. walks' \in [Walkers -> WalkRecord] /\ walks'[x] = [walks[x] EXCEPT !.at = there]
    BY <1>1, <1>2 DEF WalkRecord
<1>4. Others(x)
    BY <1>1, <1>2 DEF Others
<1>5. QED
    BY <1>1, <1>3, <1>4 DEF WalkRecord

\* Nobody but x is between a find and the use of its result.
Solo(x) == \A y \in Walkers \ {x} : ~Mid(y)

\* A walker that is or comes there without an overlap is there alone.
LEMMA SoloIs ==
    ASSUME ~Overlap, ~Overlap', NEW x \in Walkers, Others(x), Mid(x) \/ Mid(x)'
    PROVE  Solo(x) /\ Solo(x)'
<1>1. \A y \in Walkers \ {x} : Mid(y)' <=> Mid(y)
    BY DEF Others, Mid
<1>2. CASE Mid(x)
    BY <1>1, <1>2 DEF Overlap, Solo
<1>3. CASE Mid(x)'
    BY <1>1, <1>3 DEF Overlap, Solo
<1>4. QED
    BY <1>2, <1>3

\* Then what holds of x holds of all.
LEMMA Alone ==
    ASSUME NEW x \in Walkers, Solo(x), Solo(x)'
    PROVE  /\ Quiet <=> ~Busy(x, "evict") /\ ~Busy(x, "push") /\ ~Busy(x, "pop")
           /\ (\A y \in Walkers : Replacing(y)) <=> Replacing(x)
           /\ Quiet' <=> ~Busy(x, "evict")' /\ ~Busy(x, "push")' /\ ~Busy(x, "pop")'
           /\ (\A y \in Walkers : Replacing(y)') <=> Replacing(x)'
<1>1. ASSUME NEW y \in Walkers, y # x
      PROVE  ~Busy(y, "evict") /\ ~Busy(y, "push") /\ ~Busy(y, "pop") /\ ~Busy(y, "trim")
    BY <1>1 DEF Solo, Mid, Busy
<1>2. ASSUME NEW y \in Walkers, y # x
      PROVE  ~Busy(y, "evict")' /\ ~Busy(y, "push")' /\ ~Busy(y, "pop")' /\ ~Busy(y, "trim")'
    BY <1>2 DEF Solo, Mid, Busy
<1>3. ASSUME NEW y \in Walkers, y # x PROVE Replacing(y) /\ Replacing(y)'
    BY <1>1, <1>2, <1>3 DEF Replacing
<1>4. (Quiet <=> ~Busy(x, "evict") /\ ~Busy(x, "push") /\ ~Busy(x, "pop"))
    BY <1>1 DEF Quiet
<1>5. (Quiet' <=> ~Busy(x, "evict")' /\ ~Busy(x, "push")' /\ ~Busy(x, "pop")')
    BY <1>2 DEF Quiet
<1>6. QED
    BY <1>3, <1>4, <1>5

\* A step that leaves the buffer and its history alone and begins no update of it,
\* whatever the other walkers are doing.
LEMMA BufferStays ==
    ASSUME PrInv, Tight', NEW x \in Walkers, UNCHANGED <<policy, bucket, seen, older, dropped, overrun>>,
           Others(x),
           ~Busy(x, "evict"), ~Busy(x, "push"), ~Busy(x, "pop"),
           ~Busy(x, "evict")', ~Busy(x, "push")', ~Busy(x, "pop")',
           Busy(x, "trim")' =>
              \/ walks'[x].idx = -1 /\ ~Holds(bucket, walks'[x].pte)
              \/ walks'[x].idx + 1 \in DOMAIN bucket /\ bucket[walks'[x].idx + 1] = walks'[x].pte
    PROVE  PrInv'
<1>1. bucket' = bucket /\ seen' = seen /\ older' = older /\ dropped' = dropped /\ overrun' = overrun /\ policy' = policy
    OBVIOUS
<1>2. Replacing(x)'
    BY <1>1 DEF Replacing
<1>3. ASSUME NEW y \in Walkers, y # x PROVE Replacing(y)'
    <2>1. Replacing(y) /\ walks'[y] = walks[y]
        BY <1>3 DEF PrInv, Others
    <2>2. QED
        BY <1>1, <2>1 DEF Replacing, Busy, Sorted, Latest, Gone
<1>4. Quiet' => Quiet
    BY DEF Quiet, Others, Busy
<1>5. Quiet' => Sorted(bucket)' /\ (policy' = "LRU" => Gone(bucket, {})')
    BY <1>1, <1>4 DEF PrInv, Sorted, Gone
<1>6. Distinct(bucket)' /\ (\A i \in DOMAIN bucket' : bucket'[i] \in seen') /\ (\A d \in Ptes : <<d, d>> \notin older') /\ ~overrun'
    BY <1>1 DEF PrInv
<1>7. QED
    BY <1>2, <1>3, <1>5, <1>6 DEF PrInv

LEMMA EnterKeeps ==
    ASSUME PrInv, NEW x \in Walkers, NEW op \in Ops, NEW b \in Ptes, NEW l \in Ptes,
           enter(x, op, b, l), policy' = policy
    PROVE  PrInv'
<1>1. Tight
    BY DEF PrInv
<1>2. walks \in [Walkers -> WalkRecord] /\ -1 \in -1 .. PG_BUF_SIZE - 1
    BY <1>1, WalkIs, SizeIs
<1>3. walks' = [walks EXCEPT ![x] = [op |-> op, at |-> "find", pte |-> b, last |-> l, idx |-> -1]]
    BY DEF enter
<1>4. [op |-> op, at |-> "find", pte |-> b, last |-> l, idx |-> -1] \in WalkRecord
    BY <1>2 DEF WalkRecord
<1>5. walks' \in [Walkers -> WalkRecord] /\ walks'[x].at = "find" /\ Others(x)
    BY <1>2, <1>3, <1>4 DEF Others
<1>6. fifo_flag' \in {0, 1}
    BY <1>1 DEF enter, Tight
<1>7. UNCHANGED <<policy, bucket, seen, older, dropped, overrun, pinned, V, P, S>>
    BY DEF enter, pteVars
<1>8. Tight'
    BY <1>1, <1>5, <1>6, <1>7 DEF Tight
<1>9. walks[x].op = "idle"
    BY DEF enter
<1>10. /\ ~Busy(x, "evict") /\ ~Busy(x, "push") /\ ~Busy(x, "pop")
       /\ ~Busy(x, "evict")' /\ ~Busy(x, "push")' /\ ~Busy(x, "pop")' /\ ~Busy(x, "trim")'
    BY <1>5, <1>9 DEF Busy
<1>11. QED
    BY <1>5, <1>7, <1>8, <1>10, BufferStays

LEMMA SkipKeeps ==
    ASSUME PrInv, NEW x \in Walkers, walk_skip(x), policy' = policy
    PROVE  PrInv'
<1>1. Tight
    BY DEF PrInv
<1>2. Goto(x, "apply") /\ walks[x].at = "find"
    BY DEF walk_skip, StandsAt
<1>3. walks' \in [Walkers -> WalkRecord] /\ walks'[x].at = "apply" /\ Others(x)
    BY <1>1, <1>2, GotoOnlyIs
<1>4. UNCHANGED <<policy, bucket, seen, older, dropped, overrun, pinned, V, P, S, fifo_flag>>
    BY DEF walk_skip, pteVars
<1>5. Tight'
    BY <1>1, <1>3, <1>4 DEF Tight
<1>6. /\ ~Busy(x, "evict") /\ ~Busy(x, "push") /\ ~Busy(x, "pop")
      /\ ~Busy(x, "evict")' /\ ~Busy(x, "push")' /\ ~Busy(x, "pop")' /\ ~Busy(x, "trim")'
    BY <1>2, <1>3 DEF Busy
<1>7. QED
    BY <1>3, <1>4, <1>5, <1>6, BufferStays

LEMMA ApplyKeeps ==
    ASSUME PrInv, NEW x \in Walkers, apply(x), policy' = policy
    PROVE  PrInv'
<1>1. Tight /\ Distinct(bucket)
    BY DEF PrInv
<1> DEFINE e == walks[x].pte
           op == walks[x].op
<1>2. /\ walks \in [Walkers -> WalkRecord] /\ walks[x] \in WalkRecord
      /\ e \in Ptes /\ walks[x].last \in Ptes /\ NPTE \in Nat /\ PG_BUF_SIZE \in Nat /\ PG_BUF_SIZE > 1
    BY <1>1, WalkIs, SizeIs
<1>3. /\ walks[x].at = "apply" /\ op # "idle"
      /\ UNCHANGED <<policy, bucket, seen, older, dropped, overrun, pinned, fifo_flag>>
    BY DEF apply, StandsAt
<1>4. V' \subseteq Ptes /\ P' \subseteq Ptes /\ S' \subseteq Ptes
    BY <1>1, <1>2 DEF apply, Tight
<1>5. /\ walks' \in [Walkers -> WalkRecord]
      /\ \/ walks'[x].at \in {"find", ""}
         \/ walks'[x].at = "trim" /\ walks'[x].idx = find(e) /\ walks'[x].pte = e
    <2>1. CASE op = "fault"
        <3>0. walks' = [walks EXCEPT ![x].op = "map", ![x].at = "find"]
            BY <2>1 DEF apply
        <3>1. walks' = [walks EXCEPT ![x] = [walks[x] EXCEPT !.op = "map", !.at = "find"]]
            BY <1>2, <3>0
        <3>2. [walks[x] EXCEPT !.op = "map", !.at = "find"] \in WalkRecord
            BY <1>2 DEF WalkRecord
        <3>3. QED
            BY <1>2, <3>1, <3>2 DEF WalkRecord
    <2>2. CASE op # "fault" /\ e < walks[x].last
        <3>9. e # walks[x].last
            BY <1>2, <2>2 DEF Ptes
        <3>0. walks' = [walks EXCEPT ![x].at = "find", ![x].pte = e + 1]
            BY <2>2, <3>9 DEF apply
        <3>1. walks' = [walks EXCEPT ![x] = [walks[x] EXCEPT !.at = "find", !.pte = e + 1]]
            BY <1>2, <3>0
        <3>2. e + 1 \in Ptes
            BY <1>2, <2>2 DEF Ptes
        <3>3. [walks[x] EXCEPT !.at = "find", !.pte = e + 1] \in WalkRecord
            BY <1>2, <3>2 DEF WalkRecord
        <3>4. QED
            BY <1>2, <3>1, <3>3 DEF WalkRecord
    <2>3. CASE op = "dontneed" /\ e = walks[x].last
        <3>1. ~(e < walks[x].last)
            BY <1>2, <2>3 DEF Ptes
        <3>2. walks' = [walks EXCEPT ![x].at = "trim", ![x].idx = find(e)]
            BY <2>3, <3>1 DEF apply
        <3>3. walks' = [walks EXCEPT ![x] = [walks[x] EXCEPT !.at = "trim", !.idx = find(e)]]
            BY <1>2, <3>2
        <3>4. find(e) \in -1 .. PG_BUF_SIZE - 1
            BY <1>1, FindIs, TypesAre
        <3>5. [walks[x] EXCEPT !.at = "trim", !.idx = find(e)] \in WalkRecord
            BY <1>2, <3>4 DEF WalkRecord
        <3>6. QED
            BY <1>2, <3>3, <3>5 DEF WalkRecord
    <2>4. CASE op # "fault" /\ ~(e < walks[x].last) /\ ~(op = "dontneed" /\ e = walks[x].last)
        <3>1. walks' = [walks EXCEPT ![x] = Idle]
            BY <2>4 DEF apply
        <3>2. 1 \in Ptes
            BY <1>2 DEF Ptes
        <3>3. Idle \in WalkRecord
            BY <3>2, SizeIs DEF Idle, WalkRecord
        <3>4. QED
            BY <1>2, <3>1, <3>3 DEF Idle
    <2>5. QED
        BY <2>1, <2>2, <2>3, <2>4
<1>6. Tight'
    BY <1>1, <1>3, <1>4, <1>5 DEF Tight
<1>7. /\ ~Busy(x, "evict") /\ ~Busy(x, "push") /\ ~Busy(x, "pop")
      /\ ~Busy(x, "evict")' /\ ~Busy(x, "push")' /\ ~Busy(x, "pop")'
    BY <1>3, <1>5 DEF Busy
<1>8. Busy(x, "trim")' =>
          \/ walks'[x].idx = -1 /\ ~Holds(bucket, walks'[x].pte)
          \/ walks'[x].idx + 1 \in DOMAIN bucket /\ bucket[walks'[x].idx + 1] = walks'[x].pte
    BY <1>1, <1>5, FindIs DEF Busy
<1>9. UNCHANGED <<policy, bucket, seen, older, dropped, overrun>> /\ Others(x)
    BY <1>2, <1>3 DEF apply, Others
<1>10. QED
    BY <1>6, <1>7, <1>8, <1>9, BufferStays

LEMMA VmprintKeeps ==
    ASSUME PrInv, vmprint, policy' = policy
    PROVE  PrInv'
<1>1. UNCHANGED <<bucket, fifo_flag, V, P, S, walks, seen, older, dropped, overrun>> /\ pinned' = TRUE
    BY DEF vmprint, pteVars
<1>2. Tight'
    BY <1>1 DEF PrInv, Tight
<1>3. (Quiet => Sorted(bucket) /\ (policy = "LRU" => Gone(bucket, {})))'
    BY <1>1 DEF PrInv, Quiet, Sorted, Gone, Busy
<1>4. ASSUME NEW x \in Walkers PROVE Replacing(x)'
    <2>1. Replacing(x)
        BY DEF PrInv
    <2>2. QED
        BY <1>1, <2>1 DEF Replacing, Busy, Sorted, Latest, Gone
<1>5. QED
    BY <1>1, <1>2, <1>3, <1>4 DEF PrInv

LEMMA FindKeeps ==
    ASSUME PrInv, ~Overlap, ~Overlap', NEW x \in Walkers, walk_find(x), policy' = policy
    PROVE  PrInv'
<1> DEFINE e == walks[x].pte
           i == find(e)
<1>1. /\ Tight /\ Distinct(bucket) /\ ~overrun /\ (\A k \in DOMAIN bucket : bucket[k] \in seen)
      /\ \A d \in Ptes : <<d, d>> \notin older
    BY DEF PrInv
<1>2. e \in Ptes /\ walks[x].op # "idle" /\ walks[x].at = "find" /\ policy \in {"LRU", "FIFO"}
    BY <1>1, WalkIs, PrBufferAssumption DEF walk_find, StandsAt, Tight, PrBufferAssumption
<1>3. /\ bucket \in Seq(Ptes) /\ Len(bucket) \in Nat /\ DOMAIN bucket = 1 .. Len(bucket)
      /\ Len(bucket) <= PG_BUF_SIZE /\ \A k \in DOMAIN bucket : bucket[k] \in Ptes
    BY <1>1, TypesAre
<1>4. \/ i = -1 /\ ~Holds(bucket, e)
      \/ i + 1 \in DOMAIN bucket /\ bucket[i + 1] = e /\ i \in 0 .. Len(bucket) - 1
    BY <1>1, FindIs
<1>6. UNCHANGED <<policy, bucket, dropped, overrun, pinned, V, P, S, fifo_flag>>
    BY DEF walk_find, pteVars
<1>s. policy = "LRU" => Newest(e)
    BY DEF walk_find
<1>u. policy = "FIFO" => UNCHANGED <<seen, older>>
    BY DEF walk_find
<1>n. ~full <=> Len(bucket) < PG_BUF_SIZE
    BY <1>3, SizeIs DEF full
<1>f. full => Len(bucket) = PG_BUF_SIZE
    <2>1. Len(bucket) <= PG_BUF_SIZE /\ Len(bucket) \in Nat
        BY <1>3
    <2>2. ~(Len(bucket) < PG_BUF_SIZE) => Len(bucket) = PG_BUF_SIZE
        BY <2>1, SizeIs
    <2>3. QED
        BY <1>n, <2>2
<1> DEFINE there == CASE i = -1 /\ full  -> "evict"
                      [] i = -1 /\ ~full -> "push"
                      [] i >= 0 /\ policy = "LRU"  -> "pop"
                      [] i >= 0 /\ policy = "FIFO" -> "apply"
           index == IF policy = "LRU" THEN i ELSE -1
<1>w. walks' = [walks EXCEPT ![x].idx = index, ![x].at = there]
    BY DEF walk_find
<1>7. /\ i = -1 /\ full => there = "evict"
      /\ i = -1 /\ ~full => there = "push"
      /\ i >= 0 /\ policy = "LRU" => there = "pop"
      /\ i >= 0 /\ policy = "FIFO" => there = "apply"
    BY <1>2
<1> HIDE DEF there
<1>8. there \in {"evict", "push", "pop", "apply"} /\ index \in -1 .. PG_BUF_SIZE - 1
    BY <1>2, <1>3, <1>4, <1>7, SizeIs
<1> HIDE DEF index
<1>9. /\ walks' \in [Walkers -> WalkRecord] /\ walks'[x].at = there /\ walks'[x].idx = index
      /\ walks'[x].op = walks[x].op /\ walks'[x].pte = e /\ Others(x)
    <2>1. there \in {"", "find", "evict", "pop", "push", "apply", "trim"}
        BY <1>8
    <2> HIDE DEF e, i
    <2>2. /\ walks' \in [Walkers -> WalkRecord] /\ walks'[x].at = there /\ walks'[x].idx = index
          /\ walks'[x].op = walks[x].op /\ walks'[x].pte = walks[x].pte /\ Others(x)
        <3>1. Tight /\ index \in -1 .. PG_BUF_SIZE - 1
            BY <1>1, <1>8
        <3>2. QED
            BY <1>w, <2>1, <3>1, GotoIs, ZenonT(90)
    <2>3. QED
        BY <2>2 DEF e
<1>10. seen \subseteq seen' /\ seen' \subseteq Ptes /\ older' \subseteq seen' \X seen' /\ \A d \in Ptes : <<d, d>> \notin older'
    <2>1. CASE policy = "LRU"
        BY <1>1, <1>2, <1>s, <2>1, NewestIs
    <2>2. CASE policy = "FIFO"
        BY <1>1, <1>u, <2>2 DEF Tight
    <2>3. QED
        BY <1>2, <2>1, <2>2
<1>11. Tight'
    BY <1>1, <1>6, <1>9, <1>10 DEF Tight
<1>12. Distinct(bucket)' /\ ~overrun' /\ \A k \in DOMAIN bucket' : bucket'[k] \in seen'
    BY <1>1, <1>6, <1>10
<1>13. ~Busy(x, "trim")'
    BY <1>8, <1>9 DEF Busy
<1>a. CASE there = "apply"
    <2>1. policy = "FIFO"
        BY <1>2, <1>3, <1>4, <1>7, <1>a
    <2>2. /\ ~Busy(x, "evict") /\ ~Busy(x, "push") /\ ~Busy(x, "pop")
          /\ ~Busy(x, "evict")' /\ ~Busy(x, "push")' /\ ~Busy(x, "pop")'
        BY <1>2, <1>9, <1>a DEF Busy
    <2>3. UNCHANGED <<policy, bucket, seen, older, dropped, overrun>>
        BY <1>6, <1>u, <2>1
    <2>4. QED
        BY <1>9, <1>11, <1>13, <2>2, <2>3, BufferStays
<1> SUFFICES ASSUME there # "apply" PROVE PrInv'
    BY <1>a
<1>m. Solo(x) /\ Solo(x)'
    <2>1. Mid(x)'
        BY <1>2, <1>8, <1>9 DEF Mid
    <2>2. QED
        BY <1>9, <2>1, SoloIs
<1>5. Sorted(bucket) /\ (policy = "LRU" => Gone(bucket, {}))
    <2>1. Quiet
        BY <1>2, <1>m, Alone DEF Busy
    <2>2. QED
        BY <2>1 DEF PrInv
<1>14. CASE policy = "FIFO"
    <2>1. Sorted(bucket)'
        BY <1>5, <1>6, <1>u, <1>14 DEF Sorted
    <2>2. ~Busy(x, "pop")'
        BY <1>4, <1>7, <1>9, <1>14, <1>3 DEF Busy
    <2>3. Busy(x, "evict")' \/ Busy(x, "push")' => i = -1
        BY <1>2, <1>3, <1>4, <1>7, <1>9, <1>14 DEF Busy
    <2>4. (Busy(x, "evict")' => full) /\ (Busy(x, "push")' => ~full)
        BY <1>2, <1>3, <1>4, <1>7, <1>9, <1>14 DEF Busy
    <2>5. (Busy(x, "evict")' => Len(bucket) = PG_BUF_SIZE) /\ (Busy(x, "push")' => Len(bucket) < PG_BUF_SIZE)
        BY <1>f, <1>n, <2>4
    <2>6. Busy(x, "evict")' \/ Busy(x, "push")' => ~Holds(bucket, e)
        BY <1>3, <1>4, <2>3
    <2>7. Replacing(x)'
        BY <1>6, <1>9, <1>13, <1>14, <2>1, <2>2, <2>5, <2>6 DEF Replacing
    <2>8. \A y \in Walkers : Replacing(y)'
        BY <1>m, <2>7, Alone
    <2>9. QED
        BY <1>6, <1>10, <1>11, <1>12, <1>14, <2>1, <2>8 DEF PrInv
<1>15. CASE policy = "LRU"
    <2>1. /\ seen' = seen \cup {e}
          /\ \A d \in seen : d # e => <<d, e>> \in older'
          /\ \A c, d \in Ptes : c # e /\ d # e => (<<c, d>> \in older' <=> <<c, d>> \in older)
        BY <1>1, <1>2, <1>s, <1>15, NewestIs
    <2>2. e \in seen' /\ (\A d \in seen' : d # e => <<d, e>> \in older')
        BY <2>1
    <2>3. \A j, k \in DOMAIN bucket : j < k /\ bucket[j] # e /\ bucket[k] # e => <<bucket[j], bucket[k]>> \in older'
        BY <1>3, <1>5, <2>1 DEF Sorted
    <2>4. ASSUME NEW d \in (seen' \ dropped') \ {e}
          PROVE  Holds(bucket, d) \/ \A k \in DOMAIN bucket : <<d, bucket[k]>> \in older'
        <3>1. d \in seen \ dropped /\ d \in Ptes /\ d # e
            BY <1>1, <1>6, <2>1 DEF Tight
        <3>2. Holds(bucket, d) \/ \A k \in DOMAIN bucket : <<d, bucket[k]>> \in older
            BY <1>5, <1>15, <3>1 DEF Gone
        <3>3. ASSUME NEW k \in DOMAIN bucket, <<d, bucket[k]>> \in older PROVE <<d, bucket[k]>> \in older'
            <4>1. CASE bucket[k] = e
                BY <2>1, <3>1, <4>1
            <4>2. CASE bucket[k] # e
                BY <1>3, <2>1, <3>1, <3>3, <4>2
            <4>3. QED
                BY <4>1, <4>2
        <3>4. QED
            BY <3>2, <3>3
    <2>5. Gone(bucket, {e})'
        BY <1>6, <1>9, <2>4 DEF Gone
    <2>6. Latest(e)'
        BY <1>9, <2>2 DEF Latest
    <2>7. CASE i = -1
        <3>1. ~Holds(bucket, e)
            BY <1>3, <1>4, <2>7
        <3>2. Sorted(bucket)'
            BY <1>6, <2>3, <3>1 DEF Sorted, Holds
        <3>3. there \in {"evict", "push"}
            BY <1>7, <2>7
        <3>4. (Busy(x, "evict")' => full) /\ (Busy(x, "push")' => ~full) /\ ~Busy(x, "pop")'
            BY <1>7, <1>9, <2>7 DEF Busy
        <3>5. (Busy(x, "evict")' => Len(bucket) = PG_BUF_SIZE) /\ (Busy(x, "push")' => Len(bucket) < PG_BUF_SIZE)
            BY <1>f, <1>n, <3>4
        <3>6. Replacing(x)'
            BY <1>6, <1>9, <1>13, <2>2, <2>5, <2>6, <3>1, <3>2, <3>4, <3>5 DEF Replacing
        <3>7. (\A y \in Walkers : Replacing(y)') /\ ~Quiet'
            BY <1>2, <1>9, <1>m, <3>3, <3>6, Alone DEF Busy
        <3>8. QED
            BY <1>10, <1>11, <1>12, <3>7 DEF PrInv
    <2>8. CASE i # -1
        <3>1. i + 1 \in DOMAIN bucket /\ bucket[i + 1] = e /\ i >= 0
            BY <1>3, <1>4, <2>8
        <3>2. there = "pop" /\ index = i
            BY <1>7, <1>15, <3>1 DEF index
        <3>3. Busy(x, "pop")' /\ ~Busy(x, "evict")' /\ ~Busy(x, "push")'
            BY <1>2, <1>9, <3>2 DEF Busy
        <3>4. Replacing(x)'
            BY <1>6, <1>9, <1>13, <1>15, <2>2, <2>3, <2>5, <2>6, <3>1, <3>2, <3>3 DEF Replacing
        <3>5. (\A y \in Walkers : Replacing(y)') /\ ~Quiet'
            BY <1>m, <3>3, <3>4, Alone
        <3>6. QED
            BY <1>10, <1>11, <1>12, <3>5 DEF PrInv
    <2>9. QED
        BY <2>7, <2>8
<1>16. QED
    BY <1>2, <1>14, <1>15

LEMMA EvictKeeps ==
    ASSUME PrInv, ~Overlap, ~Overlap', NEW x \in Walkers, walk_evict(x), policy' = policy
    PROVE  PrInv'
<1> DEFINE e == walks[x].pte
<1>1. /\ Tight /\ Distinct(bucket) /\ ~overrun /\ (\A k \in DOMAIN bucket : bucket[k] \in seen)
      /\ \A d \in Ptes : <<d, d>> \notin older
    BY DEF PrInv
<1>2. Busy(x, "evict") /\ e \in Ptes /\ policy \in {"LRU", "FIFO"}
    BY <1>1, WalkIs, PrBufferAssumption DEF walk_evict, StandsAt, Busy, Tight, PrBufferAssumption
<1>3. /\ bucket \in Seq(Ptes) /\ Len(bucket) \in Nat /\ DOMAIN bucket = 1 .. Len(bucket)
      /\ \A k \in DOMAIN bucket : bucket[k] \in Ptes
    BY <1>1, TypesAre
<1>4. /\ Sorted(bucket) /\ ~Holds(bucket, e) /\ Len(bucket) = PG_BUF_SIZE
      /\ policy = "LRU" => e \in seen /\ Latest(e) /\ Gone(bucket, {e})
    BY <1>2 DEF PrInv, Replacing
<1>5. UNCHANGED <<policy, seen, older, dropped, pinned, V, P, S, fifo_flag>>
    BY DEF walk_evict, pteVars
<1>6. \E k \in {0, 1}, there \in {"push", "apply"} :
         pop(k) /\ Goto(x, there) /\ (policy = "LRU" => k = 0 /\ there = "push")
    <2>1. CASE policy = "FIFO" /\ IsZero(e) /\ ~pinned
        BY <2>1 DEF walk_evict
    <2>2. CASE policy = "FIFO" /\ ~(IsZero(e) /\ ~pinned) /\ fifo_flag = 1
        BY <2>2 DEF walk_evict
    <2>3. CASE ~(policy = "FIFO" /\ IsZero(e) /\ ~pinned) /\ ~(policy = "FIFO" /\ ~(IsZero(e) /\ ~pinned) /\ fifo_flag = 1)
        BY <2>3 DEF walk_evict
    <2>4. QED
        BY <2>1, <2>2, <2>3
<1>7. PICK k \in {0, 1}, there \in {"push", "apply"} :
         pop(k) /\ Goto(x, there) /\ (policy = "LRU" => k = 0 /\ there = "push")
    BY <1>6
<1>8. k \in Int /\ k + 1 \in DOMAIN bucket
    BY <1>3, <1>4, SizeIs
<1>9. /\ bucket' \in Seq(Ptes) /\ Len(bucket') = Len(bucket) - 1 /\ overrun' = overrun
      /\ \A j \in DOMAIN bucket' :
            LET o == IF j < k + 1 THEN j ELSE j + 1
            IN  o \in DOMAIN bucket /\ o # k + 1 /\ bucket'[j] = bucket[o]
    BY <1>1, <1>7, <1>8, PopIs
<1>10. /\ Distinct(bucket') /\ Sorted(bucket)' /\ ~Holds(bucket', e)
       /\ \A j \in DOMAIN bucket' : bucket'[j] \in seen'
       /\ \A but : Gone(bucket, but) =>
              \A d \in (seen \ dropped) \ but : d # bucket[k + 1] =>
                 Holds(bucket', d) \/ \A j \in DOMAIN bucket' : <<d, bucket'[j]>> \in older
    BY <1>1, <1>4, <1>5, <1>7, <1>8, PopKeeps
<1>11. /\ walks' \in [Walkers -> WalkRecord] /\ walks'[x].at = there /\ walks'[x].idx = walks[x].idx
       /\ walks'[x].op = walks[x].op /\ walks'[x].pte = e /\ Others(x)
    BY <1>1, <1>7, GotoOnlyIs
<1>m. Solo(x) /\ Solo(x)'
    <2>1. Mid(x)
        BY <1>2 DEF Mid, Busy
    <2>2. QED
        BY <1>11, <2>1, SoloIs
<1>12. bucket' \in BoundedSeq(Ptes, PG_BUF_SIZE) /\ Len(bucket') < PG_BUF_SIZE
    BY <1>4, <1>9, SizeIs, BucketIs
<1>13. Tight'
    BY <1>1, <1>5, <1>9, <1>11, <1>12 DEF Tight
<1>14. policy = "LRU" => Gone(bucket, {e})' /\ Latest(e)'
    <2>1. SUFFICES ASSUME policy = "LRU" PROVE Gone(bucket, {e})' /\ Latest(e)'
        OBVIOUS
    <2>2. k = 0 /\ Gone(bucket, {e}) /\ Latest(e)
        BY <1>4, <1>7, <2>1
    <2>3. ASSUME NEW d \in (seen \ dropped) \ {e}
          PROVE  Holds(bucket', d) \/ \A j \in DOMAIN bucket' : <<d, bucket'[j]>> \in older
        <3>1. CASE d # bucket[k + 1]
            BY <1>10, <2>2, <3>1
        <3>2. CASE d = bucket[k + 1]
            <4>1. ASSUME NEW j \in DOMAIN bucket', NEW o, o = IF j < k + 1 THEN j ELSE j + 1
                  PROVE  <<d, bucket'[j]>> \in older
                <5>1. o \in DOMAIN bucket /\ o # k + 1 /\ bucket'[j] = bucket[o]
                    BY <1>9, <4>1
                <5>2. 1 \in DOMAIN bucket /\ 1 < o /\ d = bucket[1]
                    BY <1>3, <1>8, <2>2, <3>2, <5>1
                <5>3. QED
                    BY <1>4, <5>1, <5>2 DEF Sorted
            <4>2. QED
                BY <4>1
        <3>3. QED
            BY <3>1, <3>2
    <2>4. QED
        BY <1>5, <1>11, <2>2, <2>3 DEF Gone, Latest
<1>15. Replacing(x)'
    <2>1. ~Busy(x, "evict")' /\ ~Busy(x, "pop")' /\ ~Busy(x, "trim")'
        BY <1>11 DEF Busy
    <2>2. policy = "LRU" => e \in seen'
        BY <1>4, <1>5
    <2>3. QED
        BY <1>5, <1>10, <1>11, <1>12, <1>14, <2>1, <2>2 DEF Replacing
<1>16. \A y \in Walkers : Replacing(y)'
    BY <1>m, <1>15, Alone
<1>17. Quiet' => Sorted(bucket)' /\ (policy' = "LRU" => Gone(bucket, {})')
    <2>1. policy = "LRU" => Busy(x, "push")'
        BY <1>2, <1>7, <1>11 DEF Busy
    <2>2. policy = "LRU" => ~Quiet'
        BY <1>m, <2>1, Alone
    <2>3. QED
        BY <1>5, <1>10, <2>2
<1>18. QED
    BY <1>1, <1>5, <1>9, <1>10, <1>13, <1>16, <1>17 DEF PrInv

LEMMA PopStepKeeps ==
    ASSUME PrInv, ~Overlap, ~Overlap', NEW x \in Walkers, walk_pop(x), policy' = policy
    PROVE  PrInv'
<1> DEFINE e == walks[x].pte
           k == walks[x].idx
<1>1. /\ Tight /\ Distinct(bucket) /\ ~overrun /\ (\A j \in DOMAIN bucket : bucket[j] \in seen)
      /\ \A d \in Ptes : <<d, d>> \notin older
    BY DEF PrInv
<1>2. Busy(x, "pop") /\ e \in Ptes /\ k \in Int
    BY <1>1, WalkIs DEF walk_pop, StandsAt, Busy
<1>3. /\ Len(bucket) \in Nat /\ DOMAIN bucket = 1 .. Len(bucket) /\ Len(bucket) <= PG_BUF_SIZE
    BY <1>1, TypesAre
<1>4. /\ policy = "LRU" /\ k + 1 \in DOMAIN bucket /\ bucket[k + 1] = e
      /\ \A i, j \in DOMAIN bucket : i < j /\ bucket[i] # e /\ bucket[j] # e => <<bucket[i], bucket[j]>> \in older
      /\ e \in seen /\ Latest(e) /\ Gone(bucket, {e})
    BY <1>2 DEF PrInv, Replacing
<1>5. UNCHANGED <<policy, seen, older, dropped, pinned, V, P, S, fifo_flag>>
    BY DEF walk_pop, pteVars
<1>6. pop(k) /\ walks' = [walks EXCEPT ![x].idx = -1, ![x].at = "push"]
    BY DEF walk_pop
<1>7. /\ bucket' \in Seq(Ptes) /\ Len(bucket') = Len(bucket) - 1 /\ overrun' = overrun
    BY <1>1, <1>2, <1>4, <1>6, PopIs
<1>8. /\ Distinct(bucket') /\ Sorted(bucket)' /\ ~Holds(bucket', e)
      /\ \A j \in DOMAIN bucket' : bucket'[j] \in seen'
      /\ \A but : Gone(bucket, but) =>
             \A d \in (seen \ dropped) \ but : d # bucket[k + 1] =>
                Holds(bucket', d) \/ \A j \in DOMAIN bucket' : <<d, bucket'[j]>> \in older
    <2> HIDE DEF k
    <2>1. QED
        BY <1>1, <1>2, <1>4, <1>5, <1>6, PopKeeps
<1>9. /\ walks' \in [Walkers -> WalkRecord] /\ walks'[x].at = "push" /\ walks'[x].idx = -1
      /\ walks'[x].op = walks[x].op /\ walks'[x].pte = e /\ Others(x)
    BY <1>1, <1>6, SizeIs, GotoIs
<1>m. Solo(x) /\ Solo(x)'
    <2>1. Mid(x)
        BY <1>2 DEF Mid, Busy
    <2>2. QED
        BY <1>9, <2>1, SoloIs
<1>10. bucket' \in BoundedSeq(Ptes, PG_BUF_SIZE) /\ Len(bucket') < PG_BUF_SIZE
    BY <1>3, <1>7, SizeIs, BucketIs
<1>11. Tight'
    BY <1>1, <1>5, <1>7, <1>9, <1>10 DEF Tight
<1>12. \A d \in (seen \ dropped) \ {e} : Holds(bucket', d) \/ \A j \in DOMAIN bucket' : <<d, bucket'[j]>> \in older
    BY <1>4, <1>8
<1>13. Gone(bucket, {e})' /\ Latest(e)'
    BY <1>4, <1>5, <1>9, <1>12 DEF Gone, Latest
<1>14. Busy(x, "push")' /\ ~Busy(x, "evict")' /\ ~Busy(x, "pop")' /\ ~Busy(x, "trim")'
    BY <1>2, <1>9 DEF Busy
<1>15. Replacing(x)'
    BY <1>4, <1>5, <1>8, <1>9, <1>10, <1>13, <1>14 DEF Replacing
<1>16. (\A y \in Walkers : Replacing(y)') /\ ~Quiet'
    BY <1>m, <1>14, <1>15, Alone
<1>17. QED
    BY <1>1, <1>5, <1>7, <1>8, <1>11, <1>16 DEF PrInv

LEMMA PushStepKeeps ==
    ASSUME PrInv, ~Overlap, ~Overlap', NEW x \in Walkers, walk_push(x), policy' = policy
    PROVE  PrInv'
<1> DEFINE e == walks[x].pte
<1>1. /\ Tight /\ Distinct(bucket) /\ ~overrun /\ (\A j \in DOMAIN bucket : bucket[j] \in seen)
      /\ \A d \in Ptes : <<d, d>> \notin older
    BY DEF PrInv
<1>2. Busy(x, "push") /\ e \in Ptes /\ policy \in {"LRU", "FIFO"}
    BY <1>1, WalkIs, PrBufferAssumption DEF walk_push, StandsAt, Busy, Tight, PrBufferAssumption
<1>3. /\ Len(bucket) \in Nat /\ DOMAIN bucket = 1 .. Len(bucket) /\ \A j \in DOMAIN bucket : bucket[j] \in Ptes
    BY <1>1, TypesAre
<1>4. /\ Sorted(bucket) /\ ~Holds(bucket, e) /\ Len(bucket) < PG_BUF_SIZE
      /\ policy = "LRU" => e \in seen /\ Latest(e) /\ Gone(bucket, {e})
    BY <1>2 DEF PrInv, Replacing
<1>5. UNCHANGED <<policy, overrun, pinned, V, P, S, fifo_flag>> /\ dropped' = dropped \ {e}
    BY DEF walk_push, pteVars
<1>6. bucket' = Append(bucket, e) /\ Goto(x, "apply")
    <2>1. ~full /\ Len(bucket) # PG_BUF_SIZE
        <3>1. Len(bucket) \in Nat /\ Len(bucket) < PG_BUF_SIZE
            BY <1>3, <1>4
        <3>2. PG_BUF_SIZE \in Nat
            BY SizeIs
        <3>3. QED
            BY <3>1, <3>2 DEF full
    <2>2. Goto(x, "apply")
        BY DEF walk_push
    <2>3. \/ bucket' = Append(bucket, walks[x].pte)
          \/ Len(bucket) = PG_BUF_SIZE
          \/ full
        BY DEF walk_push
    <2>4. QED
        BY <2>1, <2>2, <2>3
<1>7. /\ bucket' \in Seq(Ptes) /\ Len(bucket') = Len(bucket) + 1 /\ Distinct(bucket')
      /\ DOMAIN bucket' = 1 .. Len(bucket) + 1
      /\ \A i \in DOMAIN bucket' : IF i = Len(bucket) + 1 THEN bucket'[i] = e
                                   ELSE i \in DOMAIN bucket /\ bucket'[i] = bucket[i]
      /\ Holds(bucket', e) /\ \A d : Holds(bucket, d) => Holds(bucket', d)
    BY <1>1, <1>2, <1>4, <1>6, PushKeeps
<1>8. \A j \in DOMAIN bucket : bucket[j] # e
    BY <1>4 DEF Holds
<1>s. policy = "LRU" => UNCHANGED <<seen, older>>
    BY DEF walk_push
<1>u. policy = "FIFO" => Newest(e)
    BY DEF walk_push
<1>9. /\ seen' = seen \cup {e} /\ seen' \subseteq Ptes /\ older' \subseteq seen' \X seen'
      /\ \A d \in Ptes : <<d, d>> \notin older'
      /\ \A d \in seen : d # e => <<d, e>> \in older'
      /\ \A c, d \in Ptes : c # e /\ d # e => (<<c, d>> \in older' <=> <<c, d>> \in older)
    <2>1. CASE policy = "LRU"
        BY <1>1, <1>4, <1>s, <2>1 DEF Tight, Latest
    <2>2. CASE policy = "FIFO"
        BY <1>1, <1>2, <1>u, <2>2, NewestIs
    <2>3. QED
        BY <1>2, <2>1, <2>2
<1>10. Sorted(bucket)'
    <2>1. ASSUME NEW i \in DOMAIN bucket', NEW j \in DOMAIN bucket', i < j
          PROVE  <<bucket'[i], bucket'[j]>> \in older'
        <3>1. i \in DOMAIN bucket /\ bucket'[i] = bucket[i]
            BY <1>3, <1>7, <2>1
        <3>2. CASE j = Len(bucket) + 1
            BY <1>1, <1>7, <1>8, <1>9, <3>1, <3>2
        <3>3. CASE j # Len(bucket) + 1
            <4>1. j \in DOMAIN bucket /\ bucket'[j] = bucket[j]
                BY <1>7, <3>3
            <4>2. <<bucket[i], bucket[j]>> \in older
                BY <1>4, <2>1, <3>1, <4>1 DEF Sorted
            <4>3. QED
                BY <1>3, <1>8, <1>9, <3>1, <4>1, <4>2
        <3>4. QED
            BY <3>2, <3>3
    <2>2. QED
        BY <2>1 DEF Sorted
<1>11. policy = "LRU" => Gone(bucket, {})'
    <2>1. SUFFICES ASSUME policy = "LRU" PROVE Gone(bucket, {})'
        OBVIOUS
    <2>2. ASSUME NEW d \in (seen' \ dropped') \ {}
          PROVE  Holds(bucket', d) \/ \A i \in DOMAIN bucket' : <<d, bucket'[i]>> \in older'
        <3>1. CASE d = e
            BY <1>7, <3>1
        <3>2. CASE d # e
            <4>1. d \in (seen \ dropped) \ {e} /\ older' = older /\ Latest(e) /\ Gone(bucket, {e}) /\ d \in seen
                BY <1>4, <1>5, <1>s, <2>1, <2>2, <3>2
            <4>2. Holds(bucket, d) \/ \A i \in DOMAIN bucket : <<d, bucket[i]>> \in older
                BY <4>1 DEF Gone
            <4>3. <<d, e>> \in older
                BY <3>2, <4>1 DEF Latest
            <4>4. CASE Holds(bucket, d)
                BY <1>7, <4>4
            <4>5. CASE \A i \in DOMAIN bucket : <<d, bucket[i]>> \in older
                BY <1>7, <4>1, <4>3, <4>5
            <4>6. QED
                BY <4>2, <4>4, <4>5
        <3>3. QED
            BY <3>1, <3>2
    <2>3. QED
        BY <2>2 DEF Gone
<1>12. /\ walks' \in [Walkers -> WalkRecord] /\ walks'[x].at = "apply" /\ Others(x)
    BY <1>1, <1>6, GotoOnlyIs
<1>m. Solo(x) /\ Solo(x)'
    <2>1. Mid(x)
        BY <1>2 DEF Mid, Busy
    <2>2. QED
        BY <1>12, <2>1, SoloIs
<1>13. bucket' \in BoundedSeq(Ptes, PG_BUF_SIZE)
    BY <1>3, <1>4, <1>7, SizeIs, BucketIs
<1>14. Tight'
    BY <1>1, <1>5, <1>9, <1>12, <1>13 DEF Tight
<1>15. ~Busy(x, "push")' /\ ~Busy(x, "evict")' /\ ~Busy(x, "pop")' /\ ~Busy(x, "trim")'
    BY <1>12 DEF Busy
<1>16. \A y \in Walkers : Replacing(y)'
    BY <1>m, <1>15, Alone DEF Replacing
<1>17. \A j \in DOMAIN bucket' : bucket'[j] \in seen'
    BY <1>1, <1>7, <1>9
<1>18. QED
    BY <1>1, <1>5, <1>7, <1>9, <1>10, <1>11, <1>14, <1>16, <1>17 DEF PrInv

LEMMA TrimKeeps ==
    ASSUME PrInv, ~Overlap, ~Overlap', NEW x \in Walkers, dontneed_trim(x), policy' = policy
    PROVE  PrInv' /\ ~Holds(bucket', walks[x].pte)
<1> DEFINE e == walks[x].pte
           k == walks[x].idx
<1>1. /\ Tight /\ Distinct(bucket) /\ ~overrun /\ (\A j \in DOMAIN bucket : bucket[j] \in seen)
      /\ \A d \in Ptes : <<d, d>> \notin older
    BY DEF PrInv
<1>2. Busy(x, "trim") /\ e \in Ptes /\ k \in Int
    BY <1>1, WalkIs DEF dontneed_trim, StandsAt, Busy
<1>3. /\ bucket \in Seq(Ptes) /\ Len(bucket) \in Nat /\ DOMAIN bucket = 1 .. Len(bucket) /\ Len(bucket) <= PG_BUF_SIZE
    BY <1>1, TypesAre
<1>4. \/ k = -1 /\ ~Holds(bucket, e)
      \/ k + 1 \in DOMAIN bucket /\ bucket[k + 1] = e
    BY <1>2 DEF PrInv, Replacing
<1>5. UNCHANGED <<policy, seen, older, pinned, V, P, S, fifo_flag>>
    BY DEF dontneed_trim, pteVars
<1>6. walks' = [walks EXCEPT ![x] = Idle] /\ dropped \subseteq dropped' /\ dropped' \subseteq Ptes
      /\ (policy = "LRU" => e \in dropped')
    BY <1>1, <1>2 DEF dontneed_trim, Tight
<1>o. Others(x)
    BY <1>1, <1>6 DEF Others, Tight
<1>m. Solo(x) /\ Solo(x)'
    <2>1. Mid(x)
        BY <1>2 DEF Mid, Busy
    <2>2. QED
        BY <1>o, <2>1, SoloIs
<1>7. Sorted(bucket) /\ (policy = "LRU" => Gone(bucket, {}))
    <2>1. Quiet
        BY <1>2, <1>m, Alone DEF Busy
    <2>2. QED
        BY <2>1 DEF PrInv
<1>8. /\ bucket' \in Seq(Ptes) /\ Len(bucket') <= PG_BUF_SIZE /\ overrun' = overrun
      /\ Distinct(bucket') /\ Sorted(bucket)' /\ ~Holds(bucket', e)
      /\ \A j \in DOMAIN bucket' : bucket'[j] \in seen'
      /\ policy = "LRU" => \A d \in seen \ dropped :
             d # e => Holds(bucket', d) \/ \A j \in DOMAIN bucket' : <<d, bucket'[j]>> \in older
    <2>1. CASE k = -1
        <3>1. ~Holds(bucket, e)
            BY <1>3, <1>4, <2>1
        <3>2. bucket' = bucket /\ overrun' = overrun
            BY <2>1 DEF dontneed_trim
        <3>3. Sorted(bucket)'
            BY <1>5, <1>7, <3>2 DEF Sorted
        <3>4. QED
            BY <1>1, <1>3, <1>5, <1>7, <3>1, <3>2, <3>3 DEF Gone
    <2>2. CASE k # -1
        <3>1. k + 1 \in DOMAIN bucket /\ bucket[k + 1] = e
            BY <1>4, <2>2
        <3>3. pop(k)
            BY <2>2 DEF dontneed_trim
        <3>4. /\ bucket' \in Seq(Ptes) /\ Len(bucket') = Len(bucket) - 1 /\ overrun' = overrun
            BY <1>1, <1>2, <3>1, <3>3, PopIs
        <3>5. /\ Distinct(bucket') /\ Sorted(bucket)' /\ ~Holds(bucket', e)
              /\ \A j \in DOMAIN bucket' : bucket'[j] \in seen'
              /\ \A but : Gone(bucket, but) =>
                     \A d \in (seen \ dropped) \ but : d # bucket[k + 1] =>
                        Holds(bucket', d) \/ \A j \in DOMAIN bucket' : <<d, bucket'[j]>> \in older
            <4> HIDE DEF k
            <4>1. QED
                BY <1>1, <1>2, <1>5, <1>7, <3>1, <3>3, PopKeeps
        <3>6. Len(bucket') <= PG_BUF_SIZE
            BY <1>3, <3>4, SizeIs
        <3>7. policy = "LRU" => \A d \in (seen \ dropped) \ {} :
                 d # e => Holds(bucket', d) \/ \A j \in DOMAIN bucket' : <<d, bucket'[j]>> \in older
            BY <1>7, <3>1, <3>5
        <3>8. QED
            BY <3>4, <3>5, <3>6, <3>7
    <2>3. QED
        BY <2>1, <2>2
<1>9. policy' = "LRU" => Gone(bucket, {})'
    <2>1. SUFFICES ASSUME policy = "LRU" PROVE Gone(bucket, {})'
        BY <1>5
    <2>2. ASSUME NEW d \in (seen' \ dropped') \ {}
          PROVE  Holds(bucket', d) \/ \A j \in DOMAIN bucket' : <<d, bucket'[j]>> \in older'
        <3>1. d \in seen \ dropped /\ d # e
            BY <1>5, <1>6, <2>1, <2>2
        <3>2. QED
            BY <1>5, <1>8, <2>1, <3>1
    <2>3. QED
        BY <2>2 DEF Gone
<1>10. walks' \in [Walkers -> WalkRecord] /\ walks'[x].op = "idle"
    <2>1. 1 \in Ptes
        BY <1>2, SizeIs DEF Ptes
    <2>2. Idle \in WalkRecord
        BY <2>1, SizeIs DEF Idle, WalkRecord
    <2>3. walks \in [Walkers -> WalkRecord]
        BY <1>1, WalkIs
    <2>4. QED
        BY <1>6, <2>2, <2>3 DEF Idle
<1>11. bucket' \in BoundedSeq(Ptes, PG_BUF_SIZE)
    BY <1>8, BucketIs
<1>12. Tight'
    BY <1>1, <1>5, <1>6, <1>8, <1>10, <1>11 DEF Tight
<1>13. ~Busy(x, "push")' /\ ~Busy(x, "evict")' /\ ~Busy(x, "pop")' /\ ~Busy(x, "trim")'
    BY <1>10 DEF Busy
<1>14. \A y \in Walkers : Replacing(y)'
    BY <1>m, <1>13, Alone DEF Replacing
<1>15. QED
    BY <1>1, <1>5, <1>8, <1>9, <1>12, <1>14 DEF PrInv

LEMMA BufferBegins == ASSUME PrInit PROVE PrInv
<1>1. bucket = <<>> /\ seen = {} /\ older = {} /\ dropped = {} /\ overrun = FALSE
    BY DEF PrInit
<1>2. bucket \in Seq(Ptes) /\ Len(bucket) = 0 /\ DOMAIN bucket = {}
    BY <1>1, EmptySeq
<1>3. bucket \in BoundedSeq(Ptes, PG_BUF_SIZE)
    <2>1. Len(bucket) <= PG_BUF_SIZE
        BY <1>2, SizeIs
    <2>2. QED
        BY <1>2, <2>1, BucketIs
<1>4. walks \in [Walkers -> WalkRecord] /\ \A x \in Walkers : walks[x].op = "idle"
    <2>1. 1 \in Ptes
        BY SizeIs DEF Ptes
    <2>2. Idle \in WalkRecord
        BY <2>1, SizeIs DEF Idle, WalkRecord
    <2>3. walks = [x \in Walkers |-> Idle]
        BY DEF PrInit
    <2>4. QED
        BY <2>2, <2>3 DEF Idle
<1>5. Tight
    BY <1>1, <1>3, <1>4 DEF PrInit, Tight, WalkRecord
<1>6. \A x \in Walkers : Replacing(x)
    BY <1>4 DEF Replacing, Busy
<1>7. QED
    BY <1>1, <1>2, <1>5, <1>6 DEF PrInv, Distinct, Sorted, Gone

LEMMA BufferGoesOn == ASSUME PrInv, ~Overlap, ~Overlap', [PrNext]_prvars PROVE PrInv'
<1>1. CASE UNCHANGED prvars
    <2>1. UNCHANGED <<policy, bucket, fifo_flag, pinned, V, P, S, walks, seen, older, dropped, overrun>>
        BY <1>1 DEF prvars
    <2>2. Tight'
        BY <2>1 DEF PrInv, Tight
    <2>3. (Quiet => Sorted(bucket) /\ (policy = "LRU" => Gone(bucket, {})))'
        BY <2>1 DEF PrInv, Quiet, Sorted, Gone, Busy
    <2>4. ASSUME NEW x \in Walkers PROVE Replacing(x)'
        <3>1. Replacing(x)
            BY DEF PrInv
        <3>2. QED
            BY <2>1, <3>1 DEF Replacing, Busy, Sorted, Latest, Gone
    <2>5. QED
        BY <2>1, <2>2, <2>3, <2>4 DEF PrInv
<1>2. CASE PrNext
    <2>1. policy' = policy /\ PrStep /\ ~overrun
        BY <1>2 DEF PrNext, PrInv
    <2>2. CASE \E x \in Walkers : \E op \in Ops \ {"vmprint"}, b, l \in Ptes : enter(x, op, b, l)
        BY <2>1, <2>2, EnterKeeps
    <2>3. CASE \E x \in Walkers : walk_find(x) \/ walk_skip(x) \/ walk_evict(x) \/ walk_pop(x)
        BY <2>1, <2>3, FindKeeps, SkipKeeps, EvictKeeps, PopStepKeeps
    <2>4. CASE \E x \in Walkers : walk_push(x) \/ apply(x) \/ dontneed_trim(x)
        BY <2>1, <2>4, PushStepKeeps, ApplyKeeps, TrimKeeps
    <2>5. CASE vmprint
        BY <2>1, <2>5, VmprintKeeps
    <2>6. CASE stopped
        BY <2>1, <2>6 DEF stopped
    <2>7. QED
        BY <2>1, <2>2, <2>3, <2>4, <2>5, <2>6 DEF PrStep
<1>3. QED
    BY <1>1, <1>2

-----------------------------------------------------------------------------
(* The types, whoever races.                                               *)

WideRecord == [op : Ops \cup {"idle", "map"}, pte : Ptes, last : Ptes,
               at : {"", "find", "evict", "pop", "push", "apply", "trim"},
               idx : -1 .. PG_BUF_SIZE]

LEMMA Least ==
    ASSUME NEW I, I \subseteq Nat, I # {}
    PROVE  \E i \in I : \A j \in I : i <= j
<1> DEFINE R == {ss \in Nat \X Nat : ss[1] < ss[2]}
<1>1. IsWellFoundedOn(R, Nat)
    BY NatLessThanWellFounded DEF OpToRel
<1> HIDE DEF R
<1>2. PICK i \in I : \A j \in I : ~(<<j, i>> \in R)
    BY <1>1, WFMin
<1>3. ASSUME NEW j \in I PROVE i <= j
    <2>1. i \in Nat /\ j \in Nat /\ ~(<<j, i>> \in R)
        BY <1>2
    <2>2. QED
        BY <2>1 DEF R
<1>4. QED
    BY <1>3

LEMMA WideIs ==
    ASSUME PrTypeOK
    PROVE  /\ bucket \in Seq(Ptes \cup {0}) /\ Len(bucket) \in Nat /\ DOMAIN bucket = 1 .. Len(bucket)
           /\ Len(bucket) <= PG_BUF_SIZE + 1 /\ (policy = "LRU" => Len(bucket) <= PG_BUF_SIZE)
           /\ walks \in [Walkers -> WideRecord]
<1>1. PG_BUF_SIZE + 1 \in Nat
    BY SizeIs
<1>2. bucket \in Seq(Ptes \cup {0}) /\ Len(bucket) <= PG_BUF_SIZE + 1
    BY <1>1, BoundedIs DEF PrTypeOK
<1>3. QED
    BY <1>2, LenProperties DEF PrTypeOK, WideRecord

\* lru_find() and q_find() return -1 or an index within the buffer, duplicates or not.
LEMMA FindBounds ==
    ASSUME PrTypeOK, NEW e
    PROVE  find(e) \in -1 .. Len(bucket) - 1
<1>1. DOMAIN bucket = 1 .. Len(bucket) /\ Len(bucket) \in Nat
    BY WideIs
<1> DEFINE I == {i \in 1 .. Len(bucket) : bucket[i] = e}
<1>2. CASE I = {}
    <2>1. ~Contains(bucket, e)
        BY <1>2 DEF Contains
    <2>2. QED
        BY <1>1, <2>1 DEF find
<1>3. CASE I # {}
    <2>1. \E i \in I : \A j \in I : i <= j
        <3>1. I \subseteq Nat
            BY <1>1
        <3>2. QED
            BY <1>3, <3>1, Least
    <2>2. Min(I) \in I
        BY <2>1 DEF Min
    <2>3. SelectInSeq(bucket, LAMBDA y : y = e) = Min(I)
        BY <1>3 DEF SelectInSeq
    <2>4. Contains(bucket, e)
        BY <1>3 DEF Contains
    <2>5. find(e) = Min(I) - 1
        BY <2>3, <2>4 DEF find
    <2>6. QED
        BY <1>1, <2>2, <2>5
<1>4. QED
    BY <1>2, <1>3

LEMMA PopTypes ==
    ASSUME PrTypeOK, NEW k \in Int, pop(k)
    PROVE  bucket' \in Seq(Ptes \cup {0}) /\ Len(bucket') \in Nat /\ Len(bucket') <= Len(bucket) /\ overrun' \in BOOLEAN
<1>1. bucket \in Seq(Ptes \cup {0}) /\ Len(bucket) \in Nat /\ overrun \in BOOLEAN
    BY WideIs DEF PrTypeOK
<1>2. CASE k \in 0 .. Len(bucket) - 1
    <2>1. k + 1 \in 1 .. Len(bucket) /\ bucket' = RemoveAt(bucket, k + 1) /\ overrun' = overrun
        BY <1>1, <1>2 DEF pop
    <2>2. bucket' \in Seq(Ptes \cup {0}) /\ Len(bucket') = Len(bucket) - 1
        BY <1>1, <2>1, RemoveAtIs
    <2>3. QED
        BY <1>1, <1>2, <2>1, <2>2, LenProperties
<1>3. CASE k \notin 0 .. Len(bucket) - 1
    <2>1. bucket' = bucket /\ overrun' = TRUE
        BY <1>3 DEF pop
    <2>2. QED
        BY <1>1, <2>1
<1>4. QED
    BY <1>2, <1>3

LEMMA NewestTypes ==
    ASSUME PrTypeOK, NEW e \in Ptes, Newest(e)
    PROVE  seen' \subseteq Ptes /\ older' \subseteq seen' \X seen'
<1>1. seen \subseteq Ptes /\ older \subseteq seen \X seen
    BY DEF PrTypeOK
<1>2. seen' = seen \cup {e} /\ older' = {d \in older : e \notin {d[1], d[2]}} \cup {<<d, e>> : d \in seen \ {e}}
    BY DEF Newest
<1>3. QED
    BY <1>1, <1>2

LEMMA WalksTo ==
    ASSUME PrTypeOK, NEW x \in Walkers, NEW r \in WideRecord, walks' = [walks EXCEPT ![x] = r]
    PROVE  walks' \in [Walkers -> WideRecord]
BY WideIs

LEMMA WalkOf ==
    ASSUME PrTypeOK, NEW x \in Walkers
    PROVE  /\ walks[x] \in WideRecord /\ walks[x].pte \in Ptes /\ walks[x].last \in Ptes
           /\ walks[x].op \in Ops \cup {"idle", "map"} /\ walks[x].idx \in Int
<1>1. walks[x] \in WideRecord
    BY WideIs
<1>2. walks[x].idx \in -1 .. PG_BUF_SIZE
    BY <1>1 DEF WideRecord
<1>3. walks[x].idx \in Int
    BY <1>2, SizeIs
<1>4. QED
    BY <1>1, <1>3 DEF WideRecord

LEMMA GotoTypes ==
    ASSUME PrTypeOK, NEW x \in Walkers,
           NEW there \in {"", "find", "evict", "pop", "push", "apply", "trim"}, Goto(x, there)
    PROVE  walks' \in [Walkers -> WideRecord]
<1>1. [walks[x] EXCEPT !.at = there] \in WideRecord
    BY WalkOf DEF WideRecord
<1>2. walks' = [walks EXCEPT ![x] = [walks[x] EXCEPT !.at = there]]
    BY DEF Goto
<1>3. QED
    BY <1>1, <1>2, WalksTo

LEMMA IdleTypes ==
    ASSUME PrTypeOK, NEW x \in Walkers, walks' = [walks EXCEPT ![x] = Idle]
    PROVE  walks' \in [Walkers -> WideRecord]
<1>1. 1 \in Ptes /\ -1 \in -1 .. PG_BUF_SIZE
    BY SizeIs DEF Ptes
<1>2. Idle \in WideRecord
    BY <1>1 DEF Idle, WideRecord
<1>3. QED
    BY <1>2, WalksTo

\* What a step owes the types, part by part.
LEMMA TypesFrom ==
    ASSUME PrTypeOK, policy' = policy, raced' \in BOOLEAN,
           bucket' \in Seq(Ptes \cup {0}), Len(bucket') <= PG_BUF_SIZE + 1, policy = "LRU" => Len(bucket') <= PG_BUF_SIZE,
           walks' \in [Walkers -> WideRecord], fifo_flag' \in {0, 1}, pinned' \in BOOLEAN, overrun' \in BOOLEAN,
           V' \subseteq Ptes, P' \subseteq Ptes, S' \subseteq Ptes, dropped' \subseteq Ptes,
           seen' \subseteq Ptes, older' \subseteq seen' \X seen'
    PROVE  PrTypeOK'
<1>1. PG_BUF_SIZE + 1 \in Nat
    BY SizeIs
<1>2. bucket' \in BoundedSeq(Ptes \cup {0}, PG_BUF_SIZE + 1)
    BY <1>1, BoundedIs
<1>3. QED
    BY <1>2 DEF PrTypeOK, WideRecord

LEMMA FindTypes ==
    ASSUME PrTypeOK, NEW x \in Walkers, walk_find(x)
    PROVE  walks' \in [Walkers -> WideRecord]
<1> DEFINE i == find(walks[x].pte)
           index == IF policy = "LRU" THEN i ELSE -1
           there == CASE i = -1 /\ full  -> "evict"
                      [] i = -1 /\ ~full -> "push"
                      [] i >= 0 /\ policy = "LRU"  -> "pop"
                      [] i >= 0 /\ policy = "FIFO" -> "apply"
<1>1. i \in -1 .. Len(bucket) - 1 /\ Len(bucket) \in Nat /\ Len(bucket) <= PG_BUF_SIZE + 1
    BY FindBounds, WideIs
<1>2. policy \in {"LRU", "FIFO"}
    BY PrBufferAssumption DEF PrTypeOK, PrBufferAssumption
<1>3. index \in -1 .. PG_BUF_SIZE
    BY <1>1, SizeIs
<1>4. i = -1 \/ i >= 0
    BY <1>1
<1>5. walks' = [walks EXCEPT ![x].idx = index, ![x].at = there]
    BY DEF walk_find
<1> HIDE DEF i
<1>6. there \in {"evict", "push", "pop", "apply"}
    BY <1>2, <1>4
<1> HIDE DEF index, there
<1>7. [walks[x] EXCEPT !.idx = index, !.at = there] \in WideRecord
    BY <1>3, <1>6, WalkOf DEF WideRecord
<1>8. walks' = [walks EXCEPT ![x] = [walks[x] EXCEPT !.idx = index, !.at = there]]
    BY <1>5, WideIs
<1>9. QED
    BY <1>7, <1>8, WalksTo

LEMMA ApplyTypes ==
    ASSUME PrTypeOK, NEW x \in Walkers, apply(x)
    PROVE  walks' \in [Walkers -> WideRecord]
<1> DEFINE e == walks[x].pte
           op == walks[x].op
<1>1. /\ walks \in [Walkers -> WideRecord] /\ walks[x] \in WideRecord /\ e \in Ptes /\ walks[x].last \in Ptes
      /\ NPTE \in Nat /\ PG_BUF_SIZE \in Nat
    BY WideIs, WalkOf, SizeIs
<1>2. CASE op = "fault"
    <2>1. walks' = [walks EXCEPT ![x] = [walks[x] EXCEPT !.op = "map", !.at = "find"]]
        BY <1>1, <1>2 DEF apply
    <2>2. [walks[x] EXCEPT !.op = "map", !.at = "find"] \in WideRecord
        BY <1>1 DEF WideRecord
    <2>3. QED
        BY <2>1, <2>2, WalksTo
<1>3. CASE op # "fault" /\ e < walks[x].last
    <2>1. e # walks[x].last
        BY <1>1, <1>3 DEF Ptes
    <2>2. walks' = [walks EXCEPT ![x] = [walks[x] EXCEPT !.at = "find", !.pte = e + 1]]
        BY <1>1, <1>3, <2>1 DEF apply
    <2>3. e + 1 \in Ptes
        BY <1>1, <1>3 DEF Ptes
    <2>4. [walks[x] EXCEPT !.at = "find", !.pte = e + 1] \in WideRecord
        BY <1>1, <2>3 DEF WideRecord
    <2>5. QED
        BY <2>2, <2>4, WalksTo
<1>4. CASE op = "dontneed" /\ e = walks[x].last
    <2>1. ~(e < walks[x].last)
        BY <1>1, <1>4 DEF Ptes
    <2>2. walks' = [walks EXCEPT ![x] = [walks[x] EXCEPT !.at = "trim", !.idx = find(e)]]
        BY <1>1, <1>4, <2>1 DEF apply
    <2>3. find(e) \in -1 .. PG_BUF_SIZE
        <3>1. find(e) \in -1 .. Len(bucket) - 1 /\ Len(bucket) \in Nat /\ Len(bucket) <= PG_BUF_SIZE + 1
            BY FindBounds, WideIs
        <3>2. QED
            BY <3>1, SizeIs
    <2>4. [walks[x] EXCEPT !.at = "trim", !.idx = find(e)] \in WideRecord
        BY <1>1, <2>3 DEF WideRecord
    <2>5. QED
        BY <2>2, <2>4, WalksTo
<1>5. CASE op # "fault" /\ ~(e < walks[x].last) /\ ~(op = "dontneed" /\ e = walks[x].last)
    <2>1. walks' = [walks EXCEPT ![x] = Idle]
        BY <1>5 DEF apply
    <2>2. QED
        BY <2>1, IdleTypes
<1>6. QED
    BY <1>2, <1>3, <1>4, <1>5

LEMMA TypesGoOn == ASSUME PrTypeOK, [PrNext]_prvars PROVE PrTypeOK'
<1>0. /\ bucket \in Seq(Ptes \cup {0}) /\ Len(bucket) \in Nat
      /\ Len(bucket) <= PG_BUF_SIZE + 1 /\ (policy = "LRU" => Len(bucket) <= PG_BUF_SIZE)
      /\ walks \in [Walkers -> WideRecord] /\ fifo_flag \in {0, 1} /\ pinned \in BOOLEAN /\ overrun \in BOOLEAN
      /\ V \subseteq Ptes /\ P \subseteq Ptes /\ S \subseteq Ptes /\ dropped \subseteq Ptes
      /\ seen \subseteq Ptes /\ older \subseteq seen \X seen /\ raced \in BOOLEAN
      /\ policy \in {"LRU", "FIFO"}
    BY WideIs, PrBufferAssumption DEF PrTypeOK, PrBufferAssumption
<1>1. CASE UNCHANGED prvars
    BY <1>0, <1>1, TypesFrom DEF prvars
<1> SUFFICES ASSUME PrNext PROVE PrTypeOK'
    BY <1>1
<1>2. policy' = policy /\ raced' \in BOOLEAN /\ PrStep
    BY <1>0 DEF PrNext
<1>3. ASSUME NEW x \in Walkers, NEW op \in Ops, NEW b \in Ptes, NEW l \in Ptes, enter(x, op, b, l)
      PROVE  PrTypeOK'
    <2>1. [op |-> op, at |-> "find", pte |-> b, last |-> l, idx |-> -1] \in WideRecord
        BY SizeIs DEF WideRecord
    <2>2. walks' \in [Walkers -> WideRecord]
        BY <1>3, <2>1, WalksTo DEF enter
    <2>3. fifo_flag' \in {0, 1} /\ UNCHANGED <<bucket, pinned, V, P, S, seen, older, dropped, overrun>>
        BY <1>0, <1>3 DEF enter, pteVars
    <2>4. QED
        BY <1>0, <1>2, <2>2, <2>3, TypesFrom
<1>4. ASSUME NEW x \in Walkers, walk_find(x) PROVE PrTypeOK'
    <2>1. walks' \in [Walkers -> WideRecord]
        BY <1>4, FindTypes
    <2>2. UNCHANGED <<bucket, fifo_flag, pinned, V, P, S, dropped, overrun>>
        BY <1>4 DEF walk_find, pteVars
    <2>3. seen' \subseteq Ptes /\ older' \subseteq seen' \X seen'
        <3>1. Newest(walks[x].pte) \/ UNCHANGED <<seen, older>>
            BY <1>4 DEF walk_find
        <3>2. walks[x].pte \in Ptes
            BY WalkOf
        <3>3. QED
            BY <1>0, <3>1, <3>2, NewestTypes
    <2>4. QED
        BY <1>0, <1>2, <2>1, <2>2, <2>3, TypesFrom
<1>5. ASSUME NEW x \in Walkers, walk_skip(x) PROVE PrTypeOK'
    <2>1. walks' \in [Walkers -> WideRecord]
        BY <1>5, GotoTypes DEF walk_skip
    <2>2. UNCHANGED <<bucket, fifo_flag, pinned, V, P, S, seen, older, dropped, overrun>>
        BY <1>5 DEF walk_skip, pteVars
    <2>3. QED
        BY <1>0, <1>2, <2>1, <2>2, TypesFrom
<1>6. ASSUME NEW x \in Walkers, walk_evict(x) PROVE PrTypeOK'
    <2>1. \E k \in {0, 1}, there \in {"push", "apply"} : pop(k) /\ Goto(x, there)
        <3>1. CASE policy = "FIFO" /\ IsZero(walks[x].pte) /\ ~pinned
            BY <1>6, <3>1 DEF walk_evict
        <3>2. CASE policy = "FIFO" /\ ~(IsZero(walks[x].pte) /\ ~pinned) /\ fifo_flag = 1
            BY <1>6, <3>2 DEF walk_evict
        <3>3. CASE /\ ~(policy = "FIFO" /\ IsZero(walks[x].pte) /\ ~pinned)
                   /\ ~(policy = "FIFO" /\ ~(IsZero(walks[x].pte) /\ ~pinned) /\ fifo_flag = 1)
            BY <1>6, <3>3 DEF walk_evict
        <3>4. QED
            BY <3>1, <3>2, <3>3
    <2>2. PICK k \in {0, 1}, there \in {"push", "apply"} : pop(k) /\ Goto(x, there)
        BY <2>1
    <2>3. walks' \in [Walkers -> WideRecord]
        BY <2>2, GotoTypes
    <2>4. bucket' \in Seq(Ptes \cup {0}) /\ Len(bucket') \in Nat /\ Len(bucket') <= Len(bucket) /\ overrun' \in BOOLEAN
        BY <2>2, PopTypes
    <2>5. Len(bucket') <= PG_BUF_SIZE + 1 /\ (policy = "LRU" => Len(bucket') <= PG_BUF_SIZE)
        BY <1>0, <2>4, SizeIs
    <2>6. UNCHANGED <<fifo_flag, pinned, V, P, S, seen, older, dropped>>
        BY <1>6 DEF walk_evict, pteVars
    <2>7. QED
        BY <1>0, <1>2, <2>3, <2>4, <2>5, <2>6, TypesFrom
<1>7. ASSUME NEW x \in Walkers, walk_pop(x) PROVE PrTypeOK'
    <2>1. pop(walks[x].idx) /\ walks[x].idx \in Int
        BY <1>7, WalkOf DEF walk_pop
    <2>2. bucket' \in Seq(Ptes \cup {0}) /\ Len(bucket') \in Nat /\ Len(bucket') <= Len(bucket) /\ overrun' \in BOOLEAN
        BY <2>1, PopTypes
    <2>3. Len(bucket') <= PG_BUF_SIZE + 1 /\ (policy = "LRU" => Len(bucket') <= PG_BUF_SIZE)
        BY <1>0, <2>2, SizeIs
    <2>4. walks' = [walks EXCEPT ![x] = [walks[x] EXCEPT !.at = "push", !.idx = -1]]
        BY <1>0, <1>7 DEF walk_pop
    <2>5. [walks[x] EXCEPT !.at = "push", !.idx = -1] \in WideRecord
        <3>1. -1 \in -1 .. PG_BUF_SIZE
            BY SizeIs
        <3>2. walks[x] \in WideRecord
            BY <1>0
        <3>3. QED
            BY <3>1, <3>2 DEF WideRecord
    <2>6. walks' \in [Walkers -> WideRecord]
        BY <2>4, <2>5, WalksTo
    <2>7. UNCHANGED <<fifo_flag, pinned, V, P, S, seen, older, dropped>>
        BY <1>7 DEF walk_pop, pteVars
    <2>8. QED
        BY <1>0, <1>2, <2>2, <2>3, <2>6, <2>7, TypesFrom
<1>8. ASSUME NEW x \in Walkers, walk_push(x) PROVE PrTypeOK'
    <2>1. walks[x].pte \in Ptes /\ walks' \in [Walkers -> WideRecord]
        BY <1>8, WalkOf, GotoTypes DEF walk_push
    <2>2. \/ ~full /\ \E w \in Ptes \cup {0} : bucket' = Append(bucket, w)
          \/ policy = "FIFO" /\ Len(bucket) = PG_BUF_SIZE /\ \E w \in Ptes \cup {0} : bucket' = Append(bucket, w)
          \/ UNCHANGED bucket
        BY <1>8, <2>1 DEF walk_push
    <2>3. /\ bucket' \in Seq(Ptes \cup {0})
          /\ Len(bucket') <= PG_BUF_SIZE + 1 /\ (policy = "LRU" => Len(bucket') <= PG_BUF_SIZE)
        <3>1. ASSUME NEW w \in Ptes \cup {0}, bucket' = Append(bucket, w)
              PROVE  bucket' \in Seq(Ptes \cup {0}) /\ Len(bucket') = Len(bucket) + 1
            BY <1>0, <3>1, AppendProperties
        <3>2. ~full => Len(bucket) + 1 <= PG_BUF_SIZE
            BY <1>0, SizeIs DEF full
        <3>3. CASE ~full /\ \E w \in Ptes \cup {0} : bucket' = Append(bucket, w)
            BY <1>0, <3>1, <3>2, <3>3, SizeIs
        <3>4. CASE policy = "FIFO" /\ Len(bucket) = PG_BUF_SIZE /\ \E w \in Ptes \cup {0} : bucket' = Append(bucket, w)
            BY <1>0, <3>1, <3>4, SizeIs
        <3>5. CASE UNCHANGED bucket
            BY <1>0, <3>5
        <3>6. QED
            BY <2>2, <3>3, <3>4, <3>5
    <2>4. seen' \subseteq Ptes /\ older' \subseteq seen' \X seen'
        <3>1. Newest(walks[x].pte) \/ UNCHANGED <<seen, older>>
            BY <1>8 DEF walk_push
        <3>2. QED
            BY <1>0, <2>1, <3>1, NewestTypes
    <2>5. dropped' \subseteq Ptes /\ UNCHANGED <<fifo_flag, pinned, V, P, S, overrun>>
        BY <1>0, <1>8 DEF walk_push, pteVars
    <2>6. QED
        BY <1>0, <1>2, <2>1, <2>3, <2>4, <2>5, TypesFrom
<1>9. ASSUME NEW x \in Walkers, apply(x) PROVE PrTypeOK'
    <2>1. walks' \in [Walkers -> WideRecord]
        BY <1>9, ApplyTypes
    <2>2. V' \subseteq Ptes /\ P' \subseteq Ptes /\ S' \subseteq Ptes
        BY <1>0, <1>9, WalkOf DEF apply
    <2>3. UNCHANGED <<bucket, fifo_flag, pinned, seen, older, dropped, overrun>>
        BY <1>9 DEF apply
    <2>4. QED
        BY <1>0, <1>2, <2>1, <2>2, <2>3, TypesFrom
<1>10. ASSUME NEW x \in Walkers, dontneed_trim(x) PROVE PrTypeOK'
    <2>1. walks' \in [Walkers -> WideRecord]
        BY <1>10, IdleTypes DEF dontneed_trim
    <2>2. walks[x].idx \in Int /\ walks[x].pte \in Ptes
        BY WalkOf
    <2>3. UNCHANGED <<bucket, overrun>> \/ pop(walks[x].idx)
        BY <1>10 DEF dontneed_trim
    <2>4. bucket' \in Seq(Ptes \cup {0}) /\ Len(bucket') \in Nat /\ Len(bucket') <= Len(bucket) /\ overrun' \in BOOLEAN
        BY <1>0, <2>2, <2>3, PopTypes
    <2>5. Len(bucket') <= PG_BUF_SIZE + 1 /\ (policy = "LRU" => Len(bucket') <= PG_BUF_SIZE)
        BY <1>0, <2>4, SizeIs
    <2>6. dropped' \subseteq Ptes /\ UNCHANGED <<fifo_flag, pinned, V, P, S, seen, older>>
        BY <1>0, <1>10, <2>2 DEF dontneed_trim, pteVars
    <2>7. QED
        BY <1>0, <1>2, <2>1, <2>4, <2>5, <2>6, TypesFrom
<1>11. ASSUME vmprint PROVE PrTypeOK'
    <2>1. pinned' = TRUE /\ UNCHANGED <<bucket, fifo_flag, V, P, S, walks, seen, older, dropped, overrun>>
        BY <1>11 DEF vmprint, pteVars
    <2>2. QED
        BY <1>0, <1>2, <2>1, TypesFrom
<1>12. ASSUME stopped PROVE PrTypeOK'
    <2>1. UNCHANGED <<bucket, fifo_flag, pinned, V, P, S, walks, seen, older, dropped, overrun>>
        BY <1>12 DEF stopped, pteVars
    <2>2. QED
        BY <1>0, <1>2, <2>1, TypesFrom
<1>13. QED
    BY <1>2, <1>3, <1>4, <1>5, <1>6, <1>7, <1>8, <1>9, <1>10, <1>11, <1>12 DEF PrStep

-----------------------------------------------------------------------------
(* The theorems.                                                           *)

\* The order of the buffer is kept until two walkers are in the window together.
BufferInv == PrTypeOK /\ (~raced => PrInv /\ ~Overlap)

LEMMA BufferRuns == PrSpec => []BufferInv
<1>1. PrInit => BufferInv
    <2>1. ASSUME PrInit PROVE PrInv /\ ~Overlap /\ PrTypeOK
        <3>1. PrInv /\ Tight
            BY <2>1, BufferBegins DEF PrInv
        <3>2. ~Overlap
            BY <2>1 DEF PrInit, Overlap, Mid, Idle
        <3>3. bucket = <<>> /\ raced = FALSE
            BY <2>1 DEF PrInit
        <3>4. bucket \in Seq(Ptes \cup {0}) /\ Len(bucket) = 0
            BY <3>3
        <3>5. bucket \in BoundedSeq(Ptes \cup {0}, PG_BUF_SIZE + 1) /\ Len(bucket) <= PG_BUF_SIZE
            <4>1. PG_BUF_SIZE + 1 \in Nat /\ 0 <= PG_BUF_SIZE + 1 /\ 0 <= PG_BUF_SIZE
                BY SizeIs
            <4>2. QED
                BY <3>4, <4>1, BoundedIs
        <3>6. walks \in [Walkers -> WideRecord]
            <4>1. 1 \in Ptes /\ -1 \in -1 .. PG_BUF_SIZE
                BY SizeIs DEF Ptes
            <4>2. Idle \in WideRecord
                BY <4>1 DEF Idle, WideRecord
            <4>3. QED
                BY <2>1, <4>2 DEF PrInit
        <3>7. QED
            BY <3>1, <3>2, <3>3, <3>5, <3>6 DEF Tight, PrTypeOK, WideRecord
    <2>2. QED
        BY <2>1 DEF BufferInv
<1>2. BufferInv /\ [PrNext]_prvars => BufferInv'
    <2> SUFFICES ASSUME BufferInv, [PrNext]_prvars PROVE BufferInv'
        OBVIOUS
    <2>1. PrTypeOK'
        BY TypesGoOn DEF BufferInv
    <2>2. ASSUME ~raced' PROVE PrInv' /\ ~Overlap'
        <3>1. CASE PrNext
            <4>1. ~raced /\ ~Overlap'
                BY <2>2, <3>1 DEF PrNext
            <4>2. PrInv /\ ~Overlap
                BY <4>1 DEF BufferInv
            <4>3. QED
                BY <4>1, <4>2, BufferGoesOn
        <3>2. CASE UNCHANGED prvars
            <4>1. raced' = raced /\ walks' = walks
                BY <3>2 DEF prvars
            <4>2. PrInv /\ ~Overlap
                BY <2>2, <4>1 DEF BufferInv
            <4>3. ~Overlap'
                BY <4>1, <4>2 DEF Overlap, Mid
            <4>4. QED
                BY <4>2, <4>3, BufferGoesOn
        <3>3. QED
            BY <3>1, <3>2
    <2>3. QED
        BY <2>1, <2>2 DEF BufferInv
<1>3. QED
    BY <1>1, <1>2, PTL DEF PrSpec

LEMMA NobodyMid == ASSUME \A x \in Walkers : ~Mid(x) PROVE Quiet
BY DEF Quiet, Busy, Mid

\* For any number of walkers: as long as no two of them are between a find and the use of
\* its result at the same time, the buffer stays within its array, without duplicates and
\* in the order of the policy, and no index of lru_find() or q_find() is out of bounds in
\* lru_pop() or q_pop_idx().  Two in that window break it (IndexInBounds, README).
THEOREM BufferSound == PrSpec => []BufferOK
<1>1. ASSUME BufferInv PROVE BufferOK
    <2>1. PrTypeOK
        BY <1>1 DEF BufferInv
    <2>2. ASSUME ~raced PROVE Len(bucket) <= PG_BUF_SIZE /\ PolicyOrder /\ ~overrun
        <3>1. Tight /\ ~overrun /\ (Quiet => Sorted(bucket))
            BY <1>1, <2>2 DEF BufferInv, PrInv
        <3>2. PolicyOrder
            BY <3>1, NobodyMid DEF PolicyOrder, Sorted
        <3>3. QED
            BY <3>1, <3>2, TypesAre
    <2>3. QED
        BY <2>1, <2>2 DEF BufferOK
<1>2. QED
    BY <1>1, BufferRuns, PTL

\* As long as no two walkers race, the LRU build evicts the right entries: whatever left
\* the buffer without madvise() was looked up before all that is in it.
THEOREM BufferKeepsRecent == PrSpec => []LeastRecentEvicted
<1>1. ASSUME BufferInv PROVE LeastRecentEvicted
    <2>1. ~raced => (Quiet => (policy = "LRU" => Gone(bucket, {})))
        BY <1>1 DEF BufferInv, PrInv
    <2>2. \A d : Holds(bucket, d) <=> d \in ToSet(bucket)
        BY DEF Holds, ToSet
    <2>3. ASSUME policy = "LRU", ~raced, \A x \in Walkers : ~Mid(x),
                 NEW e \in seen \ (ToSet(bucket) \cup dropped), NEW i \in DOMAIN bucket
          PROVE  <<e, bucket[i]>> \in older
        <3>1. Gone(bucket, {}) /\ e \in (seen \ dropped) \ {} /\ ~Holds(bucket, e)
            BY <2>1, <2>2, <2>3, NobodyMid
        <3>2. QED
            BY <3>1 DEF Gone
    <2>4. QED
        BY <2>3 DEF LeastRecentEvicted
<1>2. QED
    BY <1>1, BufferRuns, PTL

\* As long as no two walkers race, the step that ends an madvise(MADV_DONTNEED) leaves the
\* last page of its range out of the buffer.
THEOREM BufferForgetsLast == PrSpec => LastTrimmed
<1>1. ASSUME BufferInv, [PrNext]_prvars, NEW x \in Walkers, ~raced', StandsAt(x, "trim"), walks'[x].op = "idle"
      PROVE  walks[x].pte \notin ToSet(bucket')
    <2>1. walks[x].op # "idle" /\ walks[x].at = "trim" /\ ~overrun
        BY <1>1 DEF StandsAt
    <2>2. ~UNCHANGED walks
        BY <1>1, <2>1
    <2>3. PrStep /\ policy' = policy /\ ~raced /\ ~Overlap'
        BY <1>1, <2>2 DEF PrNext, prvars
    <2>4. PrInv /\ ~Overlap
        BY <1>1, <2>3 DEF BufferInv
    <2>5. ~vmprint /\ ~stopped
        BY <2>1, <2>2 DEF vmprint, stopped
    <2>6. \E y \in Walkers :
             \/ \E op \in Ops \ {"vmprint"}, b, l \in Ptes : enter(y, op, b, l)
             \/ walk_find(y) \/ walk_skip(y) \/ walk_evict(y) \/ walk_pop(y)
             \/ walk_push(y) \/ apply(y) \/ dontneed_trim(y)
        BY <2>3, <2>5 DEF PrStep
    <2>7. ASSUME NEW y \in Walkers, y # x
          PROVE  /\ \A op \in Ops \ {"vmprint"}, b, l \in Ptes : ~enter(y, op, b, l)
                 /\ ~walk_find(y) /\ ~walk_skip(y) /\ ~walk_evict(y) /\ ~walk_pop(y)
                 /\ ~walk_push(y) /\ ~apply(y) /\ ~dontneed_trim(y)
        <3>1. ASSUME NEW f, walks' = [walks EXCEPT ![y] = f] PROVE FALSE
            <4>1. walks \in [Walkers -> WideRecord]
                BY <1>1, WideIs DEF BufferInv
            <4>2. walks'[x] = walks[x]
                BY <2>7, <3>1, <4>1
            <4>3. QED
                BY <1>1, <2>1, <4>2
        <3>2. \A op \in Ops \ {"vmprint"}, b, l \in Ptes : ~enter(y, op, b, l)
            BY <3>1 DEF enter
        <3>3. ~walk_find(y) /\ ~walk_pop(y) /\ ~dontneed_trim(y) /\ ~apply(y)
            BY <3>1 DEF walk_find, walk_pop, dontneed_trim, apply
        <3>4. ~walk_skip(y) /\ ~walk_evict(y) /\ ~walk_push(y)
            BY <3>1 DEF walk_skip, walk_evict, walk_push, Goto
        <3>5. QED
            BY <3>2, <3>3, <3>4
    <2>8. ~walk_find(x) /\ ~walk_skip(x) /\ ~walk_evict(x) /\ ~walk_pop(x) /\ ~walk_push(x) /\ ~apply(x)
        BY <2>1 DEF walk_find, walk_skip, walk_evict, walk_pop, walk_push, apply, StandsAt
    <2>9. \A op \in Ops \ {"vmprint"}, b, l \in Ptes : ~enter(x, op, b, l)
        BY <2>1 DEF enter
    <2>10. dontneed_trim(x)
        BY <2>6, <2>7, <2>8, <2>9
    <2>11. ~Holds(bucket', walks[x].pte)
        BY <2>3, <2>4, <2>10, TrimKeeps
    <2>12. QED
        BY <2>11 DEF Holds, ToSet
<1>2. BufferInv /\ [PrNext]_prvars =>
          [\A x \in Walkers : ~raced' /\ StandsAt(x, "trim") /\ walks'[x].op = "idle" => walks[x].pte \notin ToSet(bucket')]_prvars
    BY <1>1
<1>3. [](BufferInv) /\ [][PrNext]_prvars =>
          [][\A x \in Walkers : ~raced' /\ StandsAt(x, "trim") /\ walks'[x].op = "idle" => walks[x].pte \notin ToSet(bucket')]_prvars
    BY <1>2, PTL
<1>4. QED
    BY <1>3, BufferRuns, PTL DEF PrSpec, LastTrimmed
=============================================================================
