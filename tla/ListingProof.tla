---------------------------- MODULE ListingProof ----------------------------
(***************************************************************************)
(* What a listing returns, for every path, directory and junk.              *)
(*                                                                         *)
(* A text has any length, so what Components, FieldSpans, Separators and    *)
(* Resolved make of it is a matter of induction.  They are folds, and a     *)
(* fold is unrolled into a run: a function from 0..n whose values are       *)
(* linked by the fold's step (Unroll).  From the runs follow, in order:      *)
(*   - what a row looks like, for each style (PosixRow, DosRow);             *)
(*   - that a row which is not refused is read as its label (RowRead), and   *)
(*     the label as name and target (LabelRead);                            *)
(*   - that a child's path is the directory's and one name (ChildUsable);    *)
(*   - the inductive invariant, IInv: the rows left are those of the         *)
(*     entries not found yet, and every file found can be asked for.         *)
(***************************************************************************)
EXTENDS Listing, SequenceTheorems, WellFoundedInduction, TLAPS

-----------------------------------------------------------------------------
(* Induction and folds.                                                    *)

(* What holds of 0 and goes on from k - 1 to k holds up to n.              *)
LEMMA UpTo ==
    ASSUME NEW n \in Nat, NEW T, 0 \in T, \A k \in 1..n : k - 1 \in T => k \in T
    PROVE  \A k \in 0..n : k \in T
<1> SUFFICES ASSUME NEW j \in 0..n, j \notin T PROVE FALSE
  OBVIOUS
<1> DEFINE U == {k \in 0..n : k \notin T}
<1>1. U # {} /\ U \subseteq Nat
  OBVIOUS
<1>2. PICK m \in U : \A y \in U : ~(<<y, m>> \in OpToRel(<, Nat))
  BY <1>1, NatLessThanWellFounded, WFMin
<1>3. \A y \in U : ~(y < m)
  BY <1>1, <1>2 DEF OpToRel
<1>4. m \in 1..n /\ m - 1 \in 0..n /\ m - 1 < m
  OBVIOUS
<1> QED
  BY <1>3, <1>4

(* The greatest number of a set up to k.                                   *)
LEMMA MaxFacts ==
    ASSUME NEW n \in Nat, NEW s \in SUBSET (1..n), s # {}
    PROVE  Max(s) \in s /\ \A y \in s : Max(s) >= y
<1> DEFINE P(k) == \A t \in SUBSET (1..k) : t # {} => \E x \in t : \A y \in t : x >= y
           T == {k \in 0..n : P(k)}
<1>1. 0 \in T
  <2>1. 1..0 = {} /\ 0 \in 0..n
    OBVIOUS
  <2>2. \A t \in SUBSET {} : t = {}
    OBVIOUS
  <2>3. P(0)
    BY <2>1, <2>2
  <2> QED
    BY <2>1, <2>3
<1>2. ASSUME NEW k \in 1..n, k - 1 \in T PROVE k \in T
  <2> SUFFICES ASSUME NEW t \in SUBSET (1..k), t # {} PROVE \E x \in t : \A y \in t : x >= y
    OBVIOUS
  <2>1. CASE k \in t
    BY <2>1
  <2>2. CASE k \notin t
    <3>1. t \in SUBSET (1..(k - 1))
      BY <2>2
    <3> QED
      BY <1>2, <3>1
  <2> QED
    BY <2>1, <2>2
<1>3. n \in T
  <2> HIDE DEF T
  <2> QED
    BY <1>1, <1>2, UpTo
<1>4. \E x \in s : \A y \in s : x >= y
  BY <1>3
<1> QED
  BY <1>4 DEF Max

(* The greatest number of an initial subset is its end.                      *)
LEMMA MaxUpTo ==
    ASSUME NEW k \in Nat \ {0}
    PROVE  Max(1..k) = k /\ (1..k) \ {k} = 1..(k - 1)
<1>1. Max(1..k) \in 1..k /\ \A y \in 1..k : Max(1..k) >= y
  <2>1. k \in Nat /\ 1..k \in SUBSET (1..k) /\ 1 \in 1..k
    OBVIOUS
  <2>2. 1..k # {}
    BY <2>1
  <2> QED
    BY <2>1, <2>2, MaxFacts
<1> QED
  BY <1>1

(* A recursion over the subsets of 1..n, greatest number first, defines a   *)
(* function: this is what a fold over a sequence goes through.             *)
Iterates(h, n, a0, step) ==
    \A s \in SUBSET (1..n) :
       h[s] = IF s = {} THEN a0 ELSE step[<<h[s \ {Max(s)}], Max(s)>>]

(* There is such a recursion, for every step that stays in a set A: by       *)
(* induction on the numbers its argument may hold.                           *)
LEMMA Iterate ==
    ASSUME NEW n \in Nat, NEW A, NEW a0 \in A, NEW step \in [A \X (1..n) -> A]
    PROVE  \E h \in [SUBSET (1..n) -> A] : Iterates(h, n, a0, step)
<1> DEFINE Defines(h, k) ==
             \A s \in SUBSET (1..k) :
                h[s] = IF s = {} THEN a0 ELSE step[<<h[s \ {Max(s)}], Max(s)>>]
           T == {k \in 0..n : \E h \in [SUBSET (1..k) -> A] : Defines(h, k)}
<1>1. 0 \in T
  <2> DEFINE h == [s \in SUBSET (1..0) |-> a0]
  <2>1. h \in [SUBSET (1..0) -> A] /\ Defines(h, 0)
    <3>1. 1..0 = {} /\ SUBSET (1..0) = {{}}
      OBVIOUS
    <3> QED
      BY <3>1
  <2>2. 0 \in 0..n
    OBVIOUS
  <2> HIDE DEF h, Defines
  <2> QED
    BY <2>1, <2>2
<1>2. ASSUME NEW k \in 1..n, k - 1 \in T PROVE k \in T
  <2>1. PICK g \in [SUBSET (1..(k - 1)) -> A] : Defines(g, k - 1)
    BY <1>2
  <2> DEFINE h == [s \in SUBSET (1..k) |-> IF k \in s THEN step[<<g[s \ {k}], k>>] ELSE g[s]]
  <2>2. \A s \in SUBSET (1..k) : s \ {k} \in SUBSET (1..(k - 1))
                                 /\ (k \notin s => s \in SUBSET (1..(k - 1)))
    OBVIOUS
  <2>3. h \in [SUBSET (1..k) -> A]
    BY <2>2
  <2>4. ASSUME NEW s \in SUBSET (1..k)
        PROVE  h[s] = IF s = {} THEN a0 ELSE step[<<h[s \ {Max(s)}], Max(s)>>]
    <3>1. CASE k \in s
      <4>1. Max(s) = k
        <5>1. k \in Nat /\ s # {}
          BY <3>1
        <5>2. Max(s) \in s /\ Max(s) >= k
          BY <3>1, <5>1, MaxFacts
        <5>3. \A m \in 1..k : m >= k => m = k
          OBVIOUS
        <5> QED
          BY <5>2, <5>3
      <4>2. h[s] = step[<<g[s \ {k}], k>>] /\ h[s \ {k}] = g[s \ {k}]
        BY <2>2, <3>1
      <4> QED
        BY <3>1, <4>1, <4>2
    <3>2. CASE k \notin s
      <4>1. s \in SUBSET (1..(k - 1)) /\ h[s] = g[s]
        BY <2>2, <3>2
      <4>2. CASE s # {}
        <5>1. s \ {Max(s)} \in SUBSET (1..(k - 1)) /\ k \notin s \ {Max(s)}
          BY <3>2, <4>1
        <5>2. h[s \ {Max(s)}] = g[s \ {Max(s)}]
          BY <5>1
        <5> QED
          BY <2>1, <4>1, <4>2, <5>2
      <4>3. CASE s = {}
        BY <2>1, <4>1, <4>3
      <4> QED
        BY <4>2, <4>3
    <3> QED
      BY <3>1, <3>2
  <2> HIDE DEF h
  <2>5. Defines(h, k) /\ k \in 0..n
    BY <2>4
  <2> HIDE DEF Defines
  <2> QED
    BY <2>3, <2>5
<1>3. n \in T
  <2> HIDE DEF T
  <2> QED
    BY <1>1, <1>2, UpTo
<1> QED
  BY <1>3 DEF Iterates

(* What such a recursion is on the initial subsets: n steps from a0.       *)
Recursion(h, n, A, a0, step) ==
    /\ n \in Nat /\ a0 \in A /\ step \in [A \X (1..n) -> A]
    /\ h[{}] = a0
    /\ \A s \in SUBSET (1..n) : s # {} /\ h[s \ {Max(s)}] \in A =>
          h[s] = step[<<h[s \ {Max(s)}], Max(s)>>]

(* The same step by step: at[k] is the result after k of the n steps, and z  *)
(* that after all.                                                           *)
IsRun(at, n, A, a0, step, z) ==
    /\ at \in [0..n -> A]
    /\ at[0] = a0 /\ at[n] = z
    /\ \A k \in 1..n : at[k] = step[<<at[k - 1], k>>]

(* The recursion on 1..n is n steps from a0, one for each number.            *)
LEMMA Unroll ==
    ASSUME NEW n, NEW A, NEW a0, NEW step, NEW iter, Recursion(iter, n, A, a0, step)
    PROVE  \E at : IsRun(at, n, A, a0, step, iter[1..n])
<1> USE DEF Recursion
<1> DEFINE at == [k \in 0..n |-> iter[1..k]]
           T == {k \in 0..n : at[k] \in A}
<1>1. at[0] = a0
  <2>1. 1..0 = {} /\ 0 \in 0..n
    OBVIOUS
  <2> QED
    BY <2>1
<1>2. ASSUME NEW k \in 1..n, at[k - 1] \in A PROVE at[k] = step[<<at[k - 1], k>>]
  <2>1. 1..k \in SUBSET (1..n) /\ k \in 1..k /\ k \in Nat \ {0} /\ k - 1 \in 0..n /\ k \in 0..n
    OBVIOUS
  <2>2. at[k] = iter[1..k] /\ at[k - 1] = iter[1..(k - 1)]
    BY <2>1
  <2> HIDE DEF at
  <2>3. Max(1..k) = k /\ (1..k) \ {Max(1..k)} = 1..(k - 1)
    BY <2>1, MaxUpTo
  <2> QED
    BY <1>2, <2>1, <2>2, <2>3
<1>3. ASSUME NEW k \in 1..n, k - 1 \in T PROVE k \in T
  <2>1. at[k - 1] \in A /\ k \in 0..n
    BY <1>3
  <2> HIDE DEF at
  <2>2. <<at[k - 1], k>> \in A \X (1..n)
    BY <2>1
  <2> QED
    BY <1>2, <2>1, <2>2
<1>4. \A k \in 0..n : at[k] \in A
  <2>1. 0 \in T
    BY <1>1
  <2>2. \A k \in 0..n : k \in T
    <3> HIDE DEF T
    <3> QED
      BY <1>3, <2>1, UpTo
  <2> QED
    BY <2>2
<1>5. at \in [0..n -> A]
  BY <1>4
<1>6. \A k \in 1..n : at[k] = step[<<at[k - 1], k>>]
  <2> SUFFICES ASSUME NEW k \in 1..n PROVE at[k] = step[<<at[k - 1], k>>]
    OBVIOUS
  <2>1. k - 1 \in 0..n
    OBVIOUS
  <2> HIDE DEF at
  <2> QED
    BY <1>2, <1>4, <2>1
<1>7. at[n] = iter[1..n]
  OBVIOUS
<1> HIDE DEF at
<1> QED
  BY <1>1, <1>5, <1>6, <1>7 DEF IsRun

-----------------------------------------------------------------------------
(* Paths.                                                                  *)

(* Where the reading of a path may be: the components that are complete, and *)
(* the one that has begun.                                                   *)
Reading(S) == [done : Seq(Seq(S)), piece : Seq(S)]

(* at is a reading of path p.                                                *)
Walks(at, p, S) ==
    /\ at \in [0..Len(p) -> Reading(S)]
    /\ at[0] = [done |-> <<>>, piece |-> <<>>]
    /\ \A k \in 1..Len(p) : at[k] = ReadSymbol(at[k - 1], p[k])

(* The components of a path are read symbol by symbol: Components is a fold, *)
(* and at[k] what the fold has read of the first k symbols.                  *)
LEMMA ComponentsWalk ==
    ASSUME NEW S, NEW p \in Seq(S)
    PROVE  \E at : Walks(at, p, S) /\ Components(p) = EndPiece(at[Len(p)])
<1> DEFINE n == Len(p)
           a0 == [done |-> <<>>, piece |-> <<>>]
           A == Reading(S)
           Walk(f) == [s \in SUBSET (DOMAIN p) |->
                         IF s = {} THEN a0
                         ELSE ReadSymbol(f[s \ {Max(s)}], p[Max(s)])]
           iter == CHOOSE f : f = Walk(f)
           step == [z \in A \X (1..n) |-> ReadSymbol(z[1], p[z[2]])]
<1>1. Components(p) = EndPiece(iter[DOMAIN p])
  BY DEF Components, FoldLeft, MapThenFoldSet
<1>2. n \in Nat /\ DOMAIN p = 1..n /\ a0 \in A
  <2>1. <<>> \in Seq(S) /\ <<>> \in Seq(Seq(S))
    OBVIOUS
  <2> QED
    BY <2>1 DEF Reading
<1>3. \A a \in A, c \in S : ReadSymbol(a, c) \in A
  <2> SUFFICES ASSUME NEW a \in A, NEW c \in S PROVE ReadSymbol(a, c) \in A
    OBVIOUS
  <2>1. a.done \in Seq(Seq(S)) /\ a.piece \in Seq(S)
    BY DEF Reading
  <2>2. EndPiece(a) \in Seq(Seq(S)) /\ Append(a.piece, c) \in Seq(S) /\ <<>> \in Seq(S)
    BY <2>1 DEF EndPiece
  <2> QED
    BY <2>1, <2>2 DEF ReadSymbol, Reading
<1>4. /\ \A a \in A, k \in 1..n : step[<<a, k>>] = ReadSymbol(a, p[k])
      /\ step \in [A \X (1..n) -> A]
  <2>1. \A k \in 1..n : p[k] \in S
    BY <1>2
  <2> QED
    BY <1>3, <2>1
<1>5. \A s \in SUBSET (1..n) : s # {} => Max(s) \in 1..n /\ s \ {Max(s)} \in SUBSET (1..n)
  BY <1>2, MaxFacts
<1>6. iter = Walk(iter)
  <2>1. PICK h \in [SUBSET (1..n) -> A] : Iterates(h, n, a0, step)
    <3> HIDE DEF step, A, a0, n, Walk, iter
    <3> QED
      BY <1>2, <1>4, Iterate
  <2>2. ASSUME NEW s \in SUBSET (1..n), s # {}
        PROVE  h[s] = ReadSymbol(h[s \ {Max(s)}], p[Max(s)])
    <3> HIDE DEF step, A, a0, n, Walk, iter
    <3> QED
      BY <1>4, <1>5, <2>1, <2>2 DEF Iterates
  <2>3. h = Walk(h)
    BY <1>2, <2>1, <2>2 DEF Iterates
  <2> HIDE DEF Walk
  <2> QED
    BY <2>3
<1>7. iter[{}] = a0
  <2>1. Walk(iter)[{}] = a0
    BY <1>2
  <2> HIDE DEF Walk, iter
  <2> QED
    BY <1>6, <2>1
<1>8. Recursion(iter, n, A, a0, step)
  <2>1. ASSUME NEW s \in SUBSET (1..n), s # {}, iter[s \ {Max(s)}] \in A
        PROVE  iter[s] = step[<<iter[s \ {Max(s)}], Max(s)>>]
    <3>1. Walk(iter)[s] = ReadSymbol(iter[s \ {Max(s)}], p[Max(s)])
      BY <1>2, <2>1
    <3> HIDE DEF Walk, iter, step, A, n
    <3> QED
      BY <1>4, <1>5, <1>6, <2>1, <3>1
  <2> HIDE DEF Walk, iter, step, A, n, a0
  <2> QED
    BY <1>2, <1>4, <1>7, <2>1 DEF Recursion
<1>9. PICK at : IsRun(at, n, A, a0, step, iter[1..n])
  <2> HIDE DEF step, A, a0, n, Walk, iter
  <2> QED
    BY <1>8, Unroll
<1>10. \A k \in 1..n : k - 1 \in 0..n
  BY <1>2
<1>11. at \in [0..n -> A] /\ at[0] = a0 /\ at[n] = iter[DOMAIN p]
  BY <1>2, <1>9 DEF IsRun
<1>12. ASSUME NEW k \in 1..n PROVE at[k] = ReadSymbol(at[k - 1], p[k])
  <2> HIDE DEF step, iter, Walk, A, a0, n
  <2> QED
    BY <1>4, <1>9, <1>10, <1>11 DEF IsRun
<1> HIDE DEF step, iter, Walk
<1>13. Walks(at, p, S) /\ Components(p) = EndPiece(at[Len(p)])
  BY <1>1, <1>11, <1>12 DEF Walks
<1> QED
  BY <1>13

-----------------------------------------------------------------------------
(* Fields.                                                                 *)

(* Where the reading of a row may be: the fields that have ended, and the    *)
(* position the present one began at.                                        *)
Scan == [spans : Seq(Nat \X Nat), start : Nat]

(* at is a reading of the fields of text p.                                  *)
Scans(at, p) ==
    /\ at \in [0..Len(p) -> Scan]
    /\ at[0] = [spans |-> <<>>, start |-> 0]
    /\ FieldSpans(p) = EndField(at[Len(p)], Len(p))
    /\ \A k \in 1..Len(p) : at[k] = ReadByte(p, at[k - 1], k)

(* The fields of a text are read byte by byte in the same way.               *)
LEMMA FieldsWalk ==
    ASSUME NEW S, NEW p \in Seq(S)
    PROVE  \E at : Scans(at, p)
<1> DEFINE n == Len(p)
           a0 == [spans |-> <<>>, start |-> 0]
           A == Scan
           idx == [i \in DOMAIN p |-> i]
           Walk(f) == [s \in SUBSET (DOMAIN idx) |->
                         IF s = {} THEN a0
                         ELSE ReadByte(p, f[s \ {Max(s)}], idx[Max(s)])]
           iter == CHOOSE f : f = Walk(f)
           step == [z \in A \X (1..n) |-> ReadByte(p, z[1], z[2])]
<1>1. FieldSpans(p) = EndField(iter[DOMAIN idx], Len(p))
  BY DEF FieldSpans, FoldLeftDomain, FoldLeft, MapThenFoldSet
<1>2. /\ n \in Nat /\ DOMAIN p = 1..n /\ a0 \in A
      /\ DOMAIN idx = 1..n /\ \A k \in 1..n : idx[k] = k
  <2>1. <<>> \in Seq(Nat \X Nat)
    OBVIOUS
  <2> QED
    BY <2>1 DEF Scan
<1>3. \A a \in A, k \in 1..n : ReadByte(p, a, k) \in A
  <2> SUFFICES ASSUME NEW a \in A, NEW k \in 1..n PROVE ReadByte(p, a, k) \in A
    OBVIOUS
  <2>1. a.spans \in Seq(Nat \X Nat) /\ a.start \in Nat /\ k \in Nat /\ k - 1 \in Nat
    BY <1>2 DEF Scan
  <2>2. <<a.start, k - 1>> \in Nat \X Nat
    BY <2>1
  <2>3. EndField(a, k - 1) \in Seq(Nat \X Nat)
    BY <2>1, <2>2 DEF EndField
  <2> QED
    BY <2>1, <2>3 DEF ReadByte, Scan
<1>4. /\ \A a \in A, k \in 1..n : step[<<a, k>>] = ReadByte(p, a, k)
      /\ step \in [A \X (1..n) -> A]
  BY <1>3
<1>5. \A s \in SUBSET (1..n) : s # {} => Max(s) \in 1..n /\ s \ {Max(s)} \in SUBSET (1..n)
  BY <1>2, MaxFacts
<1>6. iter = Walk(iter)
  <2>1. PICK h \in [SUBSET (1..n) -> A] : Iterates(h, n, a0, step)
    <3> HIDE DEF step, A, a0, n, Walk, iter
    <3> QED
      BY <1>2, <1>4, Iterate
  <2>2. ASSUME NEW s \in SUBSET (1..n), s # {}
        PROVE  h[s] = ReadByte(p, h[s \ {Max(s)}], Max(s))
    <3> HIDE DEF step, A, a0, n, Walk, iter
    <3> QED
      BY <1>4, <1>5, <2>1, <2>2 DEF Iterates
  <2>3. h = Walk(h)
    <3>1. ASSUME NEW s \in SUBSET (1..n) PROVE h[s] = Walk(h)[s]
      <4>1. CASE s = {}
        <5> HIDE DEF step, A, a0, n, idx
        <5> QED
          BY <1>2, <2>1, <4>1 DEF Iterates
      <4>2. CASE s # {}
        <5> HIDE DEF step, A, a0, n, idx
        <5> QED
          BY <1>2, <1>5, <2>2, <4>2
      <4> QED
        BY <4>1, <4>2
    <3>2. Walk(h) = [s \in SUBSET (1..n) |-> Walk(h)[s]]
      <4> HIDE DEF A, a0, n, idx
      <4> QED
        BY <1>2
    <3> HIDE DEF Walk
    <3> QED
      BY <2>1, <3>1, <3>2
  <2> HIDE DEF Walk
  <2> QED
    BY <2>3
<1>7. iter[{}] = a0
  <2>1. Walk(iter)[{}] = a0
    <3> HIDE DEF a0, n, idx, iter
    <3> QED
      BY <1>2
  <2> HIDE DEF Walk, iter
  <2> QED
    BY <1>6, <2>1
<1>8. Recursion(iter, n, A, a0, step)
  <2>1. ASSUME NEW s \in SUBSET (1..n), s # {}, iter[s \ {Max(s)}] \in A
        PROVE  iter[s] = step[<<iter[s \ {Max(s)}], Max(s)>>]
    <3>1. Walk(iter)[s] = ReadByte(p, iter[s \ {Max(s)}], Max(s))
      <4> HIDE DEF step, A, a0, n, idx, iter
      <4> QED
        BY <1>2, <1>5, <2>1
    <3> HIDE DEF Walk, iter, step, A, n
    <3> QED
      BY <1>4, <1>5, <1>6, <2>1, <3>1
  <2> HIDE DEF Walk, iter, step, A, n, a0
  <2> QED
    BY <1>2, <1>4, <1>7, <2>1 DEF Recursion
<1>9. PICK at : IsRun(at, n, A, a0, step, iter[1..n])
  <2> HIDE DEF step, A, a0, n, Walk, iter
  <2> QED
    BY <1>8, Unroll
<1>10. \A k \in 1..n : k - 1 \in 0..n
  BY <1>2
<1>11. at \in [0..n -> A] /\ at[0] = a0 /\ at[n] = iter[1..n]
  BY <1>2, <1>9 DEF IsRun
<1>12. ASSUME NEW k \in 1..n PROVE at[k] = ReadByte(p, at[k - 1], k)
  <2> HIDE DEF step, iter, Walk, A, a0, n
  <2> QED
    BY <1>4, <1>9, <1>10, <1>11 DEF IsRun
<1> HIDE DEF step, iter, Walk
<1>13. Scans(at, p)
  BY <1>1, <1>2, <1>11, <1>12 DEF Scans
<1> QED
  BY <1>13

(* A path is followed name by name in the same way.                          *)
LEMMA FollowWalk ==
    ASSUME NEW S, NEW p \in Seq(S)
    PROVE  \E at \in [0..Len(p) -> Seq(S)] :
              /\ at[0] = <<>>
              /\ FoldLeft(Follow, <<>>, p) = at[Len(p)]
              /\ \A k \in 1..Len(p) : at[k] = Follow(at[k - 1], p[k])
<1> DEFINE n == Len(p)
           a0 == <<>>
           A == Seq(S)
           Walk(f) == [s \in SUBSET (DOMAIN p) |->
                         IF s = {} THEN a0
                         ELSE Follow(f[s \ {Max(s)}], p[Max(s)])]
           iter == CHOOSE f : f = Walk(f)
           step == [z \in A \X (1..n) |-> Follow(z[1], p[z[2]])]
<1>1. FoldLeft(Follow, <<>>, p) = iter[DOMAIN p]
  BY DEF FoldLeft, MapThenFoldSet
<1>2. n \in Nat /\ DOMAIN p = 1..n /\ a0 \in A
  OBVIOUS
<1>3. \A a \in A, c \in S : Follow(a, c) \in A
  <2> SUFFICES ASSUME NEW a \in A, NEW c \in S PROVE Follow(a, c) \in A
    OBVIOUS
  <2>1. a # <<>> => Front(a) \in A
    BY DEF Front
  <2> QED
    BY <2>1 DEF Follow
<1>4. /\ \A a \in A, k \in 1..n : step[<<a, k>>] = Follow(a, p[k])
      /\ step \in [A \X (1..n) -> A]
  <2>1. \A k \in 1..n : p[k] \in S
    BY <1>2
  <2> QED
    BY <1>3, <2>1
<1>5. \A s \in SUBSET (1..n) : s # {} => Max(s) \in 1..n /\ s \ {Max(s)} \in SUBSET (1..n)
  BY <1>2, MaxFacts
<1>6. iter = Walk(iter)
  <2>1. PICK h \in [SUBSET (1..n) -> A] : Iterates(h, n, a0, step)
    <3> HIDE DEF step, A, a0, n, Walk, iter
    <3> QED
      BY <1>2, <1>4, Iterate
  <2>2. ASSUME NEW s \in SUBSET (1..n), s # {}
        PROVE  h[s] = Follow(h[s \ {Max(s)}], p[Max(s)])
    <3> HIDE DEF step, A, a0, n, Walk, iter
    <3> QED
      BY <1>4, <1>5, <2>1, <2>2 DEF Iterates
  <2>3. h = Walk(h)
    BY <1>2, <2>1, <2>2 DEF Iterates
  <2> HIDE DEF Walk
  <2> QED
    BY <2>3
<1>7. iter[{}] = a0
  <2>1. Walk(iter)[{}] = a0
    BY <1>2
  <2> HIDE DEF Walk, iter
  <2> QED
    BY <1>6, <2>1
<1>8. Recursion(iter, n, A, a0, step)
  <2>1. ASSUME NEW s \in SUBSET (1..n), s # {}, iter[s \ {Max(s)}] \in A
        PROVE  iter[s] = step[<<iter[s \ {Max(s)}], Max(s)>>]
    <3>1. Walk(iter)[s] = Follow(iter[s \ {Max(s)}], p[Max(s)])
      BY <1>2, <2>1
    <3> HIDE DEF Walk, iter, step, A, n
    <3> QED
      BY <1>4, <1>5, <1>6, <2>1, <3>1
  <2> HIDE DEF Walk, iter, step, A, n, a0
  <2> QED
    BY <1>2, <1>4, <1>7, <2>1 DEF Recursion
<1>9. PICK at : IsRun(at, n, A, a0, step, iter[1..n])
  <2> HIDE DEF step, A, a0, n, Walk, iter
  <2> QED
    BY <1>8, Unroll
<1>10. \A k \in 1..n : k - 1 \in 0..n
  BY <1>2
<1>11. at \in [0..n -> A] /\ at[0] = a0 /\ at[n] = iter[DOMAIN p]
  BY <1>2, <1>9 DEF IsRun
<1>12. ASSUME NEW k \in 1..n PROVE at[k] = Follow(at[k - 1], p[k])
  <2> HIDE DEF step, iter, Walk, A, a0, n
  <2> QED
    BY <1>4, <1>9, <1>10, <1>11 DEF IsRun
<1> HIDE DEF step, iter, Walk
<1> QED
  BY <1>1, <1>11, <1>12

(* Without steps to a parent, the names of a path are the way to it.       *)
LEMMA PlainWay ==
    ASSUME NEW S, NEW p \in Seq(S), DotDot \notin ToSet(p)
    PROVE  FoldLeft(Follow, <<>>, p) = p
<1> DEFINE n == Len(p)
<1>1. PICK at \in [0..n -> Seq(S)] :
         /\ at[0] = <<>>
         /\ FoldLeft(Follow, <<>>, p) = at[n]
         /\ \A k \in 1..n : at[k] = Follow(at[k - 1], p[k])
  BY FollowWalk
<1> DEFINE T == {k \in 0..n : at[k] = SubSeq(p, 1, k)}
<1>2. n \in Nat /\ 0 \in T /\ SubSeq(p, 1, n) = p
  BY <1>1
<1>3. ASSUME NEW k \in 1..n, k - 1 \in T PROVE k \in T
  <2>1. k \in 0..n /\ k - 1 \in 0..n /\ p[k] # DotDot
    BY DEF ToSet
  <2>2. SubSeq(p, 1, k) = Append(SubSeq(p, 1, k - 1), p[k])
    OBVIOUS
  <2> HIDE DEF n
  <2> QED
    BY <1>1, <1>3, <2>1, <2>2 DEF Follow
<1>4. n \in T
  <2>1. n \in Nat /\ 0 \in T /\ n \in 0..n
    BY <1>2
  <2> HIDE DEF T, n
  <2>2. \A k \in 0..n : k \in T
    BY <2>1, <1>3, UpTo
  <2> QED
    BY <2>1, <2>2
<1> QED
  BY <1>1, <1>2, <1>4

(* Two texts with the same beginning are read alike so far.                *)
LEMMA SameWalk ==
    ASSUME NEW S, NEW p \in Seq(S), NEW q \in Seq(S), NEW n \in Nat,
           n <= Len(p), n <= Len(q), \A k \in 1..n : p[k] = q[k],
           NEW at, NEW bt, Walks(at, p, S), Walks(bt, q, S)
    PROVE  at[n] = bt[n]
<1> DEFINE T == {k \in 0..n : at[k] = bt[k]}
<1>1. 0 \in T
  BY DEF Walks
<1>2. ASSUME NEW k \in 1..n, k - 1 \in T PROVE k \in T
  <2>1. k \in 1..Len(p) /\ k \in 1..Len(q) /\ k \in 0..n /\ p[k] = q[k]
    OBVIOUS
  <2> QED
    BY <1>2, <2>1 DEF Walks
<1>3. \A k \in 0..n : k \in T
  <2> HIDE DEF T
  <2> QED
    BY <1>1, <1>2, UpTo
<1> QED
  BY <1>3

(* A prefix agrees with a text symbol by symbol.                             *)
LEMMA PrefixFacts ==
    ASSUME NEW S, NEW u \in Seq(S), NEW p \in Seq(S)
    PROVE  IsPrefix(u, p) <=> Len(u) <= Len(p) /\ \A i \in 1..Len(u) : u[i] = p[i]
<1>1. SubSeq(u, 1, Len(u)) = u
  OBVIOUS
<1>2. ASSUME Len(u) <= Len(p)
      PROVE  u = SubSeq(p, 1, Len(u)) <=> \A i \in 1..Len(u) : u[i] = p[i]
  <2> DEFINE v == SubSeq(p, 1, Len(u))
  <2>1. v \in Seq(S) /\ Len(v) = Len(u) /\ \A i \in 1..Len(u) : v[i] = p[i]
    BY <1>2
  <2> HIDE DEF v
  <2>2. (\A i \in 1..Len(u) : u[i] = v[i]) => u = v
    BY <2>1, SeqEqual
  <2> QED
    BY <2>1, <2>2 DEF v
<1> QED
  BY <1>1, <1>2 DEF IsPrefix

(* How a path begins.                                                      *)
LEMMA Beginnings ==
    ASSUME NEW S, Slash \in S, NEW p \in Seq(S)
    PROVE  /\ IsAbsolute(p) <=> p # <<>> /\ p[1] = Slash
           /\ IsPrefix(<<Slash, Slash>>, p) <=> Len(p) >= 2 /\ p[1] = Slash /\ p[2] = Slash
<1> DEFINE one == <<Slash>>
           two == <<Slash, Slash>>
<1>1. /\ one \in Seq(S) /\ Len(one) = 1 /\ one[1] = Slash
      /\ two \in Seq(S) /\ Len(two) = 2 /\ two[1] = Slash /\ two[2] = Slash
  OBVIOUS
<1>2. Len(p) >= 1 <=> p # <<>>
  OBVIOUS
<1>3. Len(p) \in Nat /\ 1..1 = {1} /\ 1..2 = {1, 2}
  OBVIOUS
<1> HIDE DEF one, two
<1>4. IsPrefix(one, p) <=> Len(p) >= 1 /\ p[1] = Slash
  <2> one \in Seq(S)
    BY <1>1
  <2>1. IsPrefix(one, p) <=> Len(one) <= Len(p) /\ \A i \in 1..Len(one) : one[i] = p[i]
    BY PrefixFacts
  <2> QED
    BY <1>1, <1>3, <2>1
<1>5. IsPrefix(two, p) <=> Len(p) >= 2 /\ p[1] = Slash /\ p[2] = Slash
  <2> two \in Seq(S)
    BY <1>1
  <2>1. IsPrefix(two, p) <=> Len(two) <= Len(p) /\ \A i \in 1..Len(two) : two[i] = p[i]
    BY PrefixFacts
  <2> QED
    BY <1>1, <1>3, <2>1
<1> QED
  BY <1>2, <1>4, <1>5 DEF IsAbsolute, one, two

(* A child's path is that of the directory, closed with a slash, and its   *)
(* name.                                                                   *)
LEMMA JoinFacts ==
    ASSUME NEW S, Slash \in S, NEW p \in Seq(S), p # <<>>,
           NEW name \in Seq(S), name # <<>>, name[1] # Slash
    PROVE  LET q == Join(p, name)
               m == IF p[Len(p)] = Slash THEN Len(p) ELSE Len(p) + 1
           IN  /\ q \in Seq(S) /\ Len(q) = m + Len(name)
               /\ \A k \in 1..Len(p) : q[k] = p[k]
               /\ q[m] = Slash
               /\ \A k \in 1..Len(name) : q[m + k] = name[k]
<1>1. ~IsAbsolute(name)
  BY Beginnings
<1>2. Len(p) \in Nat \ {0} /\ Len(name) \in Nat \ {0}
  OBVIOUS
<1>3. CASE p[Len(p)] = Slash
  <2>1. Join(p, name) = p \o name
    BY <1>1, <1>3 DEF Join, Last
  <2>2. /\ p \o name \in Seq(S) /\ Len(p \o name) = Len(p) + Len(name)
        /\ \A i \in 1..(Len(p) + Len(name)) :
              (p \o name)[i] = IF i <= Len(p) THEN p[i] ELSE name[i - Len(p)]
    BY ConcatProperties
  <2>3. \A k \in 1..Len(name) : (p \o name)[Len(p) + k] = name[k]
    BY <1>2, <2>2
  <2>4. \A k \in 1..Len(p) : (p \o name)[k] = p[k]
    BY <1>2, <2>2
  <2> QED
    BY <1>2, <1>3, <2>1, <2>2, <2>3, <2>4
<1>4. CASE p[Len(p)] # Slash
  <2> DEFINE b == p \o <<Slash>>
  <2>1. Join(p, name) = b \o name
    BY <1>1, <1>4 DEF Join, Last
  <2>2. /\ b \in Seq(S) /\ Len(b) = Len(p) + 1 /\ b[Len(p) + 1] = Slash
        /\ \A k \in 1..Len(p) : b[k] = p[k]
    <3>1. b = Append(p, Slash)
      OBVIOUS
    <3> QED
      BY <3>1
  <2> HIDE DEF b
  <2>3. /\ b \o name \in Seq(S) /\ Len(b \o name) = Len(b) + Len(name)
        /\ \A i \in 1..(Len(b) + Len(name)) :
              (b \o name)[i] = IF i <= Len(b) THEN b[i] ELSE name[i - Len(b)]
    BY <2>2, ConcatProperties
  <2>4. \A k \in 1..Len(name) : (b \o name)[Len(p) + 1 + k] = name[k]
    BY <1>2, <2>2, <2>3
  <2>5. \A k \in 1..(Len(p) + 1) : (b \o name)[k] = b[k]
    BY <1>2, <2>2, <2>3
  <2> QED
    BY <1>2, <1>4, <2>1, <2>2, <2>3, <2>4, <2>5
<1> QED
  BY <1>3, <1>4

(* The components of a child's path are those of the directory and its     *)
(* name.                                                                   *)
LEMMA ChildComponents ==
    ASSUME NEW S, Slash \in S, NEW p \in Seq(S), p # <<>>,
           NEW name \in Seq(S), name \notin {<<>>, <<".">>},
           \A i \in DOMAIN name : name[i] # Slash
    PROVE  Components(Join(p, name)) = Append(Components(p), name)
<1> DEFINE q == Join(p, name)
           n == Len(p)
           l == Len(name)
           m == IF p[n] = Slash THEN n ELSE n + 1
<1>1. n \in Nat \ {0} /\ l \in Nat \ {0} /\ DOMAIN name = 1..l /\ name[1] # Slash /\ name # <<>>
  OBVIOUS
<1>2. /\ q \in Seq(S) /\ Len(q) = m + l
      /\ \A k \in 1..n : q[k] = p[k]
      /\ q[m] = Slash
      /\ \A k \in 1..l : q[m + k] = name[k]
  BY <1>1, JoinFacts
<1>3. PICK at : Walks(at, p, S) /\ Components(p) = EndPiece(at[n])
  BY ComponentsWalk
<1> HIDE DEF q
<1>4. PICK bt : Walks(bt, q, S) /\ Components(q) = EndPiece(bt[Len(q)])
  BY <1>2, ComponentsWalk
<1>5. \A k \in 1..(m + l) : bt[k] = ReadSymbol(bt[k - 1], q[k])
  BY <1>2, <1>4 DEF Walks
<1>6. at[n] = bt[n] /\ at[n] \in Reading(S)
  <2>1. at[n] = bt[n]
    <3>1. n \in Nat /\ n <= Len(p) /\ n <= Len(q)
      BY <1>1, <1>2
    <3>2. \A k \in 1..n : p[k] = q[k]
      BY <1>2
    <3>3. p \in Seq(S) /\ q \in Seq(S)
      BY <1>2
    <3> HIDE DEF m, n
    <3> QED
      BY <3>1, <3>2, <3>3, <1>3, <1>4, SameWalk
  <2>2. at[n] \in Reading(S)
    BY <1>1, <1>3 DEF Walks
  <2> QED
    BY <2>1, <2>2
<1>7. bt[m] = [done |-> Components(p), piece |-> <<>>]
  <2>1. CASE p[n] = Slash
    <3>1. bt[n] = ReadSymbol(bt[n - 1], Slash)
      BY <1>1, <1>2, <1>5, <2>1
    <3>2. bt[n] = [done |-> EndPiece(bt[n - 1]), piece |-> <<>>]
      BY <3>1 DEF ReadSymbol
    <3>3. EndPiece(bt[n]) = bt[n].done
      BY <3>2 DEF EndPiece
    <3> QED
      BY <1>3, <1>6, <2>1, <3>2, <3>3
  <2>2. CASE p[n] # Slash
    <3>1. bt[n + 1] = ReadSymbol(bt[n], Slash)
      BY <1>1, <1>2, <1>5, <2>2
    <3> QED
      BY <1>3, <1>6, <2>2, <3>1 DEF ReadSymbol
  <2> QED
    BY <2>1, <2>2
<1> DEFINE T == {k \in 0..l : bt[m + k] = [done |-> Components(p), piece |-> SubSeq(name, 1, k)]}
<1>8. 0 \in T
  <2>1. SubSeq(name, 1, 0) = <<>> /\ m + 0 = m
    BY <1>1
  <2> HIDE DEF m
  <2> QED
    BY <1>1, <1>7, <2>1
<1>9. ASSUME NEW k \in 1..l, k - 1 \in T PROVE k \in T
  <2>1. m \in Nat /\ m + k \in 1..(m + l) /\ m + k - 1 = m + (k - 1) /\ k \in 0..l
    BY <1>1
  <2>2. q[m + k] = name[k] /\ name[k] # Slash
    BY <1>1, <1>2
  <2>3. SubSeq(name, 1, k) = Append(SubSeq(name, 1, k - 1), name[k])
    BY <1>1
  <2>4. bt[m + (k - 1)] = [done |-> Components(p), piece |-> SubSeq(name, 1, k - 1)]
    BY <1>9
  <2> HIDE DEF m, l
  <2>5. bt[m + k] = ReadSymbol(bt[m + k - 1], q[m + k])
    BY <1>5, <2>1
  <2>6. bt[m + k] = ReadSymbol(bt[m + (k - 1)], name[k])
    BY <2>1, <2>2, <2>5
  <2> DEFINE r == [done |-> Components(p), piece |-> SubSeq(name, 1, k - 1)]
  <2>7. ReadSymbol(r, name[k]) = [done |-> Components(p), piece |-> SubSeq(name, 1, k)]
    BY <2>2, <2>3 DEF ReadSymbol
  <2> QED
    BY <2>1, <2>4, <2>6, <2>7
<1>10. bt[Len(q)] = [done |-> Components(p), piece |-> name]
  <2>1. l \in Nat /\ l \in 0..l /\ SubSeq(name, 1, l) = name
    BY <1>1
  <2> HIDE DEF T, l
  <2>2. \A k \in 0..l : k \in T
    BY <1>8, <1>9, <2>1, UpTo
  <2>3. l \in T
    BY <2>1, <2>2
  <2> QED
    BY <1>2, <2>1, <2>3 DEF T
<1> QED
  BY <1>4, <1>10 DEF EndPiece, q

(* Blanks between fields leave no trace.                                   *)
LEMMA BlanksPass ==
    ASSUME NEW S, NEW p \in Seq(S), NEW at, Scans(at, p),
           NEW m \in 0..Len(p), NEW r \in m..Len(p), at[m].start = 0,
           \A i \in (m + 1)..r : p[i] = "SP"
    PROVE  at[r] = at[m]
<1> DEFINE T == {k \in 0..(r - m) : at[m + k] = at[m]}
<1>1. r - m \in Nat /\ m \in Nat /\ Len(p) \in Nat /\ 0 \in T
  OBVIOUS
<1>2. ASSUME NEW k \in 1..(r - m), k - 1 \in T PROVE k \in T
  <2>1. /\ k \in 0..(r - m) /\ m + k \in (m + 1)..r /\ m + k \in 1..Len(p)
        /\ (m + k) - 1 = m + (k - 1)
    BY <1>1
  <2>2. at[m + k] = ReadByte(p, at[m], m + k) /\ p[m + k] = "SP"
    BY <1>2, <2>1 DEF Scans
  <2>3. at[m] \in Scan
    BY DEF Scans
  <2>4. ReadByte(p, at[m], m + k) = at[m]
    BY <2>2, <2>3 DEF ReadByte, EndField, Scan
  <2> QED
    BY <2>1, <2>2, <2>4
<1>3. \A k \in 0..(r - m) : k \in T
  <2> HIDE DEF T
  <2> QED
    BY <1>1, <1>2, UpTo
<1>4. r - m \in T /\ m + (r - m) = r
  BY <1>1, <1>3
<1> QED
  BY <1>4

(* A field that has begun stays where it began, and so do those before it. *)
LEMMA FieldStays ==
    ASSUME NEW S, NEW p \in Seq(S), NEW at, Scans(at, p),
           NEW f \in 1..Len(p), at[f - 1].start = 0, p[f] # "SP"
    PROVE  LET s == at[f - 1].spans
               F == FieldSpans(p)
           IN  /\ Len(F) >= Len(s) + 1
               /\ F[Len(s) + 1][1] = f
               /\ \A i \in 1..Len(s) : F[i] = s[i]
<1> DEFINE n == Len(p)
           s == at[f - 1].spans
           l == Len(s)
           Kept(F) == /\ Len(F) >= l + 1
                      /\ F[l + 1][1] = f
                      /\ \A i \in 1..l : F[i] = s[i]
           Stays(a) == (a.spans = s /\ a.start = f) \/ Kept(a.spans)
           T == {k \in 0..(n - f) : Stays(at[f + k])}
<1>1. /\ n \in Nat /\ f \in Nat \ {0} /\ f - 1 \in 0..n /\ n - f \in Nat
      /\ s \in Seq(Nat \X Nat) /\ l \in Nat /\ at[f - 1] \in Scan
  <2>1. n \in Nat /\ f \in Nat \ {0} /\ f - 1 \in 0..n /\ n - f \in Nat
    OBVIOUS
  <2>2. at[f - 1] \in Scan
    BY <2>1 DEF Scans
  <2> QED
    BY <2>1, <2>2 DEF Scan
<1>2. 0 \in T
  <2>1. at[f] = ReadByte(p, at[f - 1], f)
    BY <1>1 DEF Scans
  <2>2. at[f].spans = s /\ at[f].start = f
    BY <2>1 DEF ReadByte
  <2> QED
    BY <1>1, <2>2
<1>3. ASSUME NEW a \in Scan, Stays(a), NEW e \in Nat PROVE EndField(a, e) \in Seq(Nat \X Nat) /\ (Kept(EndField(a, e)) \/ (a.start = 0 /\ Kept(a.spans)))
  <2>1. a.spans \in Seq(Nat \X Nat) /\ a.start \in Nat /\ <<a.start, e>> \in Nat \X Nat
    BY DEF Scan
  <2>2. CASE a.start = 0
    BY <1>1, <1>3, <2>1, <2>2 DEF EndField
  <2>3. CASE a.start # 0
    <3> DEFINE u == a.spans
               F == Append(u, <<a.start, e>>)
    <3>1. /\ F \in Seq(Nat \X Nat) /\ Len(F) = Len(u) + 1 /\ Len(u) \in Nat
          /\ F[Len(u) + 1] = <<a.start, e>>
          /\ \A i \in 1..Len(u) : F[i] = u[i]
      BY <2>1
    <3>2. EndField(a, e) = F
      BY <2>3 DEF EndField
    <3>3. <<a.start, e>>[1] = a.start
      OBVIOUS
    <3> HIDE DEF F
    <3>4. CASE u = s /\ a.start = f
      <4> HIDE DEF s
      <4> QED
        BY <1>1, <3>1, <3>2, <3>3, <3>4
    <3>5. CASE Kept(u)
      <4>1. Len(u) >= l + 1 /\ u[l + 1][1] = f /\ \A i \in 1..l : u[i] = s[i]
        BY <3>5
      <4>2. l \in Nat /\ Len(u) \in Nat /\ Len(F) = Len(u) + 1 /\ Len(u) >= l + 1
        BY <1>1, <3>1, <4>1
      <4> HIDE DEF s, l, u
      <4>3. l + 1 \in 1..Len(u) /\ Len(F) >= l + 1 /\ \A i \in 1..l : i \in 1..Len(u)
        BY <4>2
      <4>4. F[l + 1] = u[l + 1] /\ Len(F) >= l + 1 /\ \A i \in 1..l : F[i] = s[i]
        BY <3>1, <4>1, <4>3
      <4> QED
        BY <3>1, <3>2, <4>1, <4>4
    <3> QED
      BY <1>3, <3>4, <3>5
  <2> QED
    BY <2>2, <2>3
<1>4. ASSUME NEW k \in 1..(n - f), k - 1 \in T PROVE k \in T
  <2>1. /\ k \in 0..(n - f) /\ f + k \in 1..n /\ (f + k) - 1 = f + (k - 1)
        /\ f + (k - 1) \in 0..n /\ f + k \in Nat /\ (f + k) - 1 \in Nat
    BY <1>1
  <2> DEFINE a == at[f + (k - 1)]
  <2>2. a \in Scan /\ Stays(a)
    BY <1>4, <2>1 DEF Scans
  <2>3. at[f + k] = ReadByte(p, a, f + k)
    BY <2>1 DEF Scans
  <2> HIDE DEF a, Stays, Kept, s, l, n
  <2>4. CASE p[f + k] = "SP"
    <3>1. at[f + k].spans = EndField(a, (f + k) - 1)
      BY <2>3, <2>4 DEF ReadByte
    <3>2. Kept(at[f + k].spans)
      BY <1>3, <2>1, <2>2, <3>1 DEF EndField
    <3> QED
      BY <2>1, <3>2 DEF Stays
  <2>5. CASE p[f + k] # "SP"
    <3>1. at[f + k].spans = a.spans /\ (a.start # 0 => at[f + k].start = a.start)
      BY <2>3, <2>5 DEF ReadByte
    <3> QED
      BY <1>1, <2>1, <2>2, <3>1 DEF Stays
  <2> QED
    BY <2>4, <2>5
<1>5. Stays(at[n])
  <2>1. \A k \in 0..(n - f) : k \in T
    <3> HIDE DEF T
    <3> QED
      BY <1>1, <1>2, <1>4, UpTo
  <2>2. n - f \in T /\ f + (n - f) = n
    <3> HIDE DEF T, n
    <3> QED
      BY <1>1, <2>1
  <2> QED
    BY <2>2
<1>6. Kept(FieldSpans(p))
  <2>1. at[n] \in Scan /\ FieldSpans(p) = EndField(at[n], n)
    BY <1>1 DEF Scans
  <2> HIDE DEF Stays, Kept, s, l, n
  <2> QED
    BY <1>1, <1>3, <1>5, <2>1 DEF EndField
<1> QED
  BY <1>6

(* The least number of a set.                                              *)
LEMMA Least ==
    ASSUME NEW U, U \subseteq Nat, U # {}
    PROVE  \E m \in U : \A y \in U : m <= y
<1>1. PICK m \in U : \A y \in U : ~(<<y, m>> \in OpToRel(<, Nat))
  BY NatLessThanWellFounded, WFMin
<1>2. \A y \in U : ~(y < m)
  BY <1>1 DEF OpToRel
<1> QED
  BY <1>2

(* Fields F of a text p go on from the fields s of its first m symbols: they *)
(* begin with those, are those if only blanks follow, and the first symbol   *)
(* that is no blank begins the next.                                         *)
GoesOn(F, s, p, m) ==
    /\ Len(F) >= Len(s)
    /\ \A i \in 1..Len(s) : F[i] = s[i]
    /\ (\A i \in (m + 1)..Len(p) : p[i] = "SP") => F = s
    /\ \A f \in (m + 1)..Len(p) :
          p[f] # "SP" /\ (\A i \in (m + 1)..(f - 1) : p[i] = "SP") =>
             Len(F) >= Len(s) + 1 /\ F[Len(s) + 1][1] = f

(* The fields of a text go on so from those of its beginning, if that ends   *)
(* between two fields.                                                       *)
LEMMA FieldsGoOn ==
    ASSUME NEW S, NEW p \in Seq(S), NEW at, Scans(at, p),
           NEW m \in 0..Len(p), at[m].start = 0
    PROVE  GoesOn(FieldSpans(p), at[m].spans, p, m)
<1> DEFINE n == Len(p)
           s == at[m].spans
           F == FieldSpans(p)
           First(f) == p[f] # "SP" /\ \A i \in (m + 1)..(f - 1) : p[i] = "SP"
<1>1. n \in Nat /\ m \in Nat /\ m <= n /\ s \in Seq(Nat \X Nat) /\ Len(s) \in Nat
  <2>1. at[m] \in Scan
    BY DEF Scans
  <2> QED
    BY <2>1 DEF Scan
<1>2. ASSUME \A i \in (m + 1)..n : p[i] = "SP" PROVE F = s
  <2>1. n \in m..n
    BY <1>1
  <2>2. at[n] = at[m]
    BY <1>1, <1>2, <2>1, BlanksPass
  <2> QED
    BY <2>2 DEF Scans, EndField
<1>3. ASSUME NEW f \in (m + 1)..n, First(f)
      PROVE  Len(F) >= Len(s) + 1 /\ F[Len(s) + 1][1] = f /\ \A i \in 1..Len(s) : F[i] = s[i]
  <2>1. f - 1 \in m..n /\ f \in 1..n
    BY <1>1
  <2>2. at[f - 1] = at[m]
    <3> DEFINE r == f - 1
    <3>1. r \in m..Len(p) /\ \A i \in (m + 1)..r : p[i] = "SP"
      BY <1>3, <2>1
    <3> HIDE DEF r, First, n
    <3>2. at[r] = at[m]
      BY <3>1, BlanksPass
    <3> QED
      BY <3>2 DEF r
  <2>3. f \in 1..Len(p) /\ at[f - 1].start = 0 /\ p[f] # "SP"
    BY <1>3, <2>1, <2>2
  <2> DEFINE t == at[f - 1].spans
  <2>4. Len(F) >= Len(t) + 1 /\ F[Len(t) + 1][1] = f /\ \A i \in 1..Len(t) : F[i] = t[i]
    BY <2>3, FieldStays
  <2> QED
    BY <2>2, <2>4
<1>4. CASE \A i \in (m + 1)..n : p[i] = "SP"
  <2>1. F = s
    BY <1>2, <1>4
  <2>2. \A f \in (m + 1)..n : p[f] = "SP"
    BY <1>4
  <2> HIDE DEF s, F, n
  <2> QED
    BY <1>1, <2>1, <2>2 DEF s, F, n, GoesOn
<1>5. CASE \E i \in (m + 1)..n : p[i] # "SP"
  <2> DEFINE U == {i \in (m + 1)..n : p[i] # "SP"}
  <2>1. U \subseteq Nat /\ U # {}
    BY <1>1, <1>5
  <2>2. PICK f \in U : \A y \in U : f <= y
    BY <2>1, Least
  <2>3. \A i \in (m + 1)..(f - 1) : p[i] = "SP"
    <3> SUFFICES ASSUME NEW i \in (m + 1)..(f - 1), p[i] # "SP" PROVE FALSE
      OBVIOUS
    <3>1. i \in U /\ ~(f <= i)
      BY <1>1
    <3> QED
      BY <2>2, <3>1
  <2>4. f \in (m + 1)..n /\ First(f)
    BY <2>3
  <2>5. Len(F) >= Len(s) + 1 /\ \A i \in 1..Len(s) : F[i] = s[i]
    <3> HIDE DEF First, F, s
    <3> QED
      BY <1>3, <2>4
  <2>6. Len(F) >= Len(s)
    <3>1. F \in Seq(Nat \X Nat) \/ TRUE
      OBVIOUS
    <3> HIDE DEF F, s
    <3> QED
      BY <1>1, <2>5
  <2> HIDE DEF F, s
  <2> QED
    BY <1>3, <1>5, <2>5, <2>6 DEF F, s, GoesOn
<1> QED
  BY <1>4, <1>5

(* A text that begins with n fields of one symbol, a blank after each.       *)
Alternating(p, n) ==
    2 * n <= Len(p) /\ \A j \in 1..n : p[2 * j - 1] # "SP" /\ p[2 * j] = "SP"

(* Those n fields have been read: each begins and ends at its symbol.        *)
Pairs(a, n) ==
    /\ a.start = 0 /\ Len(a.spans) = n
    /\ \A j \in 1..n : a.spans[j] = <<2 * j - 1, 2 * j - 1>>

(* After n fields of one symbol, each with its blank, those n are read.      *)
LEMMA SpacedScan ==
    ASSUME NEW S, NEW p \in Seq(S), NEW at, Scans(at, p),
           NEW n \in Nat, Alternating(p, n)
    PROVE  Pairs(at[2 * n], n)
<1> USE DEF Alternating, Pairs
<1> DEFINE Done(j) == /\ at[2 * j].start = 0 /\ Len(at[2 * j].spans) = j
                      /\ \A i \in 1..j : at[2 * j].spans[i] = <<2 * i - 1, 2 * i - 1>>
           T == {j \in 0..n : Done(j)}
<1>1. 0 \in T
  <2>1. at[0].start = 0 /\ at[0].spans = <<>>
    BY DEF Scans
  <2> QED
    BY <2>1
<1>2. ASSUME NEW j \in 1..n, j - 1 \in T PROVE j \in T
  <2>1. /\ 2 * j - 1 \in 1..Len(p) /\ 2 * j \in 1..Len(p) /\ (2 * j) - 1 = 2 * j - 1
        /\ (2 * j - 1) - 1 = 2 * (j - 1) /\ 2 * (j - 1) \in 0..Len(p) /\ j \in 0..n
        /\ 2 * j - 1 # 0 /\ 2 * j - 1 \in Nat
    OBVIOUS
  <2> DEFINE a == at[2 * (j - 1)]
             u == a.spans
             e == <<2 * j - 1, 2 * j - 1>>
  <2>2. a \in Scan /\ u \in Seq(Nat \X Nat) /\ e \in Nat \X Nat
    BY <2>1 DEF Scans, Scan
  <2>3. a.start = 0 /\ Len(u) = j - 1 /\ \A i \in 1..(j - 1) : u[i] = <<2 * i - 1, 2 * i - 1>>
    BY <1>2
  <2>4. at[2 * j - 1] = ReadByte(p, a, 2 * j - 1) /\ p[2 * j - 1] # "SP"
    BY <2>1 DEF Scans
  <2>5. at[2 * j] = ReadByte(p, at[2 * j - 1], 2 * j) /\ p[2 * j] = "SP"
    BY <2>1 DEF Scans
  <2> HIDE DEF a
  <2>6. at[2 * j - 1].spans = u /\ at[2 * j - 1].start = 2 * j - 1
    BY <2>3, <2>4 DEF ReadByte
  <2>7. at[2 * j].start = 0 /\ at[2 * j].spans = Append(u, e)
    BY <2>1, <2>5, <2>6 DEF ReadByte, EndField
  <2> HIDE DEF u, e
  <2>8. /\ Len(Append(u, e)) = j
        /\ \A i \in 1..(j - 1) : Append(u, e)[i] = u[i]
        /\ Append(u, e)[j] = e
    BY <2>2, <2>3
  <2>9. ASSUME NEW i \in 1..j PROVE Append(u, e)[i] = <<2 * i - 1, 2 * i - 1>>
    <3>1. CASE i = j
      BY <2>8, <3>1 DEF e
    <3>2. CASE i # j
      <4>1. i \in 1..(j - 1)
        BY <3>2
      <4> QED
        BY <2>3, <2>8, <4>1
    <3> QED
      BY <3>1, <3>2
  <2> QED
    BY <2>1, <2>7, <2>8, <2>9
<1>3. \A j \in 0..n : j \in T
  <2> HIDE DEF T
  <2> QED
    BY <1>1, <1>2, UpTo
<1>4. n \in 0..n
  OBVIOUS
<1> QED
  BY <1>3, <1>4

(* A field of one symbol after k blanks, and a blank after it.             *)
LEMMA SingleScan ==
    ASSUME NEW S, NEW p \in Seq(S), NEW at, Scans(at, p),
           NEW k \in Nat, k + 2 <= Len(p),
           \A i \in 1..k : p[i] = "SP", p[k + 1] # "SP", p[k + 2] = "SP"
    PROVE  at[k + 2].start = 0 /\ at[k + 2].spans = <<<<k + 1, k + 1>>>>
<1>1. /\ Len(p) \in Nat /\ 0 \in 0..Len(p) /\ k \in 0..Len(p) /\ k + 1 \in 1..Len(p)
      /\ k + 2 \in 1..Len(p) /\ (k + 1) - 1 = k /\ (k + 2) - 1 = k + 1 /\ k + 1 # 0
      /\ at[0] = [spans |-> <<>>, start |-> 0]
  BY DEF Scans
<1>2. at[k] = [spans |-> <<>>, start |-> 0]
  <2> DEFINE m == 0
  <2>1. /\ m \in 0..Len(p) /\ k \in m..Len(p) /\ at[m].start = 0
        /\ \A i \in (m + 1)..k : p[i] = "SP"
    BY <1>1
  <2> HIDE DEF m
  <2>2. at[k] = at[m]
    BY <2>1, BlanksPass
  <2> QED
    BY <1>1, <2>2 DEF m
<1>3. at[k + 1] = ReadByte(p, at[k], k + 1) /\ at[k + 2] = ReadByte(p, at[k + 1], k + 2)
  BY <1>1 DEF Scans
<1>4. at[k + 1].spans = <<>> /\ at[k + 1].start = k + 1
  BY <1>2, <1>3 DEF ReadByte
<1>5. EndField(at[k + 1], k + 1) = Append(<<>>, <<k + 1, k + 1>>)
  BY <1>1, <1>4 DEF EndField
<1>6. at[k + 2].start = 0 /\ at[k + 2].spans = EndField(at[k + 1], k + 1)
  BY <1>1, <1>3 DEF ReadByte
<1> QED
  BY <1>5, <1>6

-----------------------------------------------------------------------------
(* Where a name begins.                                                    *)

(* What follows position n.                                                *)
LEMMA AfterFacts ==
    ASSUME NEW S, NEW p \in Seq(S), NEW n \in 0..Len(p)
    PROVE  /\ After(p, n) \in Seq(S) /\ Len(After(p, n)) = Len(p) - n
           /\ \A i \in 1..(Len(p) - n) : After(p, n)[i] = p[n + i]
<1>1. n \in Nat /\ Len(p) \in Nat /\ n + 1 \in Int
  OBVIOUS
<1>2. \A i \in (n + 1)..Len(p) : p[i] \in S
  BY <1>1
<1>3. /\ SubSeq(p, n + 1, Len(p)) \in Seq(S)
      /\ Len(SubSeq(p, n + 1, Len(p))) = IF n + 1 <= Len(p) THEN Len(p) - (n + 1) + 1 ELSE 0
      /\ \A i \in 1..(Len(p) - (n + 1) + 1) : SubSeq(p, n + 1, Len(p))[i] = p[(n + 1) + i - 1]
  BY <1>1, <1>2, SubSeqProperties
<1>4. ASSUME NEW i \in 1..(Len(p) - n)
      PROVE  i \in 1..(Len(p) - (n + 1) + 1) /\ (n + 1) + i - 1 = n + i
  BY <1>1
<1> QED
  BY <1>1, <1>3, <1>4 DEF After

(* What follows position m of what follows position n.                       *)
LEMMA AfterAfter ==
    ASSUME NEW S, NEW p \in Seq(S), NEW n \in 0..Len(p), NEW m \in 0..(Len(p) - n)
    PROVE  After(After(p, n), m) = After(p, n + m)
<1> DEFINE q == After(p, n)
           u == After(q, m)
           v == After(p, n + m)
           N == Len(p)
           l == N - (n + m)
<1>0. N \in Nat /\ n \in 0..N /\ m \in 0..(N - n)
  OBVIOUS
<1> HIDE DEF N
<1>1. /\ n \in Nat /\ m \in Nat /\ n + m \in 0..N /\ l \in Nat
      /\ (N - n) - m = l
  BY <1>0
<1>2. /\ q \in Seq(S) /\ Len(q) = N - n
      /\ \A i \in 1..(N - n) : q[i] = p[n + i]
  BY <1>0, AfterFacts DEF N
<1>3. v \in Seq(S) /\ Len(v) = l /\ \A i \in 1..l : v[i] = p[(n + m) + i]
  BY <1>1, AfterFacts DEF N
<1> HIDE DEF q, v, l
<1>4. u \in Seq(S) /\ Len(u) = l /\ \A i \in 1..l : u[i] = q[m + i]
  <2>1. m \in 0..Len(q) /\ Len(q) - m = l
    BY <1>0, <1>1, <1>2
  <2>2. /\ u \in Seq(S) /\ Len(u) = Len(q) - m
        /\ \A i \in 1..(Len(q) - m) : u[i] = q[m + i]
    BY <1>2, <2>1, AfterFacts
  <2> QED
    BY <2>1, <2>2
<1> HIDE DEF u
<1>5. ASSUME NEW i \in 1..l PROVE u[i] = v[i]
  <2>1. m + i \in 1..(N - n) /\ n + (m + i) = (n + m) + i
    BY <1>0, <1>1 DEF l
  <2>2. q[m + i] = p[n + (m + i)]
    BY <1>2, <2>1
  <2> QED
    BY <1>3, <1>4, <2>1, <2>2
<1>6. u = v
  BY <1>3, <1>4, <1>5, SeqEqual
<1> QED
  BY <1>6 DEF u, v, q

(* A text, without the blanks before it.                                   *)
LEMMA TrimmedFacts ==
    ASSUME NEW S, NEW p \in Seq(S), NEW n \in 0..Len(p), n < Len(p),
           \A i \in 1..n : p[i] = "SP", p[n + 1] \notin Blank
    PROVE  Trimmed(p) = After(p, n)
<1> DEFINE body == {i \in DOMAIN p : p[i] \notin Blank}
<1>1. /\ n \in Nat /\ Len(p) \in Nat /\ DOMAIN p = 1..Len(p) /\ n + 1 \in 1..Len(p)
  OBVIOUS
<1>2. n + 1 \in body
  BY <1>1
<1>3. \A y \in body : n + 1 <= y
  <2> SUFFICES ASSUME NEW y \in body, ~(n + 1 <= y) PROVE FALSE
    OBVIOUS
  <2>1. y \in 1..n /\ p[y] \notin Blank
    BY <1>1
  <2> QED
    BY <2>1 DEF Blank
<1>4. body \subseteq Nat
  BY <1>1
<1>5. Min(body) = n + 1
  <2> HIDE DEF body
  <2>1. Min(body) \in body /\ \A y \in body : Min(body) =< y
    BY <1>2, <1>3 DEF Min
  <2> DEFINE least == Min(body)
  <2>2. least \in Nat /\ least <= n + 1 /\ n + 1 <= least
    BY <1>2, <1>3, <1>4, <2>1
  <2> HIDE DEF least
  <2>3. least = n + 1
    BY <1>1, <2>2
  <2> QED
    BY <2>3 DEF least
<1>6. body # {}
  BY <1>2
<1> QED
  BY <1>5, <1>6 DEF Trimmed, After

(* The first symbol after eight fields of one symbol decides: a row is     *)
(* ambiguous exactly if it is a blank, and if not it begins the name.      *)
LEMMA PosixBoundary ==
    ASSUME NEW S, NEW row, row[1] \in PosixTypes,
           NEW t \in Seq(S), PosixText(row) = t, Len(t) >= 17,
           \A j \in 1..8 : t[2 * j - 1] \notin Blank /\ t[2 * j] = "SP"
    PROVE  /\ AmbiguousPosix(row) <=> t[17] \in Blank
           /\ Len(FieldSpans(t)) >= 8
           /\ t[17] \notin Blank => Trimmed(After(t, FieldSpans(t)[8][2])) = After(t, 16)
<1> DEFINE F == FieldSpans(t)
           n == Len(t)
           suffix == After(t, 15)
<1>1. PICK at : Scans(at, t)
  BY FieldsWalk
<1>2. n \in Nat /\ n >= 17
  OBVIOUS
<1>3. /\ at[16].start = 0 /\ Len(at[16].spans) = 8
      /\ \A j \in 1..8 : at[16].spans[j] = <<2 * j - 1, 2 * j - 1>>
  <2>1. Alternating(t, 8)
    <3>1. \A j \in 1..8 : t[2 * j - 1] # "SP" /\ t[2 * j] = "SP"
      BY DEF Blank
    <3>2. 2 * 8 <= n
      BY <1>2
    <3> QED
      BY <3>1, <3>2 DEF Alternating
  <2>2. 8 \in Nat /\ 2 * 8 = 16
    OBVIOUS
  <2>3. Pairs(at[2 * 8], 8)
    BY <1>1, <2>1, <2>2, SpacedScan
  <2> QED
    BY <2>2, <2>3 DEF Pairs
<1>4. /\ Len(F) >= 8 /\ F[8] = <<15, 15>>
      /\ (\A i \in 17..n : t[i] = "SP") => F = at[16].spans
      /\ \A f \in 17..n :
            t[f] # "SP" /\ (\A i \in 17..(f - 1) : t[i] = "SP") => Len(F) >= 9 /\ F[9][1] = f
  <2> DEFINE s == at[16].spans
  <2>1. 16 \in 0..n /\ 16 + 1 = 17 /\ at[16].start = 0 /\ Len(s) = 8 /\ Len(s) + 1 = 9
        /\ s[8] = <<15, 15>> /\ 8 \in 1..8
    BY <1>2, <1>3
  <2>2. GoesOn(F, s, t, 16)
    BY <1>1, <2>1, FieldsGoOn
  <2> HIDE DEF F, n, s
  <2>3. F[8] = s[8] /\ Len(F) >= 8
    BY <2>1, <2>2 DEF GoesOn
  <2>4. (\A i \in 17..n : t[i] = "SP") => F = s
    BY <2>1, <2>2 DEF GoesOn, n
  <2>5. ASSUME NEW f \in 17..n, t[f] # "SP", \A i \in 17..(f - 1) : t[i] = "SP"
        PROVE  Len(F) >= 9 /\ F[9][1] = f
    BY <2>1, <2>2, <2>5 DEF GoesOn, n
  <2> QED
    BY <2>1, <2>3, <2>4, <2>5 DEF s
<1>5. <<15, 15>>[2] = 15
  OBVIOUS
<1>6. /\ suffix \in Seq(S) /\ Len(suffix) = n - 15 /\ DOMAIN suffix = 1..(n - 15)
      /\ \A i \in 1..(n - 15) : suffix[i] = t[15 + i]
      /\ suffix[1] = "SP" /\ suffix[2] = t[17] /\ suffix # <<>>
  <2>1. 15 \in 0..n /\ 1 \in 1..(n - 15) /\ 2 \in 1..(n - 15) /\ 15 + 1 = 16 /\ 15 + 2 = 17
    BY <1>2
  <2>2. /\ suffix \in Seq(S) /\ Len(suffix) = n - 15
        /\ \A i \in 1..(n - 15) : suffix[i] = t[15 + i]
    BY <2>1, AfterFacts
  <2>3. t[16] = "SP"
    <3>1. 8 \in 1..8 /\ 2 * 8 = 16
      OBVIOUS
    <3> QED
      BY <3>1
  <2> HIDE DEF suffix
  <2>4. suffix[1] = "SP" /\ suffix[2] = t[17]
    BY <2>1, <2>2, <2>3
  <2> QED
    BY <1>2, <2>2, <2>4
<1>7. AmbiguousPosix(row) <=>
         \/ Len(F) >= 9 /\ 15 + 2 < F[9][1]
         \/ "U" \in ToSet(SubSeq(t, 1, 15))
         \/ AllBlank(suffix)
         \/ UnicodeAfterPadding(suffix)
  <2> HIDE DEF F, suffix
  <2> QED
    BY <1>4, <1>5 DEF AmbiguousPosix, F, suffix
<1>8. "U" \notin ToSet(SubSeq(t, 1, 15))
  <2>1. \A i \in 1..15 : t[i] # "U"
    <3> SUFFICES ASSUME NEW i \in 1..15 PROVE t[i] # "U"
      OBVIOUS
    <3>1. \E j \in 1..8 : i = 2 * j - 1 \/ i = 2 * j
      OBVIOUS
    <3> QED
      BY <3>1 DEF Blank
  <2>2. SubSeq(t, 1, 15) = [i \in 1..15 |-> t[i]]
    BY <1>2
  <2> QED
    BY <2>1, <2>2 DEF ToSet
<1>9. ASSUME t[17] \in Blank PROVE AmbiguousPosix(row)
  <2>1. CASE t[17] = "U"
    <3>1. 2 \in DOMAIN suffix /\ suffix[2] = "U" /\ \A j \in 1..(2 - 1) : suffix[j] = "SP"
      BY <1>2, <1>6, <2>1
    <3> HIDE DEF suffix
    <3> QED
      BY <1>7, <3>1 DEF UnicodeAfterPadding
  <2>2. CASE t[17] = "SP"
    <3>1. CASE \A i \in 17..n : t[i] = "SP"
      <4>1. \A i \in DOMAIN suffix : suffix[i] = "SP"
        <5> SUFFICES ASSUME NEW i \in 1..(n - 15) PROVE suffix[i] = "SP"
          BY <1>6
        <5>1. i = 1 \/ 15 + i \in 17..n
          BY <1>2
        <5> QED
          BY <1>6, <3>1, <5>1
      <4> HIDE DEF suffix
      <4>2. AllBlank(suffix)
        BY <1>6, <4>1 DEF AllBlank, ToSet, Blank
      <4> QED
        BY <1>7, <4>2
    <3>2. CASE \E i \in 17..n : t[i] # "SP"
      <4> DEFINE U == {i \in 17..n : t[i] # "SP"}
      <4>1. U \subseteq Nat /\ U # {}
        <5>1. 17..n \subseteq Nat
          BY <1>2
        <5> QED
          BY <3>2, <5>1
      <4>2. PICK f \in U : \A y \in U : f <= y
        BY <4>1, Least
      <4>3. \A i \in 17..(f - 1) : t[i] = "SP"
        <5> SUFFICES ASSUME NEW i \in 17..(f - 1), t[i] # "SP" PROVE FALSE
          OBVIOUS
        <5>1. i \in U /\ ~(f <= i)
          BY <1>2
        <5> QED
          BY <4>2, <5>1
      <4>4. f \in 17..n /\ t[f] # "SP" /\ f # 17
        BY <2>2
      <4>5. Len(F) >= 9 /\ F[9][1] = f /\ 15 + 2 < f
        BY <1>4, <4>3, <4>4
      <4> QED
        BY <1>7, <4>5
    <3> QED
      BY <3>1, <3>2
  <2> QED
    BY <1>9, <2>1, <2>2 DEF Blank
<1>10. ASSUME t[17] \notin Blank PROVE ~AmbiguousPosix(row) /\ Trimmed(suffix) = After(t, 16)
  <2>1. 17 \in 17..n /\ \A i \in 17..(17 - 1) : t[i] = "SP"
    BY <1>2
  <2>2. t[17] # "SP" /\ t[17] # "U"
    BY <1>10 DEF Blank
  <2>3. F[9][1] = 17
    BY <1>4, <2>1, <2>2
  <2>4. 2 \in DOMAIN suffix /\ suffix[2] \notin Blank
    BY <1>2, <1>6, <1>10
  <2>5. ~AllBlank(suffix)
    <3> HIDE DEF suffix
    <3> QED
      BY <2>4 DEF AllBlank, ToSet
  <2>6. ~UnicodeAfterPadding(suffix)
    <3> SUFFICES ASSUME NEW i \in DOMAIN suffix, suffix[i] = "U",
                        \A j \in 1..(i - 1) : suffix[j] = "SP"
                 PROVE  FALSE
      BY DEF UnicodeAfterPadding
    <3>1. i \in 1..(n - 15) /\ i # 1 /\ i # 2
      BY <1>6, <2>2
    <3>2. 2 \in 1..(i - 1)
      <4> HIDE DEF n, suffix
      <4> QED
        BY <1>2, <3>1
    <3> QED
      BY <1>6, <2>2, <3>2
  <2>7. Trimmed(suffix) = After(suffix, 1)
    <3>1. /\ 1 \in 0..Len(suffix) /\ 1 < Len(suffix) /\ suffix[1 + 1] \notin Blank
          /\ \A i \in 1..1 : suffix[i] = "SP"
      BY <1>2, <1>6, <1>10
    <3> HIDE DEF suffix
    <3> QED
      BY <1>6, <3>1, TrimmedFacts
  <2>8. After(suffix, 1) = After(t, 16)
    <3>1. 15 \in 0..n /\ 1 \in 0..(n - 15) /\ 15 + 1 = 16
      BY <1>2
    <3>2. After(After(t, 15), 1) = After(t, 15 + 1)
      BY <3>1, AfterAfter
    <3> QED
      BY <3>1, <3>2
  <2> HIDE DEF F, suffix
  <2> QED
    BY <1>7, <1>8, <2>3, <2>5, <2>6, <2>7, <2>8
<1> HIDE DEF F
<1> QED
  BY <1>4, <1>5, <1>9, <1>10 DEF F

(* A <DIR> in column 24, as the aligned DOS layout has it.                   *)
Wide(field, at) == field = "<DIR>" /\ at = 8

(* More blanks after the field than padding explains: the condition of       *)
(* reject_ambiguous_dos_name_boundary.                                       *)
PadsTooMuch(field, at, separator) ==
    /\ separator > 1
    /\ ~(/\ field = "<DIR>" /\ 17 + at - 1 = 24
         /\ 17 + at - 1 + (IF field = "<DIR>" THEN 5 ELSE 1) + separator = 39)

(* What follows the timestamp of a DOS row: blanks, one field at h, and j    *)
(* blanks, which are the padding of an aligned <DIR> or only one; something  *)
(* follows them.                                                             *)
DosRest(t, h, j) ==
    /\ Len(t) >= h + j + 1
    /\ \A i \in 1..(h - 1) : t[i] = "SP"
    /\ t[h] \in {"N", "<DIR>"}
    /\ \A i \in 1..j : t[h + i] = "SP"
    /\ j = IF Wide(t[h], h) THEN 10 ELSE 1

(* What the length of the padding tells.                                    *)
LEMMA Padding ==
    ASSUME NEW h \in {2, 8}, NEW field \in {"N", "<DIR>"}, NEW j \in {1, 10},
           j = IF Wide(field, h) THEN 10 ELSE 1, NEW separator \in Nat
    PROVE  /\ separator = j => ~PadsTooMuch(field, h, separator)
           /\ separator > j => PadsTooMuch(field, h, separator)
<1>1. field = "N" \/ field = "<DIR>"
  OBVIOUS
<1>2. "N" # "<DIR>"
  OBVIOUS
<1> QED
  BY <1>1, <1>2 DEF Wide, PadsTooMuch

(* The fields of what follows the timestamp.                                *)
LEMMA DosFields ==
    ASSUME NEW S, NEW t \in Seq(S), NEW h \in {2, 8}, NEW j \in {1, 10}, DosRest(t, h, j)
    PROVE  LET F == FieldSpans(t)
           IN  /\ Len(F) >= 1 /\ F[1] = <<h, h>>
               /\ (\A i \in (h + 2)..Len(t) : t[i] = "SP") => Len(F) = 1
               /\ \A f \in (h + 2)..Len(t) :
                     t[f] # "SP" /\ (\A i \in (h + 2)..(f - 1) : t[i] = "SP") =>
                        Len(F) >= 2 /\ F[2][1] = f
<1> DEFINE n == Len(t)
           F == FieldSpans(t)
           k == h - 1
<1>1. n \in Nat /\ h \in Nat /\ j \in Nat /\ j >= 1 /\ h > 1 /\ n >= h + j + 1
  BY DEF DosRest
<1>2. PICK at : Scans(at, t)
  BY FieldsWalk
<1>3. at[h + 1].start = 0 /\ at[h + 1].spans = <<<<h, h>>>>
  <2>1. k \in Nat /\ k + 2 <= Len(t) /\ k + 1 = h /\ k + 2 = h + 1 /\ 1 \in 1..j
    BY <1>1
  <2>2. t[k + 1] # "SP" /\ t[k + 2] = "SP" /\ \A i \in 1..k : t[i] = "SP"
    BY <2>1 DEF DosRest
  <2> HIDE DEF k
  <2>3. at[k + 2].start = 0 /\ at[k + 2].spans = <<<<k + 1, k + 1>>>>
    BY <1>2, <2>1, <2>2, SingleScan
  <2> QED
    BY <2>1, <2>3
<1> DEFINE s == at[h + 1].spans
<1>4. /\ h + 1 \in 0..n /\ (h + 1) + 1 = h + 2 /\ Len(s) = 1 /\ Len(s) + 1 = 2
      /\ s[1] = <<h, h>> /\ 1 \in 1..1
  BY <1>1, <1>3
<1>5. GoesOn(F, s, t, h + 1)
  <2> DEFINE m == h + 1
  <2>1. m \in 0..Len(t) /\ at[m].start = 0
    BY <1>3, <1>4
  <2> HIDE DEF m
  <2>2. GoesOn(FieldSpans(t), at[m].spans, t, m)
    BY <1>2, <2>1, FieldsGoOn
  <2> QED
    BY <2>2 DEF m
<1> HIDE DEF F, s, n
<1>6. Len(F) >= 1 /\ F[1] = <<h, h>>
  BY <1>4, <1>5 DEF GoesOn
<1>7. (\A i \in (h + 2)..n : t[i] = "SP") => Len(F) = 1
  BY <1>4, <1>5 DEF GoesOn, n
<1>8. ASSUME NEW f \in (h + 2)..n, t[f] # "SP", \A i \in (h + 2)..(f - 1) : t[i] = "SP"
      PROVE  Len(F) >= 2 /\ F[2][1] = f
  BY <1>4, <1>5, <1>8 DEF GoesOn, n
<1> QED
  BY <1>6, <1>7, <1>8 DEF F, n


(* The first symbol after that padding decides whether a DOS row is          *)
(* ambiguous, and begins the name if it is not.                              *)
LEMMA DosName ==
    ASSUME NEW S, NEW row, row[1] = "date", row[4] = "AM", NEW t \in Seq(S), After(row, 4) = t,
           NEW h \in {2, 8}, NEW j \in {1, 10}, DosRest(t, h, j)
    PROVE  /\ AmbiguousDos(row) <=> t[h + j + 1] \in Blank
           /\ t[h + j + 1] \notin Blank => Trimmed(After(t, h)) = After(t, h + j)
<1> DEFINE F == FieldSpans(t)
           n == Len(t)
           after == After(t, h)
           c == t[h + j + 1]
           sep == (IF Len(F) > 1 THEN F[2][1] ELSE n + 1) - h - 1
<1>1. n \in Nat /\ h \in Nat /\ j \in Nat /\ j >= 1 /\ h > 1 /\ n >= h + j + 1
  BY DEF DosRest
<1>2. /\ Len(F) >= 1 /\ F[1] = <<h, h>>
      /\ (\A i \in (h + 2)..n : t[i] = "SP") => Len(F) = 1
      /\ \A f \in (h + 2)..n :
            t[f] # "SP" /\ (\A i \in (h + 2)..(f - 1) : t[i] = "SP") => Len(F) >= 2 /\ F[2][1] = f
  BY DosFields
<1> HIDE DEF F
<1>3. <<h, h>>[1] = h /\ <<h, h>>[2] = h
  OBVIOUS
<1>4. /\ after \in Seq(S) /\ Len(after) = n - h /\ DOMAIN after = 1..(n - h) /\ after # <<>>
      /\ \A i \in 1..(n - h) : after[i] = t[h + i]
      /\ \A i \in 1..j : after[i] = "SP"
      /\ j + 1 \in DOMAIN after /\ after[j + 1] = c
  <2>1. h \in 0..n
    BY <1>1
  <2>2. /\ after \in Seq(S) /\ Len(after) = n - h
        /\ \A i \in 1..(n - h) : after[i] = t[h + i]
    BY <2>1, AfterFacts
  <2>3. n - h \in Nat /\ n - h >= j + 1 /\ \A i \in 1..j : i \in 1..(n - h)
    BY <1>1
  <2>4. j + 1 \in 1..(n - h) /\ h + (j + 1) = h + j + 1
    BY <1>1
  <2>5. \A i \in 1..j : t[h + i] = "SP"
    BY DEF DosRest
  <2> HIDE DEF after, n
  <2>6. DOMAIN after = 1..(n - h) /\ Len(after) # 0
    BY <2>2, <2>3
  <2>7. after # <<>>
    BY <2>6
  <2>8. after[j + 1] = c
    BY <2>2, <2>4
  <2> HIDE DEF c
  <2>9. \A i \in 1..j : after[i] = "SP"
    BY <2>2, <2>3, <2>5
  <2> QED
    BY <2>2, <2>4, <2>6, <2>7, <2>8, <2>9
<1>5. t # <<>> /\ t[1] = "SP"
  <2>1. 1 \in 1..(h - 1) /\ n # 0
    BY <1>1
  <2> QED
    BY <2>1 DEF DosRest
<1>6. AmbiguousDos(row) <=>
         AllBlank(after) \/ UnicodeAfterPadding(after) \/ PadsTooMuch(t[h], h, sep)
  <2>1. F # <<>> /\ F[1][1] = h
    BY <1>2, <1>3
  <2> HIDE DEF after
  <2>2. t[1] # "U"
    BY <1>5
  <2> DEFINE from == F[1][1]
             a == After(t, from)
             z == (IF Len(F) > 1 THEN F[2][1] ELSE n + 1) - from - 1
  <2>3. AmbiguousDos(row) <=>
           \/ row[4] # "AM"
           \/ t # <<>> /\ t[1] = "U"
           \/ /\ F # <<>>
              /\ AllBlank(a) \/ UnicodeAfterPadding(a) \/ PadsTooMuch(t[from], from, z)
    BY DEF AmbiguousDos, PadsTooMuch, F
  <2>4. a = after /\ z = sep
    BY <2>1 DEF after
  <2> HIDE DEF a, z, sep
  <2> QED
    BY <2>1, <2>2, <2>3, <2>4
<1>7. t[h] \in {"N", "<DIR>"} /\ j = IF Wide(t[h], h) THEN 10 ELSE 1
  BY DEF DosRest
<1> HIDE DEF after
<1>8. ASSUME c \in Blank PROVE AmbiguousDos(row)
  <2>1. CASE c = "U"
    <3>1. after[j + 1] = "U" /\ \A i \in 1..((j + 1) - 1) : after[i] = "SP"
      BY <1>1, <1>4, <2>1
    <3> QED
      BY <1>4, <1>6, <3>1 DEF UnicodeAfterPadding
  <2>2. CASE c = "SP"
    <3>1. CASE \A i \in (h + 2)..n : t[i] = "SP"
      <4>1. \A i \in DOMAIN after : after[i] = "SP"
        <5> SUFFICES ASSUME NEW i \in 1..(n - h) PROVE after[i] = "SP"
          BY <1>4
        <5>1. i \in 1..j \/ h + i \in (h + 2)..n
          BY <1>1
        <5> QED
          BY <1>4, <3>1, <5>1
      <4>2. AllBlank(after)
        BY <1>4, <4>1 DEF AllBlank, ToSet, Blank
      <4> QED
        BY <1>6, <4>2
    <3>2. CASE \E i \in (h + 2)..n : t[i] # "SP"
      <4> DEFINE U == {i \in (h + 2)..n : t[i] # "SP"}
      <4>1. U \subseteq Nat /\ U # {}
        BY <1>1, <3>2
      <4>2. PICK f \in U : \A y \in U : f <= y
        BY <4>1, Least
      <4>3. \A i \in (h + 2)..(f - 1) : t[i] = "SP"
        <5> SUFFICES ASSUME NEW i \in (h + 2)..(f - 1), t[i] # "SP" PROVE FALSE
          OBVIOUS
        <5>1. i \in U /\ ~(f <= i)
          BY <1>1
        <5> QED
          BY <4>2, <5>1
      <4>4. f \in (h + 2)..n /\ t[f] # "SP"
        OBVIOUS
      <4>5. f > h + j + 1
        <5>1. f \in Nat /\ f >= h + 2
          BY <1>1
        <5>2. f # h + j + 1
          BY <2>2
        <5>3. \A i \in 1..j : f # h + i
          BY <4>4 DEF DosRest
        <5>4. ~(f - h \in 1..j)
          <6> SUFFICES ASSUME f - h \in 1..j PROVE FALSE
            OBVIOUS
          <6>1. f = h + (f - h)
            BY <1>1, <5>1
          <6> QED
            BY <5>3, <6>1
        <5> QED
          BY <1>1, <5>1, <5>2, <5>4
      <4>6. Len(F) >= 2 /\ F[2][1] = f
        BY <1>2, <4>3, <4>4
      <4>7. Len(F) > 1
        BY <4>6
      <4>8. sep \in Nat /\ sep > j
        BY <1>1, <4>5, <4>6, <4>7
      <4> HIDE DEF sep
      <4>9. PadsTooMuch(t[h], h, sep)
        BY <1>7, <4>8, Padding
      <4> QED
        BY <1>6, <4>9
    <3> QED
      BY <3>1, <3>2
  <2> QED
    BY <1>8, <2>1, <2>2 DEF Blank
<1>9. ASSUME c \notin Blank PROVE ~AmbiguousDos(row) /\ Trimmed(after) = After(t, h + j)
  <2>1. c # "SP" /\ c # "U"
    BY <1>9 DEF Blank
  <2>2. j + 1 \in DOMAIN after /\ after[j + 1] \notin Blank
    BY <1>4, <1>9
  <2>3. ~AllBlank(after)
    BY <2>2 DEF AllBlank, ToSet
  <2>4. ~UnicodeAfterPadding(after)
    <3> SUFFICES ASSUME NEW i \in DOMAIN after, after[i] = "U",
                        \A y \in 1..(i - 1) : after[y] = "SP"
                 PROVE  FALSE
      BY DEF UnicodeAfterPadding
    <3>1. i \in Nat /\ i # j + 1 /\ i \notin 1..j /\ i >= 1
      BY <1>1, <1>4, <2>1
    <3>2. j + 1 \in 1..(i - 1)
      BY <1>1, <3>1
    <3> QED
      BY <1>4, <2>1, <3>2
  <2>5. sep = j
    <3> DEFINE f == h + j + 1
    <3>1. f \in (h + 2)..n /\ t[f] # "SP"
      BY <1>1, <2>1
    <3>2. \A i \in (h + 2)..(f - 1) : t[i] = "SP"
      <4> SUFFICES ASSUME NEW i \in (h + 2)..(f - 1) PROVE t[i] = "SP"
        OBVIOUS
      <4>1. i - h \in 1..j /\ i = h + (i - h)
        BY <1>1
      <4> QED
        BY <4>1 DEF DosRest
    <3> HIDE DEF f
    <3>3. Len(F) >= 2 /\ F[2][1] = f
      BY <1>2, <3>1, <3>2
    <3>4. sep = f - h - 1
      BY <3>3
    <3> QED
      BY <1>1, <3>4 DEF f
  <2>6. ~PadsTooMuch(t[h], h, sep)
    <3> HIDE DEF sep
    <3> QED
      BY <1>1, <1>7, <2>5, Padding
  <2>7. Trimmed(after) = After(after, j)
    <3>1. j \in 0..Len(after) /\ j < Len(after)
      BY <1>1, <1>4
    <3> QED
      BY <1>4, <2>2, <3>1, TrimmedFacts
  <2>8. After(after, j) = After(t, h + j)
    <3>1. h \in 0..Len(t) /\ j \in 0..(Len(t) - h)
      BY <1>1
    <3> QED
      BY <3>1, AfterAfter DEF after
  <2> HIDE DEF sep
  <2> QED
    BY <1>6, <2>3, <2>4, <2>6, <2>7, <2>8
<1> QED
  BY <1>8, <1>9 DEF after

(* The same in positions of the whole row.                                   *)
LEMMA DosBoundary ==
    ASSUME NEW S, NEW row \in Seq(S), row[1] = "date", row[4] = "AM", Len(row) >= 4,
           NEW h \in {2, 8}, NEW j \in {1, 10}, DosRest(After(row, 4), h, j)
    PROVE  LET F == FieldSpans(After(row, 4))
               c == row[4 + h + j + 1]
           IN  /\ AmbiguousDos(row) <=> c \in Blank
               /\ F # <<>>
               /\ c \notin Blank => Trimmed(After(row, 4 + F[1][2])) = After(row, 4 + h + j)
<1> DEFINE t == After(row, 4)
           F == FieldSpans(t)
<1>1. /\ t \in Seq(S) /\ Len(t) = Len(row) - 4
      /\ \A i \in 1..(Len(row) - 4) : t[i] = row[4 + i]
  <2>1. 4 \in 0..Len(row)
    OBVIOUS
  <2> QED
    BY <2>1, AfterFacts
<1>2. h \in Nat /\ j \in Nat /\ Len(t) >= h + j + 1 /\ Len(row) \in Nat
  BY DEF DosRest
<1>3. /\ h + j + 1 \in 1..(Len(row) - 4) /\ 4 + (h + j + 1) = 4 + h + j + 1
      /\ 4 \in 0..Len(row) /\ h \in 0..(Len(row) - 4) /\ h + j \in 0..(Len(row) - 4)
      /\ 4 + (h + j) = 4 + h + j
  BY <1>1, <1>2
<1> HIDE DEF t
<1>4. t[h + j + 1] = row[4 + h + j + 1]
  BY <1>1, <1>3
<1>5. /\ AmbiguousDos(row) <=> t[h + j + 1] \in Blank
      /\ t[h + j + 1] \notin Blank => Trimmed(After(t, h)) = After(t, h + j)
  BY <1>1, DosName DEF t
<1>6. Len(F) >= 1 /\ F[1] = <<h, h>>
  BY <1>1, DosFields DEF t
<1>7. <<h, h>>[2] = h
  OBVIOUS
<1>8. After(t, h) = After(row, 4 + h) /\ After(t, h + j) = After(row, 4 + h + j)
  <2>1. After(After(row, 4), h) = After(row, 4 + h)
    BY <1>3, AfterAfter
  <2> DEFINE m == h + j
  <2>2. m \in 0..(Len(row) - 4) /\ 4 + m = 4 + h + j
    BY <1>3
  <2> HIDE DEF m
  <2>3. After(After(row, 4), m) = After(row, 4 + m)
    BY <1>3, <2>2, AfterAfter
  <2> QED
    BY <2>1, <2>2, <2>3 DEF m, t
<1> HIDE DEF F
<1>9. F # <<>> /\ F[1][2] = h
  BY <1>6, <1>7
<1> QED
  BY <1>4, <1>5, <1>8, <1>9 DEF F, t

-----------------------------------------------------------------------------
(* The rows a server sends.                                                *)

(* Everything a row is made of.                                              *)
RowSymbols ==
    Characters \cup PosixTypes \cup {"m", "major", "N", "date", "AM", "24h", "<DIR>"}

(* What a row is made for: any entry, or the directory or its parent.      *)
RowOf == [type : PosixTypes, name : Seq(Characters) \ {<<>>}, target : Seq(Characters)]

(* The end of an entry's row, after the metadata.                          *)
Label(entry) == entry.name \o IF entry.type = "l" THEN Arrow \o entry.target ELSE <<>>

(* c is text a and then text b.                                              *)
Joined(c, a, b) ==
    /\ Len(c) = Len(a) + Len(b)
    /\ \A i \in 1..Len(a) : c[i] = a[i]
    /\ \A i \in 1..Len(b) : c[Len(a) + i] = b[i]

(* What concatenation does, symbol by symbol.                                *)
LEMMA JoinedFacts ==
    ASSUME NEW S, NEW a \in Seq(S), NEW b \in Seq(S)
    PROVE  a \o b \in Seq(S) /\ Joined(a \o b, a, b)
<1>1. /\ a \o b \in Seq(S) /\ Len(a \o b) = Len(a) + Len(b)
      /\ \A i \in 1..(Len(a) + Len(b)) : (a \o b)[i] = IF i <= Len(a) THEN a[i] ELSE b[i - Len(a)]
  BY ConcatProperties
<1>2. Len(a) \in Nat /\ Len(b) \in Nat
  OBVIOUS
<1>3. ASSUME NEW i \in 1..Len(b)
      PROVE  Len(a) + i \in 1..(Len(a) + Len(b)) /\ ~(Len(a) + i <= Len(a)) /\ (Len(a) + i) - Len(a) = i
  BY <1>2
<1>4. ASSUME NEW i \in 1..Len(a) PROVE i \in 1..(Len(a) + Len(b)) /\ i <= Len(a)
  BY <1>2
<1> QED
  BY <1>1, <1>3, <1>4 DEF Joined

(* Text p is o symbols and then the label.                                   *)
EndsWith(p, o, label) ==
    o \in Nat /\ Len(p) = o + Len(label) /\ \A i \in 1..Len(label) : p[o + i] = label[i]

(* What follows those o symbols is the label.                                *)
LEMMA AfterEnd ==
    ASSUME NEW S, NEW p \in Seq(S), NEW label \in Seq(S), NEW o, EndsWith(p, o, label)
    PROVE  After(p, o) = label
<1>1. o \in 0..Len(p) /\ Len(p) - o = Len(label) /\ Len(label) \in Nat
  BY DEF EndsWith
<1> DEFINE d == After(p, o)
<1>2. d \in Seq(S) /\ Len(d) = Len(p) - o /\ \A i \in 1..(Len(p) - o) : d[i] = p[o + i]
  BY <1>1, AfterFacts
<1> HIDE DEF d
<1>3. d \in Seq(S) /\ Len(d) = Len(label) /\ \A i \in 1..Len(label) : d[i] = label[i]
  BY <1>1, <1>2 DEF EndsWith
<1>4. d = label
  BY <1>3, SeqEqual
<1> QED
  BY <1>4 DEF d

(* An entry's label is not empty and begins with its name.                 *)
LEMMA LabelFacts ==
    ASSUME NEW entry \in RowOf
    PROVE  /\ Label(entry) \in Seq(Characters) /\ Label(entry) # <<>>
           /\ Len(entry.name) \in Nat \ {0}
           /\ entry.type # "l" => Label(entry) = entry.name
           /\ entry.type = "l" => Joined(Label(entry), entry.name, Arrow \o entry.target)
<1>1. /\ entry.name \in Seq(Characters) /\ entry.name # <<>> /\ entry.target \in Seq(Characters)
      /\ Len(entry.name) \in Nat \ {0}
  BY DEF RowOf
<1>2. CASE entry.type = "l"
  <2>1. Arrow \in Seq(Characters)
    BY DEF Arrow, Characters
  <2> DEFINE b == Arrow \o entry.target
  <2>2. b \in Seq(Characters)
    BY <1>1, <2>1
  <2> HIDE DEF b
  <2>3. entry.name \o b \in Seq(Characters) /\ Joined(entry.name \o b, entry.name, b)
    BY <1>1, <2>2, JoinedFacts
  <2>4. Len(entry.name \o b) # 0
    BY <1>1, <2>2, <2>3 DEF Joined
  <2>5. Label(entry) = entry.name \o b
    BY <1>2 DEF Label, b
  <2>6. Label(entry) # <<>>
    BY <2>4, <2>5
  <2> QED
    BY <1>1, <1>2, <2>3, <2>5, <2>6 DEF b
<1>3. CASE entry.type # "l"
  <2>1. Label(entry) = entry.name \o <<>>
    BY <1>3 DEF Label
  <2>2. entry.name \o <<>> = entry.name
    BY <1>1, ConcatEmptySeq
  <2> QED
    BY <1>1, <1>3, <2>1, <2>2
<1> QED
  BY <1>2, <1>3

(* A run of blanks.                                                          *)
LEMMA SpacesFacts ==
    ASSUME NEW n \in Nat
    PROVE  Spaces(n) \in Seq(RowSymbols) /\ Len(Spaces(n)) = n /\ \A i \in 1..n : Spaces(n)[i] = "SP"
<1>1. "SP" \in RowSymbols
  BY DEF RowSymbols, Characters
<1>2. Spaces(n) \in [1..n -> RowSymbols]
  BY <1>1 DEF Spaces
<1> QED
  BY <1>2 DEF Spaces

(* Fields, each with a blank after it.                                       *)
LEMMA SpacedFacts ==
    ASSUME NEW fields \in Seq(RowSymbols)
    PROVE  /\ Spaced(fields) \in Seq(RowSymbols) /\ Len(Spaced(fields)) = 2 * Len(fields)
           /\ \A j \in 1..Len(fields) :
                 Spaced(fields)[2 * j - 1] = fields[j] /\ Spaced(fields)[2 * j] = "SP"
<1> DEFINE n == Len(fields)
           q == Spaced(fields)
<1>1. n \in Nat /\ 2 * n \in Nat /\ "SP" \in RowSymbols
  <2>1. "SP" \in RowSymbols
    BY DEF RowSymbols, Characters
  <2> QED
    BY <2>1
<1>2. \A i \in 1..(2 * n) : i % 2 = 1 => (i + 1) \div 2 \in 1..n
  BY <1>1
<1>3. q \in [1..(2 * n) -> RowSymbols]
  BY <1>1, <1>2 DEF Spaced
<1>4. \A i \in 1..(2 * n) : q[i] = IF i % 2 = 1 THEN fields[(i + 1) \div 2] ELSE "SP"
  BY DEF Spaced
<1>5. \A j \in 1..n : /\ 2 * j - 1 \in 1..(2 * n) /\ (2 * j - 1) % 2 = 1 /\ ((2 * j - 1) + 1) \div 2 = j
                      /\ 2 * j \in 1..(2 * n) /\ (2 * j) % 2 # 1
  BY <1>1
<1>6. q \in Seq(RowSymbols) /\ Len(q) = 2 * n
  BY <1>1, <1>3
<1> HIDE DEF q, n
<1> QED
  BY <1>4, <1>5, <1>6 DEF q, n

(* A row of the POSIX format: the fields, a blank after each, one more if   *)
(* the names are aligned, and the label.                                   *)
PosixShape(row, type, pad, label) ==
    LET fields == Fields(type)
        n == Len(fields)
    IN  /\ row \in Seq(RowSymbols)
        /\ Len(row) = 2 * n + pad + Len(label)
        /\ \A j \in 1..n : row[2 * j - 1] = fields[j] /\ row[2 * j] = "SP"
        /\ \A i \in 1..pad : row[2 * n + i] = "SP"
        /\ \A i \in 1..Len(label) : row[2 * n + pad + i] = label[i]

(* The blanks before a name besides the one that separates it.               *)
Pad(style) == IF style = "posix" THEN 0 ELSE 1

(* The fields of an entry's type.                                          *)
LEMMA FieldsFacts ==
    ASSUME NEW type \in PosixTypes
    PROVE  /\ Fields(type) \in Seq(RowSymbols)
           /\ Fields(type)[1] = type
           /\ \A j \in DOMAIN Fields(type) : Fields(type)[j] \notin Blank \cup {"->", "B"}
           /\ type # "b" => Len(Fields(type)) = 8
           /\ type = "b" => /\ Len(Fields(type)) = 9
                            /\ Fields(type)[5] = "major" /\ Fields(type)[6] = "N"
<1>1. CASE type = "b"
  <2>1. Fields(type) = <<"b", "m", "m", "m", "major", "N", "m", "m", "m">>
    BY <1>1 DEF Fields
  <2>2. \A x \in {"b", "m", "major", "N"} : x \in RowSymbols /\ x \notin Blank \cup {"->", "B"}
    BY DEF RowSymbols, PosixTypes, Special, Blank
  <2> DEFINE X == {"b", "m", "major", "N"}
             f == <<"b", "m", "m", "m", "major", "N", "m", "m", "m">>
  <2>3. f[1] = "b" /\ f[5] = "major" /\ f[6] = "N"
    OBVIOUS
  <2>4. f \in Seq(X) /\ Len(f) = 9 /\ \A j \in 1..9 : f[j] \in X
    OBVIOUS
  <2> HIDE DEF f, X
  <2>5. DOMAIN f = 1..9
    BY <2>4 DEF f
  <2>6. f \in Seq(RowSymbols)
    BY <2>2, <2>4 DEF X
  <2> QED
    BY <1>1, <2>1, <2>2, <2>3, <2>4, <2>5, <2>6 DEF f, X
<1>2. CASE type # "b"
  <2>1. Fields(type) = <<type, "m", "m", "m", "N", "m", "m", "m">>
    BY <1>2 DEF Fields
  <2>2. \A x \in {type, "m", "N"} : x \in RowSymbols /\ x \notin Blank \cup {"->", "B"}
    BY DEF RowSymbols, PosixTypes, Special, Blank
  <2> DEFINE X == {type, "m", "N"}
             f == <<type, "m", "m", "m", "N", "m", "m", "m">>
  <2>3. f[1] = type
    OBVIOUS
  <2>4. f \in Seq(X) /\ Len(f) = 8 /\ \A j \in 1..8 : f[j] \in X
    OBVIOUS
  <2> HIDE DEF f, X
  <2>5. DOMAIN f = 1..8
    BY <2>4 DEF f
  <2>6. f \in Seq(RowSymbols)
    BY <2>2, <2>4 DEF X
  <2> QED
    BY <1>2, <2>1, <2>2, <2>3, <2>4, <2>5, <2>6 DEF f, X
<1> QED
  BY <1>1, <1>2

(* A row of a POSIX style has that shape.                                    *)
LEMMA PosixRow ==
    ASSUME NEW entry \in RowOf, NEW style \in {"posix", "posix_aligned"}
    PROVE  PosixShape(Row(entry, style), entry.type, Pad(style), Label(entry))
<1> DEFINE fields == Fields(entry.type)
           n == Len(fields)
           pad == Pad(style)
           label == Label(entry)
           a == Spaced(fields)
           b == Spaces(pad)
           row == Row(entry, style)
<1>1. row = (a \o b) \o label
  BY DEF Row, Label, Pad
<1>2. entry.type \in PosixTypes
  BY DEF RowOf
<1>3. fields \in Seq(RowSymbols) /\ n \in Nat
  <2>1. fields \in Seq(RowSymbols)
    BY <1>2, FieldsFacts
  <2> HIDE DEF fields
  <2> QED
    BY <2>1
<1>4. pad \in Nat
  BY DEF Pad
<1>5. label \in Seq(RowSymbols) /\ Len(label) \in Nat
  <2>1. label \in Seq(Characters)
    BY LabelFacts
  <2>2. Characters \subseteq RowSymbols
    BY DEF RowSymbols
  <2> HIDE DEF label
  <2> QED
    BY <2>1, <2>2
<1> HIDE DEF fields, pad, label, row
<1>6. /\ a \in Seq(RowSymbols) /\ Len(a) = 2 * n
      /\ \A j \in 1..n : a[2 * j - 1] = fields[j] /\ a[2 * j] = "SP"
  BY <1>3, SpacedFacts
<1>7. b \in Seq(RowSymbols) /\ Len(b) = pad /\ \A i \in 1..pad : b[i] = "SP"
  BY <1>4, SpacesFacts
<1> HIDE DEF a, b, n
<1>8. a \o b \in Seq(RowSymbols) /\ Joined(a \o b, a, b)
  BY <1>6, <1>7, JoinedFacts
<1> DEFINE c == a \o b
<1>9. c \in Seq(RowSymbols) /\ Joined(c, a, b) /\ row = c \o label
  BY <1>1, <1>8
<1> HIDE DEF c
<1>10. row \in Seq(RowSymbols) /\ Joined(row, c, label)
  BY <1>5, <1>9, JoinedFacts
<1>11. Len(c) = 2 * n + pad /\ Len(row) = 2 * n + pad + Len(label)
  BY <1>6, <1>7, <1>9, <1>10 DEF Joined
<1>12. ASSUME NEW j \in 1..n PROVE row[2 * j - 1] = fields[j] /\ row[2 * j] = "SP"
  <2>1. 2 * j - 1 \in 1..(2 * n) /\ 2 * j \in 1..(2 * n)
    BY <1>3
  <2>2. \A i \in 1..(2 * n) : i \in 1..Len(c) /\ row[i] = c[i] /\ c[i] = a[i]
    BY <1>3, <1>4, <1>6, <1>9, <1>10, <1>11 DEF Joined
  <2> QED
    BY <1>6, <2>1, <2>2
<1>13. ASSUME NEW i \in 1..pad PROVE row[2 * n + i] = "SP"
  <2>1. 2 * n + i \in 1..Len(c)
    BY <1>3, <1>4, <1>11
  <2>2. c[2 * n + i] = b[i]
    BY <1>6, <1>7, <1>9 DEF Joined
  <2> QED
    BY <1>7, <1>10, <2>1, <2>2 DEF Joined
<1>14. ASSUME NEW i \in 1..Len(label) PROVE row[2 * n + pad + i] = label[i]
  BY <1>10, <1>11 DEF Joined
<1> QED
  BY <1>10, <1>11, <1>12, <1>13, <1>14 DEF PosixShape, fields, n, pad, label, row

(* The same for eight fields of whatever text.                               *)
EightFields(t, pad, label) ==
    /\ t \in Seq(RowSymbols)
    /\ Len(t) = 16 + pad + Len(label)
    /\ \A j \in 1..8 : t[2 * j - 1] \notin Blank /\ t[2 * j] = "SP"
    /\ \A i \in 1..pad : t[16 + i] = "SP"
    /\ \A i \in 1..Len(label) : t[16 + pad + i] = label[i]

(* With a device's two numbers made one, the row of every type has eight     *)
(* fields: what normalize_special_posix_line is for.                         *)
LEMMA PosixTextFacts ==
    ASSUME NEW row, NEW type \in PosixTypes, NEW pad \in {0, 1}, NEW label \in Seq(Characters),
           PosixShape(row, type, pad, label)
    PROVE  EightFields(PosixText(row), pad, label) /\ row[1] = type
<1> DEFINE fields == Fields(type)
           n == Len(fields)
           m == Len(label)
<1>1. m \in Nat /\ pad \in Nat
  OBVIOUS
<1>2. /\ row \in Seq(RowSymbols)
      /\ Len(row) = 2 * n + pad + m
      /\ \A j \in 1..n : row[2 * j - 1] = fields[j] /\ row[2 * j] = "SP"
      /\ \A i \in 1..pad : row[2 * n + i] = "SP"
      /\ \A i \in 1..m : row[2 * n + pad + i] = label[i]
  BY DEF PosixShape
<1>3. /\ \A j \in 1..n : fields[j] \notin Blank
      /\ n \in {8, 9} /\ n \in Nat /\ n >= 8 /\ fields[1] = type
      /\ type # "b" => n = 8
      /\ type = "b" => n = 9 /\ fields[5] = "major" /\ fields[6] = "N"
  <2>1. fields \in Seq(RowSymbols)
    BY FieldsFacts
  <2>2. DOMAIN fields = 1..n
    BY <2>1
  <2>3. /\ \A j \in DOMAIN fields : fields[j] \notin Blank
        /\ fields[1] = type
        /\ type # "b" => n = 8
        /\ type = "b" => n = 9 /\ fields[5] = "major" /\ fields[6] = "N"
    BY FieldsFacts
  <2> HIDE DEF n, fields
  <2>4. n \in {8, 9} /\ n \in Nat /\ n >= 8
    BY <2>3
  <2> QED
    BY <2>2, <2>3, <2>4
<1> HIDE DEF fields, n, m
<1>4. row[1] = type
  <2>1. 1 \in 1..n /\ 2 * 1 - 1 = 1
    BY <1>3
  <2> QED
    BY <1>2, <1>3, <2>1
<1>5. row # <<>> /\ Len(row) \in Nat /\ Len(row) >= 16
  <2>1. Len(row) \in Nat /\ Len(row) >= 16
    BY <1>1, <1>2, <1>3
  <2> QED
    BY <2>1
<1>6. CASE type # "b"
  <2>1. PosixText(row) = row
    BY <1>4, <1>6 DEF PosixText, Normalize
  <2>2. \A j \in 1..8 : row[2 * j - 1] \notin Blank /\ row[2 * j] = "SP"
    BY <1>2, <1>3, <1>6
  <2> QED
    BY <1>2, <1>3, <1>4, <1>6, <2>1, <2>2 DEF EightFields, m
<1>7. CASE type = "b"
  <2>1. n = 9 /\ Len(row) = 18 + pad + m
    <3>1. n = 9 /\ Len(row) = 2 * n + pad + m
      BY <1>2, <1>3, <1>7
    <3> QED
      BY <1>1, <3>1
  <2>2. PICK at : Scans(at, row)
    BY <1>2, FieldsWalk
  <2> DEFINE F == FieldSpans(row)
             s == at[18].spans
  <2>3. at[18].start = 0 /\ Len(s) = 9 /\ \A j \in 1..9 : s[j] = <<2 * j - 1, 2 * j - 1>>
    <3>1. ASSUME NEW j \in 1..9 PROVE row[2 * j - 1] # "SP" /\ row[2 * j] = "SP"
      <4>1. j \in 1..n
        BY <2>1
      <4>2. row[2 * j - 1] = fields[j] /\ row[2 * j] = "SP" /\ fields[j] \notin Blank
        BY <1>2, <1>3, <4>1
      <4> QED
        BY <4>2 DEF Blank
    <3>2. Alternating(row, 9) /\ 9 \in Nat /\ 2 * 9 = 18
      BY <1>1, <2>1, <3>1 DEF Alternating
    <3>3. Pairs(at[2 * 9], 9)
      BY <1>2, <2>2, <3>2, SpacedScan
    <3> QED
      BY <3>2, <3>3 DEF Pairs
  <2>4. GoesOn(F, s, row, 18)
    <3>1. 18 \in 0..Len(row) /\ at[18].start = 0
      BY <1>1, <2>1, <2>3
    <3> QED
      BY <1>2, <2>2, <3>1, FieldsGoOn
  <2> HIDE DEF F, s
  <2>5. Len(F) >= 9 /\ F[5] = <<9, 9>> /\ F[6] = <<11, 11>>
    <3>1. 5 \in 1..9 /\ 6 \in 1..9 /\ 2 * 5 - 1 = 9 /\ 2 * 6 - 1 = 11
      OBVIOUS
    <3>2. s[5] = <<9, 9>> /\ s[6] = <<11, 11>> /\ Len(s) = 9
      BY <2>3, <3>1
    <3>3. Len(F) >= Len(s) /\ \A i \in 1..Len(s) : F[i] = s[i]
      BY <2>4 DEF GoesOn
    <3> QED
      BY <3>1, <3>2, <3>3
  <2>6. /\ F[5][1] = 9 /\ F[5][2] = 9 /\ F[6][1] = 11 /\ F[6][2] = 11 /\ 9 - 1 = 8
        /\ Len(F) > 5
    <3>1. <<9, 9>>[1] = 9 /\ <<9, 9>>[2] = 9 /\ <<11, 11>>[1] = 11 /\ <<11, 11>>[2] = 11
      OBVIOUS
    <3> QED
      BY <2>5, <3>1
  <2>7. row[9] = "major" /\ row[11] = "N"
    <3>1. 5 \in 1..n /\ 6 \in 1..n /\ 2 * 5 - 1 = 9 /\ 2 * 6 - 1 = 11
      BY <2>1
    <3>2. fields[5] = "major" /\ fields[6] = "N"
      BY <1>3, <1>7
    <3>3. row[2 * 5 - 1] = fields[5] /\ row[2 * 6 - 1] = fields[6]
      BY <1>2, <3>1
    <3> QED
      BY <3>1, <3>2, <3>3
  <2> DEFINE head == SubSeq(row, 1, 8)
             tail == After(row, 11)
             t == head \o <<"N">> \o tail
  <2>8. PosixText(row) = t
    <3>1. row[1] = "b" /\ "b" \in Special
      BY <1>4, <1>7 DEF Special
    <3>2. PosixText(row) = Normalize(row)
      BY <3>1 DEF PosixText
    <3> DEFINE u == SubSeq(row, 1, F[5][1] - 1) \o <<"N">> \o After(row, F[6][2])
    <3>3. Normalize(row) = u
      BY <1>5, <2>6, <2>7, <3>1 DEF Normalize, F
    <3>4. u = t
      BY <2>6
    <3> QED
      BY <3>2, <3>3, <3>4
  <2>9. head \in Seq(RowSymbols) /\ Len(head) = 8 /\ \A i \in 1..8 : head[i] = row[i]
    BY <1>2, <1>5
  <2> DEFINE k == 7 + pad + m
  <2>10. k \in Nat /\ Len(row) - 11 = k /\ 11 \in 0..Len(row)
    BY <1>1, <2>1
  <2>11. tail \in Seq(RowSymbols) /\ Len(tail) = k /\ \A i \in 1..k : tail[i] = row[11 + i]
    <3>1. /\ tail \in Seq(RowSymbols) /\ Len(tail) = Len(row) - 11
          /\ \A i \in 1..(Len(row) - 11) : tail[i] = row[11 + i]
      BY <1>2, <2>10, AfterFacts
    <3> HIDE DEF tail
    <3> QED
      BY <2>10, <3>1
  <2> DEFINE mid == <<"N">>
             a == head \o mid
  <2>12. mid \in Seq(RowSymbols) /\ Len(mid) = 1 /\ mid[1] = "N"
    BY DEF RowSymbols
  <2> HIDE DEF head, tail, mid, k
  <2>13. a \in Seq(RowSymbols) /\ Joined(a, head, mid)
    BY <2>9, <2>12, JoinedFacts
  <2>14. t = a \o tail
    BY DEF mid
  <2> HIDE DEF a, t
  <2>15. t \in Seq(RowSymbols) /\ Joined(t, a, tail)
    BY <2>11, <2>13, <2>14, JoinedFacts
  <2>16. Len(a) = 9 /\ Len(t) = 9 + k
    BY <2>9, <2>10, <2>11, <2>12, <2>13, <2>15 DEF Joined
  <2>17. /\ \A i \in 1..8 : t[i] = row[i]
         /\ t[9] = "N"
         /\ \A i \in 1..k : t[9 + i] = row[11 + i]
    <3>1. ASSUME NEW i \in 1..8 PROVE t[i] = row[i]
      <4>1. i \in 1..9
        OBVIOUS
      <4>2. t[i] = a[i] /\ a[i] = head[i]
        BY <2>9, <2>13, <2>15, <2>16, <4>1 DEF Joined
      <4> QED
        BY <2>9, <4>2
    <3>2. t[9] = "N"
      <4>1. 9 \in 1..9 /\ 1 \in 1..1 /\ 8 + 1 = 9
        OBVIOUS
      <4> QED
        BY <2>9, <2>12, <2>13, <2>15, <2>16, <4>1 DEF Joined
    <3>3. ASSUME NEW i \in 1..k PROVE t[9 + i] = row[11 + i]
      BY <2>11, <2>15, <2>16 DEF Joined
    <3> QED
      BY <3>1, <3>2, <3>3
  <2>18. ASSUME NEW j \in 1..8 PROVE t[2 * j - 1] \notin Blank /\ t[2 * j] = "SP"
    <3>1. \A i \in 1..9 : row[2 * i - 1] \notin Blank /\ row[2 * i] = "SP"
      BY <1>2, <1>3, <2>1
    <3>2. CASE j \in 1..4
      <4>1. 2 * j - 1 \in 1..8 /\ 2 * j \in 1..8 /\ j \in 1..9
        BY <3>2
      <4> QED
        BY <2>17, <3>1, <4>1
    <3>3. CASE j = 5
      <4>1. 2 * 5 - 1 = 9 /\ 2 * 5 = 9 + 1 /\ 1 \in 1..k /\ 11 + 1 = 2 * 6 /\ 6 \in 1..9
        BY <1>1 DEF k
      <4>2. t[2 * 5] = "SP"
        BY <2>17, <3>1, <4>1
      <4> QED
        BY <2>17, <3>3, <4>1, <4>2 DEF Blank
    <3>4. CASE j \in 6..8
      <4>1. /\ 2 * j - 1 = 9 + (2 * j - 10) /\ 2 * j - 10 \in 1..k
            /\ 11 + (2 * j - 10) = 2 * (j + 1) - 1
            /\ 2 * j = 9 + (2 * j - 9) /\ 2 * j - 9 \in 1..k
            /\ 11 + (2 * j - 9) = 2 * (j + 1) /\ j + 1 \in 1..9
        BY <1>1, <3>4 DEF k
      <4>2. t[2 * j - 1] = row[2 * (j + 1) - 1]
        BY <2>17, <4>1
      <4>3. t[2 * j] = row[2 * (j + 1)]
        BY <2>17, <4>1
      <4> QED
        BY <3>1, <4>1, <4>2, <4>3
    <3> QED
      BY <3>2, <3>3, <3>4
  <2>19. Len(t) = 16 + pad + m
    BY <1>1, <2>16 DEF k
  <2>20. ASSUME NEW i \in 1..pad PROVE t[16 + i] = "SP"
    <3>1. 16 + i = 9 + (7 + i) /\ 7 + i \in 1..k /\ 11 + (7 + i) = 18 + i
      BY <1>1 DEF k
    <3>2. row[18 + i] = "SP"
      BY <1>2, <2>1
    <3> QED
      BY <2>17, <3>1, <3>2
  <2>21. ASSUME NEW i \in 1..m PROVE t[16 + pad + i] = label[i]
    <3>1. /\ 16 + pad + i = 9 + (7 + pad + i) /\ 7 + pad + i \in 1..k
          /\ 11 + (7 + pad + i) = 18 + pad + i
      BY <1>1 DEF k
    <3>2. row[18 + pad + i] = label[i]
      BY <1>2, <2>1
    <3> QED
      BY <2>17, <3>1, <3>2
  <2> QED
    BY <1>4, <1>7, <2>8, <2>15, <2>18, <2>19, <2>20, <2>21 DEF EightFields, m
<1> QED
  BY <1>4, <1>6, <1>7

(* A DOS row: the timestamp, h - 1 blanks and one field, j blanks and the   *)
(* label.                                                                  *)
DosShape(row, style, h, j, label) ==
    /\ row \in Seq(RowSymbols)
    /\ Len(row) = 4 + h + j + Len(label)
    /\ row[1] = "date" /\ (row[4] = "AM" <=> style # "dos_24h")
    /\ \A i \in 2..3 : row[i] = "SP"
    /\ row[4] \in {"AM", "24h"}
    /\ \A i \in 1..(h - 1) : row[4 + i] = "SP"
    /\ row[4 + h] \in {"N", "<DIR>"}
    /\ \A i \in 1..j : row[4 + h + i] = "SP"
    /\ \A i \in 1..Len(label) : row[4 + h + j + i] = label[i]
    /\ j = IF Wide(row[4 + h], h) THEN 10 ELSE 1

(* A row of a DOS style has that shape.                                      *)
LEMMA DosRow ==
    ASSUME NEW entry \in RowOf, NEW style \in {"dos", "dos_aligned", "dos_24h"}
    PROVE  \E h \in {2, 8}, j \in {1, 10} : DosShape(Row(entry, style), style, h, j, Label(entry))
<1> DEFINE aligned == style = "dos_aligned"
           h == IF aligned THEN 8 ELSE 2
           j == IF aligned /\ entry.type = "d" THEN 10 ELSE 1
           field == IF entry.type = "d" THEN "<DIR>" ELSE "N"
           time == IF style = "dos_24h" THEN "24h" ELSE "AM"
           stamp == <<"date", "SP", "SP", time>>
           pad == Spaces(h - 1)
           meta == <<field>>
           gap == Spaces(j)
           label == Label(entry)
           a == stamp \o pad
           b == a \o meta
           c == b \o gap
           row == Row(entry, style)
<1>1. h \in {2, 8} /\ j \in {1, 10} /\ h \in Nat /\ h - 1 \in Nat /\ j \in Nat
  OBVIOUS
<1>2. row = c \o label
  <2>1. style \notin {"posix", "posix_aligned"}
    OBVIOUS
  <2>2. pad = Spaces(IF aligned THEN 7 ELSE 1)
    OBVIOUS
  <2>3. gap = Spaces(IF aligned /\ entry.type = "d" THEN 10 ELSE 1)
    OBVIOUS
  <2>4. meta = IF entry.type = "d" THEN <<"<DIR>">> ELSE <<"N">>
    OBVIOUS
  <2> HIDE DEF pad, gap, meta
  <2> QED
    BY <2>1, <2>2, <2>3, <2>4 DEF Row, Label
<1>3. /\ stamp \in Seq(RowSymbols) /\ Len(stamp) = 4
      /\ stamp[1] = "date" /\ stamp[2] = "SP" /\ stamp[3] = "SP" /\ stamp[4] = time
  <2>1. "date" \in RowSymbols /\ "SP" \in RowSymbols /\ time \in RowSymbols
    BY DEF RowSymbols, Characters
  <2> HIDE DEF time
  <2> QED
    BY <2>1
<1>4. meta \in Seq(RowSymbols) /\ Len(meta) = 1 /\ meta[1] = field
  <2>1. field \in RowSymbols
    BY DEF RowSymbols
  <2> HIDE DEF field
  <2> QED
    BY <2>1
<1>5. /\ time \in {"AM", "24h"} /\ (time = "AM" <=> style # "dos_24h")
      /\ field \in {"N", "<DIR>"}
      /\ j = IF Wide(field, h) THEN 10 ELSE 1
  BY DEF Wide
<1> HIDE DEF h, j, field, time, row
<1>6. pad \in Seq(RowSymbols) /\ Len(pad) = h - 1 /\ \A i \in 1..(h - 1) : pad[i] = "SP"
  <2> DEFINE k == h - 1
  <2>1. k \in Nat
    BY <1>1
  <2> HIDE DEF k
  <2>2. Spaces(k) \in Seq(RowSymbols) /\ Len(Spaces(k)) = k /\ \A i \in 1..k : Spaces(k)[i] = "SP"
    BY <2>1, SpacesFacts
  <2> QED
    BY <2>2 DEF k
<1>7. gap \in Seq(RowSymbols) /\ Len(gap) = j /\ \A i \in 1..j : gap[i] = "SP"
  BY <1>1, SpacesFacts
<1>8. label \in Seq(RowSymbols) /\ Len(label) \in Nat
  <2>1. label \in Seq(Characters)
    BY LabelFacts
  <2>2. Characters \subseteq RowSymbols
    BY DEF RowSymbols
  <2> HIDE DEF label
  <2> QED
    BY <2>1, <2>2
<1> HIDE DEF stamp, pad, meta, gap, label, a, b, c
<1>9. a \in Seq(RowSymbols) /\ Joined(a, stamp, pad)
  BY <1>3, <1>6, JoinedFacts DEF a
<1>10. b \in Seq(RowSymbols) /\ Joined(b, a, meta)
  BY <1>4, <1>9, JoinedFacts DEF b
<1>11. c \in Seq(RowSymbols) /\ Joined(c, b, gap)
  BY <1>7, <1>10, JoinedFacts DEF c
<1>12. row \in Seq(RowSymbols) /\ Joined(row, c, label)
  BY <1>2, <1>8, <1>11, JoinedFacts
<1>13. /\ Len(a) = 3 + h /\ Len(b) = 4 + h /\ Len(c) = 4 + h + j
       /\ Len(row) = 4 + h + j + Len(label)
  BY <1>1, <1>3, <1>4, <1>6, <1>7, <1>8, <1>9, <1>10, <1>11, <1>12 DEF Joined
<1>14. /\ \A i \in 1..(4 + h + j) : row[i] = c[i]
       /\ \A i \in 1..(4 + h) : i \in 1..(4 + h + j) /\ row[i] = b[i]
       /\ \A i \in 1..(3 + h) : i \in 1..(4 + h) /\ row[i] = a[i]
       /\ \A i \in 1..4 : i \in 1..(3 + h) /\ row[i] = stamp[i]
  <2>1. \A i \in 1..(4 + h + j) : row[i] = c[i]
    BY <1>12, <1>13 DEF Joined
  <2>2. \A i \in 1..(4 + h) : i \in 1..(4 + h + j) /\ c[i] = b[i]
    BY <1>1, <1>11, <1>13 DEF Joined
  <2>3. \A i \in 1..(3 + h) : i \in 1..(4 + h) /\ b[i] = a[i]
    BY <1>1, <1>10, <1>13 DEF Joined
  <2>4. \A i \in 1..4 : i \in 1..(3 + h) /\ a[i] = stamp[i]
    BY <1>1, <1>3, <1>9 DEF Joined
  <2> QED
    BY <2>1, <2>2, <2>3, <2>4
<1>15. \A i \in 1..(h - 1) : row[4 + i] = "SP"
  <2> SUFFICES ASSUME NEW i \in 1..(h - 1) PROVE row[4 + i] = "SP"
    OBVIOUS
  <2>1. 4 + i \in 1..(3 + h)
    BY <1>1
  <2>2. a[4 + i] = pad[i]
    BY <1>3, <1>6, <1>9 DEF Joined
  <2> QED
    BY <1>6, <1>14, <2>1, <2>2
<1>16. row[4 + h] = field
  <2>1. 4 + h \in 1..(4 + h) /\ (3 + h) + 1 = 4 + h /\ 1 \in 1..1
    BY <1>1
  <2>2. b[(3 + h) + 1] = meta[1]
    BY <1>4, <1>10, <1>13, <2>1 DEF Joined
  <2> QED
    BY <1>4, <1>14, <2>1, <2>2
<1>17. \A i \in 1..j : row[4 + h + i] = "SP"
  <2> SUFFICES ASSUME NEW i \in 1..j PROVE row[4 + h + i] = "SP"
    OBVIOUS
  <2>1. 4 + h + i \in 1..(4 + h + j)
    BY <1>1
  <2>2. c[4 + h + i] = gap[i]
    BY <1>7, <1>11, <1>13 DEF Joined
  <2> QED
    BY <1>7, <1>14, <2>1, <2>2
<1>18. \A i \in 1..Len(label) : row[4 + h + j + i] = label[i]
  BY <1>12, <1>13 DEF Joined
<1>19. row[1] = "date" /\ row[2] = "SP" /\ row[3] = "SP" /\ row[4] = time
  BY <1>3, <1>14
<1>20. \A i \in 2..3 : row[i] = "SP"
  <2>1. \A i \in 2..3 : i = 2 \/ i = 3
    OBVIOUS
  <2> QED
    BY <1>19, <2>1
<1> QED
  BY <1>1, <1>5, <1>12, <1>13, <1>15, <1>16, <1>17, <1>18, <1>19, <1>20
     DEF DosShape, row, label

(* A row is read as its label.                                               *)
IsRead(row, entry) == ParseEntry(row) = ParsedName(Label(entry), entry.type = "l")

(* A row that is not ambiguous is read as its label; and in the styles that  *)
(* are not always ambiguous only a blank at the beginning of the label, or   *)
(* the arrows of a link, make it so.  The label ends the row, and nothing    *)
(* before it has an arrow or a byte that is not UTF-8.                       *)
ReadUnlessAmbiguous(row, entry, style) ==
    /\ row \in Seq(RowSymbols) /\ row[1] \in {"date"} \cup PosixTypes
    /\ AmbiguousLink(row) <=> entry.type = "l" /\ Separators(row) > 1
    /\ ~Ambiguous(row) => IsRead(row, entry)
    /\ style \notin {"posix_aligned", "dos_24h"} =>
          /\ Ambiguous(row) <=> Label(entry)[1] \in Blank \/ AmbiguousLink(row)
          /\ Label(entry)[1] \notin Blank => IsRead(row, entry)
    /\ \E o : /\ EndsWith(row, o, Label(entry))
              /\ \A i \in 1..o : row[i] \notin {"->", "B"}

(* The label ends a POSIX row.                                               *)
LEMMA PosixEnd ==
    ASSUME NEW row, NEW type \in PosixTypes, NEW pad \in Nat, NEW label \in Seq(Characters),
           PosixShape(row, type, pad, label)
    PROVE  \E o : EndsWith(row, o, label) /\ \A i \in 1..o : row[i] \notin {"->", "B"}
<1> DEFINE fields == Fields(type)
           n == Len(fields)
           o == 2 * n + pad
<1>1. n \in Nat /\ \A j \in 1..n : fields[j] \notin {"->", "B"}
  <2>1. fields \in Seq(RowSymbols) /\ \A j \in DOMAIN fields : fields[j] \notin {"->", "B"}
    BY FieldsFacts
  <2> HIDE DEF fields
  <2>2. DOMAIN fields = 1..n
    BY <2>1
  <2> QED
    BY <2>1, <2>2
<1>2. /\ Len(row) = o + Len(label)
      /\ \A j \in 1..n : row[2 * j - 1] = fields[j] /\ row[2 * j] = "SP"
      /\ \A i \in 1..pad : row[2 * n + i] = "SP"
      /\ \A i \in 1..Len(label) : row[o + i] = label[i]
  BY DEF PosixShape
<1> HIDE DEF fields, n
<1>3. EndsWith(row, o, label)
  BY <1>1, <1>2 DEF EndsWith
<1>4. ASSUME NEW i \in 1..o PROVE row[i] \notin {"->", "B"}
  <2>1. CASE i > 2 * n
    <3>1. i - 2 * n \in 1..pad /\ 2 * n + (i - 2 * n) = i
      BY <1>1, <2>1
    <3>2. row[i] = "SP"
      BY <1>2, <3>1
    <3> QED
      BY <3>2
  <2>2. CASE i <= 2 * n
    <3>1. PICK j \in 1..n : i = 2 * j - 1 \/ i = 2 * j
      <4> DEFINE j == (i + 1) \div 2
      <4>1. j \in 1..n /\ (i = 2 * j - 1 \/ i = 2 * j)
        BY <1>1, <2>2
      <4> QED
        BY <4>1
    <3>2. row[i] = fields[j] \/ row[i] = "SP"
      BY <1>2, <3>1
    <3> QED
      BY <1>1, <3>2
  <2> QED
    BY <1>1, <2>1, <2>2
<1> HIDE DEF o
<1> QED
  BY <1>3, <1>4

(* A POSIX row is read so.                                                   *)
LEMMA PosixRead ==
    ASSUME NEW entry \in RowOf, NEW style \in {"posix", "posix_aligned"}
    PROVE  ReadUnlessAmbiguous(Row(entry, style), entry, style)
<1> DEFINE row == Row(entry, style)
           type == entry.type
           label == Label(entry)
           pad == Pad(style)
           t == PosixText(row)
           n == Len(Fields(type))
<1>1. type \in PosixTypes /\ pad \in {0, 1} /\ pad \in Nat
  BY DEF RowOf, Pad
<1>2. label \in Seq(Characters) /\ label # <<>> /\ Len(label) \in Nat \ {0}
  <2>1. label \in Seq(Characters) /\ label # <<>>
    BY LabelFacts
  <2> HIDE DEF label
  <2> QED
    BY <2>1
<1>3. PosixShape(row, type, pad, label)
  BY PosixRow
<1> HIDE DEF row, type, label, pad
<1>4. EightFields(t, pad, label) /\ row[1] = type
  BY <1>1, <1>2, <1>3, PosixTextFacts
<1>5. row \in Seq(RowSymbols)
  BY <1>3 DEF PosixShape
<1> HIDE DEF t
<1>6. /\ t \in Seq(RowSymbols) /\ Len(t) = 16 + pad + Len(label) /\ Len(t) >= 17
      /\ \A j \in 1..8 : t[2 * j - 1] \notin Blank /\ t[2 * j] = "SP"
  BY <1>1, <1>2, <1>4 DEF EightFields
<1>7. /\ AmbiguousPosix(row) <=> t[17] \in Blank
      /\ Len(FieldSpans(t)) >= 8
      /\ t[17] \notin Blank => Trimmed(After(t, FieldSpans(t)[8][2])) = After(t, 16)
  <2>1. row[1] \in PosixTypes /\ PosixText(row) = t
    BY <1>1, <1>4 DEF t
  <2> QED
    BY <1>6, <2>1, PosixBoundary
<1>8. /\ ~AmbiguousDos(row)
      /\ AmbiguousLink(row) <=> type = "l" /\ Separators(row) > 1
      /\ Ambiguous(row) <=> t[17] \in Blank \/ AmbiguousLink(row)
  <2>1. ~AmbiguousDos(row)
    BY <1>1, <1>4 DEF AmbiguousDos, PosixTypes, Special
  <2>2. AmbiguousLink(row) <=> type = "l" /\ Separators(row) > 1
    BY <1>4 DEF AmbiguousLink
  <2> QED
    BY <1>7, <2>1, <2>2 DEF Ambiguous
<1>9. CASE style = "posix_aligned"
  <2>1. pad = 1
    BY <1>9 DEF pad, Pad
  <2>2. t[17] = "SP"
    <3>1. 1 \in 1..pad /\ 16 + 1 = 17
      BY <2>1
    <3> QED
      BY <1>4, <3>1 DEF EightFields
  <2>3. Ambiguous(row)
    BY <1>8, <2>2 DEF Blank
  <2>4. \E o : EndsWith(row, o, label) /\ \A i \in 1..o : row[i] \notin {"->", "B"}
    BY <1>1, <1>2, <1>3, PosixEnd
  <2> QED
    BY <1>1, <1>4, <1>5, <1>8, <1>9, <2>3, <2>4 DEF ReadUnlessAmbiguous, row, type, label
<1>10. CASE style = "posix"
  <2>1. pad = 0
    BY <1>10 DEF pad, Pad
  <2>2. EndsWith(t, 16, label)
    BY <1>2, <1>4, <2>1 DEF EightFields, EndsWith
  <2>3. t[17] = label[1] /\ After(t, 16) = label
    <3>1. 1 \in 1..Len(label) /\ 16 + 1 = 17
      BY <1>2
    <3>2. label \in Seq(RowSymbols)
      BY <1>2 DEF RowSymbols
    <3>3. t[16 + 1] = label[1]
      BY <2>2, <3>1 DEF EndsWith
    <3>4. After(t, 16) = label
      BY <1>6, <2>2, <3>2, AfterEnd
    <3> QED
      BY <3>1, <3>3, <3>4
  <2>4. label[1] \notin Blank => ParseEntry(row) = ParsedName(label, type = "l")
    <3> SUFFICES ASSUME label[1] \notin Blank PROVE ParseEntry(row) = ParsedName(label, type = "l")
      OBVIOUS
    <3> DEFINE text == Trimmed(After(t, FieldSpans(t)[8][2]))
    <3>1. text = label
      BY <1>7, <2>3
    <3>2. row[1] \in PosixTypes /\ Len(FieldSpans(PosixText(row))) >= 8
      BY <1>1, <1>4, <1>7 DEF t
    <3>3. ParseEntry(row) = ParsedName(text, row[1] = "l")
      BY <3>2 DEF ParseEntry, t
    <3> HIDE DEF text
    <3> QED
      BY <1>4, <3>1, <3>3
  <2>5. Ambiguous(row) <=> label[1] \in Blank \/ AmbiguousLink(row)
    BY <1>8, <2>3
  <2>6. \E o : EndsWith(row, o, label) /\ \A i \in 1..o : row[i] \notin {"->", "B"}
    BY <1>1, <1>2, <1>3, PosixEnd
  <2> QED
    BY <1>1, <1>4, <1>5, <1>8, <2>4, <2>5, <2>6
       DEF ReadUnlessAmbiguous, IsRead, row, type, label
<1> QED
  BY <1>9, <1>10

(* A DOS row is read so.                                                     *)
LEMMA DosRead ==
    ASSUME NEW entry \in RowOf, entry.type \in DosTypes,
           NEW style \in {"dos", "dos_aligned", "dos_24h"}
    PROVE  ReadUnlessAmbiguous(Row(entry, style), entry, style)
<1> DEFINE row == Row(entry, style)
           type == entry.type
           label == Label(entry)
           rest == After(row, 4)
           F == FieldSpans(rest)
<1>1. type # "l"
  BY DEF DosTypes
<1>2. label \in Seq(Characters) /\ label # <<>> /\ Len(label) \in Nat \ {0} /\ label \in Seq(RowSymbols)
  <2>1. label \in Seq(Characters) /\ label # <<>>
    BY LabelFacts
  <2>2. Characters \subseteq RowSymbols
    BY DEF RowSymbols
  <2> HIDE DEF label
  <2> QED
    BY <2>1, <2>2
<1>3. PICK h \in {2, 8}, j \in {1, 10} : DosShape(row, style, h, j, label)
  BY DosRow
<1> HIDE DEF row, label, type, rest
<1>4. h \in Nat /\ j \in Nat /\ h > 1 /\ j >= 1
  OBVIOUS
<1>5. /\ row \in Seq(RowSymbols)
      /\ Len(row) = 4 + h + j + Len(label)
      /\ row[1] = "date" /\ (row[4] = "AM" <=> style # "dos_24h")
      /\ \A i \in 2..3 : row[i] = "SP"
      /\ row[4] \in {"AM", "24h"}
      /\ \A i \in 1..(h - 1) : row[4 + i] = "SP"
      /\ row[4 + h] \in {"N", "<DIR>"}
      /\ \A i \in 1..j : row[4 + h + i] = "SP"
      /\ \A i \in 1..Len(label) : row[4 + h + j + i] = label[i]
      /\ j = IF Wide(row[4 + h], h) THEN 10 ELSE 1
  BY <1>3, Zenon DEF DosShape
<1> DEFINE o == 4 + h + j
<1>6. EndsWith(row, o, label)
  BY <1>4, <1>5 DEF EndsWith
<1>7. ASSUME NEW i \in 1..o PROVE row[i] \notin {"->", "B"}
  <2>1. CASE i <= 4
    <3>1. i = 1 \/ i \in 2..3 \/ i = 4
      BY <2>1, <1>4
    <3>2. row[i] \in {"date", "SP", "AM", "24h"}
      BY <1>5, <3>1
    <3> QED
      BY <3>2
  <2>2. CASE i > 4 /\ i < 4 + h
    <3>1. i - 4 \in 1..(h - 1) /\ 4 + (i - 4) = i
      BY <1>4, <2>2
    <3>2. row[i] = "SP"
      BY <1>5, <3>1
    <3> QED
      BY <3>2
  <2>3. CASE i = 4 + h
    BY <1>5, <2>3
  <2>4. CASE i > 4 + h
    <3>1. i - (4 + h) \in 1..j /\ 4 + h + (i - (4 + h)) = i
      BY <1>4, <2>4
    <3>2. row[i] = "SP"
      BY <1>5, <3>1
    <3> QED
      BY <3>2
  <2> QED
    BY <1>4, <2>1, <2>2, <2>3, <2>4
<1>8. \E p : EndsWith(row, p, label) /\ \A i \in 1..p : row[i] \notin {"->", "B"}
  BY <1>6, <1>7
<1>9. row[4] # "AM" => AmbiguousDos(row)
  BY <1>5 DEF AmbiguousDos
<1>10. ~AmbiguousPosix(row) /\ ~AmbiguousLink(row)
  BY <1>5 DEF AmbiguousPosix, AmbiguousLink, PosixTypes, Special
<1>11. ASSUME row[4] = "AM"
       PROVE  /\ AmbiguousDos(row) <=> label[1] \in Blank
              /\ label[1] \notin Blank => ParseEntry(row) = ParsedName(label, FALSE)
  <2>1. Len(row) >= 4 /\ 4 \in 0..Len(row) /\ Len(row) - 4 = h + j + Len(label)
    BY <1>2, <1>4, <1>5
  <2>2. /\ rest \in Seq(RowSymbols) /\ Len(rest) = h + j + Len(label)
        /\ \A i \in 1..(h + j + Len(label)) : rest[i] = row[4 + i]
    <3>1. /\ rest \in Seq(RowSymbols) /\ Len(rest) = Len(row) - 4
          /\ \A i \in 1..(Len(row) - 4) : rest[i] = row[4 + i]
      BY <1>5, <2>1, AfterFacts DEF rest
    <3> QED
      BY <2>1, <3>1
  <2>3. DosRest(rest, h, j)
    <3>1. Len(rest) >= h + j + 1
      BY <1>2, <1>4, <2>2
    <3>2. ASSUME NEW i \in 1..(h - 1) PROVE rest[i] = "SP"
      <4>1. i \in 1..(h + j + Len(label))
        BY <1>2, <1>4
      <4> QED
        BY <1>5, <2>2, <4>1
    <3>3. rest[h] = row[4 + h]
      <4>1. h \in 1..(h + j + Len(label))
        BY <1>2, <1>4
      <4> QED
        BY <2>2, <4>1
    <3>4. ASSUME NEW i \in 1..j PROVE rest[h + i] = "SP"
      <4>1. h + i \in 1..(h + j + Len(label)) /\ 4 + (h + i) = 4 + h + i
        BY <1>2, <1>4
      <4>2. rest[h + i] = row[4 + h + i]
        BY <2>2, <4>1
      <4> QED
        BY <1>5, <4>2
    <3> QED
      BY <1>5, <3>1, <3>2, <3>3, <3>4 DEF DosRest
  <2>4. row[4 + h + j + 1] = label[1] /\ After(row, 4 + h + j) = label
    <3>1. 1 \in 1..Len(label)
      BY <1>2
    <3>2. row[o + 1] = label[1]
      BY <1>6, <3>1 DEF EndsWith
    <3>3. After(row, o) = label
      <4> HIDE DEF o
      <4> QED
        BY <1>2, <1>5, <1>6, AfterEnd
    <3> QED
      BY <3>2, <3>3
  <2>5. /\ AmbiguousDos(row) <=> row[4 + h + j + 1] \in Blank
        /\ F # <<>>
        /\ row[4 + h + j + 1] \notin Blank => Trimmed(After(row, 4 + F[1][2])) = After(row, 4 + h + j)
    BY <1>5, <1>11, <2>1, <2>3, DosBoundary DEF rest
  <2> HIDE DEF F
  <2>6. label[1] \notin Blank => ParseEntry(row) = ParsedName(label, FALSE)
    <3> SUFFICES ASSUME label[1] \notin Blank PROVE ParseEntry(row) = ParsedName(label, FALSE)
      OBVIOUS
    <3> DEFINE text == Trimmed(After(row, 4 + F[1][2]))
    <3>1. text = label
      BY <2>4, <2>5
    <3>2. row[1] \notin PosixTypes
      BY <1>5 DEF PosixTypes, Special
    <3>3. ParseEntry(row) = ParsedName(text, FALSE)
      BY <1>5, <2>5, <3>2 DEF ParseEntry, F, rest
    <3> HIDE DEF text
    <3> QED
      BY <3>1, <3>3
  <2> QED
    BY <2>4, <2>5, <2>6
<1>12. (type = "l") = FALSE
  BY <1>1
<1>13. ~Ambiguous(row) => ParseEntry(row) = ParsedName(label, type = "l")
  BY <1>9, <1>11, <1>12 DEF Ambiguous
<1>14. ASSUME style \notin {"posix_aligned", "dos_24h"}
       PROVE  /\ Ambiguous(row) <=> label[1] \in Blank \/ AmbiguousLink(row)
              /\ label[1] \notin Blank => ParseEntry(row) = ParsedName(label, type = "l")
  <2>1. row[4] = "AM"
    BY <1>5, <1>14
  <2> QED
    BY <1>10, <1>11, <1>12, <2>1 DEF Ambiguous
<1> QED
  BY <1>1, <1>5, <1>8, <1>10, <1>13, <1>14 DEF ReadUnlessAmbiguous, IsRead, row, label, type

(* So is every row a server makes of an entry.                               *)
LEMMA RowRead ==
    ASSUME NEW entry \in RowOf, NEW style \in Styles(entry)
    PROVE  ReadUnlessAmbiguous(Row(entry, style), entry, style)
<1>1. \/ style \in {"posix", "posix_aligned"}
      \/ entry.type \in DosTypes /\ style \in {"dos", "dos_aligned", "dos_24h"}
  BY DEF Styles
<1> QED
  BY <1>1, PosixRead, DosRead

-----------------------------------------------------------------------------
(* Links.                                                                  *)

(* A separator of name and target stands at i.                               *)
IsArrow(p, i) == SubSeq(p, i, i + 2) = Arrow

(* Where the search for separators may be: the end of the last one found,    *)
(* and how many there are.                                                   *)
Found == [last : Nat, count : Nat]

(* at is a search of text p for separators, from left to right.              *)
Finds(at, p, n) ==
    /\ n \in Nat /\ 1..(Len(p) - 2) = 1..n
    /\ at \in [0..n -> Found]
    /\ at[0] = [last |-> 0, count |-> 0]
    /\ Separators(p) = at[n].count
    /\ \A k \in 1..n : at[k] = ReadArrow(p, at[k - 1], k)

(* The separators of a text are found so.                                    *)
LEMMA ArrowsWalk ==
    ASSUME NEW S, NEW p \in Seq(S)
    PROVE  \E at, n : Finds(at, p, n)
<1> DEFINE n == IF Len(p) >= 2 THEN Len(p) - 2 ELSE 0
           a0 == [last |-> 0, count |-> 0]
           A == Found
           idx == [i \in 1..(Len(p) - 2) |-> i]
           Walk(f) == [s \in SUBSET (DOMAIN idx) |->
                         IF s = {} THEN a0
                         ELSE ReadArrow(p, f[s \ {Max(s)}], idx[Max(s)])]
           iter == CHOOSE f : f = Walk(f)
           step == [z \in A \X (1..n) |-> ReadArrow(p, z[1], z[2])]
<1>1. Separators(p) = iter[DOMAIN idx].count
  BY DEF Separators, FoldLeft, MapThenFoldSet
<1>2. /\ n \in Nat /\ a0 \in A /\ 1..(Len(p) - 2) = 1..n
      /\ DOMAIN idx = 1..n /\ \A k \in 1..n : idx[k] = k
  <2>1. Len(p) \in Nat
    OBVIOUS
  <2>2. n \in Nat /\ 1..(Len(p) - 2) = 1..n
    BY <2>1
  <2> HIDE DEF n
  <2> QED
    BY <2>2 DEF Found
<1>3. \A a \in A, k \in 1..n : ReadArrow(p, a, k) \in A
  <2> HIDE DEF n
  <2> QED
    BY <1>2 DEF ReadArrow, Found
<1>4. /\ \A a \in A, k \in 1..n : step[<<a, k>>] = ReadArrow(p, a, k)
      /\ step \in [A \X (1..n) -> A]
  BY <1>3
<1>5. \A s \in SUBSET (1..n) : s # {} => Max(s) \in 1..n /\ s \ {Max(s)} \in SUBSET (1..n)
  BY <1>2, MaxFacts
<1>6. iter = Walk(iter)
  <2>1. PICK h \in [SUBSET (1..n) -> A] : Iterates(h, n, a0, step)
    <3> HIDE DEF step, A, a0, n, Walk, iter
    <3> QED
      BY <1>2, <1>4, Iterate
  <2>2. ASSUME NEW s \in SUBSET (1..n), s # {}
        PROVE  h[s] = ReadArrow(p, h[s \ {Max(s)}], Max(s))
    <3> HIDE DEF step, A, a0, n, Walk, iter
    <3> QED
      BY <1>4, <1>5, <2>1, <2>2 DEF Iterates
  <2>3. h = Walk(h)
    <3>1. ASSUME NEW s \in SUBSET (1..n) PROVE h[s] = Walk(h)[s]
      <4>1. CASE s = {}
        <5> HIDE DEF step, A, a0, n, idx
        <5> QED
          BY <1>2, <2>1, <4>1 DEF Iterates
      <4>2. CASE s # {}
        <5> HIDE DEF step, A, a0, n, idx
        <5> QED
          BY <1>2, <1>5, <2>2, <4>2
      <4> QED
        BY <4>1, <4>2
    <3>2. Walk(h) = [s \in SUBSET (1..n) |-> Walk(h)[s]]
      <4> HIDE DEF A, a0, n, idx
      <4> QED
        BY <1>2
    <3> HIDE DEF Walk, n, A, a0, step
    <3> QED
      BY <2>1, <3>1, <3>2
  <2> HIDE DEF Walk
  <2> QED
    BY <2>3
<1>7. iter[{}] = a0
  <2>1. Walk(iter)[{}] = a0
    <3> HIDE DEF a0, n, idx, iter
    <3> QED
      BY <1>2
  <2> HIDE DEF Walk, iter
  <2> QED
    BY <1>6, <2>1
<1>8. Recursion(iter, n, A, a0, step)
  <2>1. ASSUME NEW s \in SUBSET (1..n), s # {}, iter[s \ {Max(s)}] \in A
        PROVE  iter[s] = step[<<iter[s \ {Max(s)}], Max(s)>>]
    <3>1. Walk(iter)[s] = ReadArrow(p, iter[s \ {Max(s)}], Max(s))
      <4> HIDE DEF step, A, a0, n, idx, iter
      <4> QED
        BY <1>2, <1>5, <2>1
    <3> HIDE DEF Walk, iter, step, A, n
    <3> QED
      BY <1>4, <1>5, <1>6, <2>1, <3>1
  <2> HIDE DEF Walk, iter, step, A, n, a0
  <2> QED
    BY <1>2, <1>4, <1>7, <2>1 DEF Recursion
<1>9. PICK at : IsRun(at, n, A, a0, step, iter[1..n])
  <2> HIDE DEF step, A, a0, n, Walk, iter
  <2> QED
    BY <1>8, Unroll
<1>10. \A k \in 1..n : k - 1 \in 0..n
  BY <1>2
<1>11. at \in [0..n -> A] /\ at[0] = a0 /\ at[n] = iter[1..n]
  BY <1>2, <1>9 DEF IsRun
<1>12. ASSUME NEW k \in 1..n PROVE at[k] = ReadArrow(p, at[k - 1], k)
  <2> HIDE DEF step, iter, Walk, A, a0, n
  <2> QED
    BY <1>4, <1>9, <1>10, <1>11 DEF IsRun
<1>13. Separators(p) = at[n].count
  <2> HIDE DEF iter, idx, n
  <2> QED
    BY <1>1, <1>2, <1>11
<1> HIDE DEF step, iter, Walk, n, idx
<1>14. Finds(at, p, n)
  BY <1>2, <1>11, <1>12, <1>13 DEF Finds
<1> QED
  BY <1>14

(* Two arrows of a row that share no blank are counted.                     *)
LEMMA TwoArrows ==
    ASSUME NEW S, NEW p \in Seq(S), NEW i \in 1..(Len(p) - 2), NEW k \in 1..(Len(p) - 2),
           IsArrow(p, i), IsArrow(p, k), i + 2 < k
    PROVE  Separators(p) > 1
<1>1. PICK at, n : Finds(at, p, n)
  BY ArrowsWalk
<1>2. n \in Nat /\ i \in 1..n /\ k \in 1..n /\ i \in Nat /\ k \in Nat
  BY <1>1 DEF Finds
<1> DEFINE Seen(m) ==
             LET f == at[m]
             IN  /\ f.last \in Nat /\ f.count \in Nat
                 /\ f.last > 0 => f.count > 0
                 /\ m < i => f.last <= m + 2
                 /\ m >= i => f.count > 0 /\ (f.count > 1 \/ f.last <= i + 2)
                 /\ m >= k => f.count > 1
           T == {m \in 0..n : Seen(m)}
<1>3. 0 \in T
  <2>1. at[0].last = 0 /\ at[0].count = 0
    BY <1>1 DEF Finds
  <2> QED
    BY <1>2, <2>1
<1>4. ASSUME NEW m \in 1..n, m - 1 \in T PROVE m \in T
  <2> DEFINE f == at[m - 1]
             g == at[m]
  <2>1. g = ReadArrow(p, f, m)
    BY <1>1 DEF Finds
  <2>2. Seen(m - 1) /\ m \in Nat /\ m \in 0..n
    BY <1>2, <1>4
  <2>3. /\ f.last \in Nat /\ f.count \in Nat
        /\ f.last > 0 => f.count > 0
        /\ m - 1 < i => f.last <= (m - 1) + 2
        /\ m - 1 >= i => f.count > 0 /\ (f.count > 1 \/ f.last <= i + 2)
        /\ m - 1 >= k => f.count > 1
    BY <2>2
  <2> HIDE DEF f, g
  <2>4. CASE m > f.last /\ IsArrow(p, m)
    <3>1. g.last = m + 2 /\ g.count = f.count + 1
      BY <2>1, <2>4 DEF ReadArrow, IsArrow
    <3>2. g.last \in Nat /\ g.count \in Nat /\ g.count > 0
      BY <2>2, <2>3, <3>1
    <3>3. m > i => g.count > 1
      BY <1>2, <2>2, <2>3, <3>1
    <3>4. m = i => g.last <= i + 2
      BY <2>2, <3>1
    <3>5. m >= i => m = i \/ m > i
      BY <1>2, <2>2
    <3>6. m >= k => m > i
      BY <1>2, <2>2
    <3>7. m < i => g.last <= m + 2
      BY <2>2, <3>1
    <3> QED
      BY <2>2, <3>2, <3>3, <3>4, <3>5, <3>6, <3>7 DEF g
  <2>5. CASE ~(m > f.last /\ IsArrow(p, m))
    <3>1. g = f
      BY <2>1, <2>5 DEF ReadArrow, IsArrow
    <3>2. m = i \/ m = k => ~(m > f.last)
      BY <2>5
    <3>3. m < i => f.last <= m + 2
      BY <1>2, <2>2, <2>3
    <3>4. m >= i => f.count > 0 /\ (f.count > 1 \/ f.last <= i + 2)
      BY <1>2, <2>2, <2>3, <3>2
    <3>5. m >= k => f.count > 1
      BY <1>2, <2>2, <2>3, <3>2
    <3> QED
      BY <2>2, <2>3, <3>1, <3>3, <3>4, <3>5 DEF g
  <2> QED
    BY <2>4, <2>5
<1>5. n \in T
  <2>1. \A m \in 0..n : m \in T
    <3> HIDE DEF T
    <3> QED
      BY <1>2, <1>3, <1>4, UpTo
  <2> QED
    BY <1>2, <2>1
<1>6. at[n].count > 1
  BY <1>2, <1>5
<1> QED
  BY <1>1, <1>6 DEF Finds

(* A text whose separators all begin at one place has no two.                *)
LEMMA OneArrow ==
    ASSUME NEW S, NEW p \in Seq(S), NEW b \in Nat,
           \A i \in 1..(Len(p) - 2) : IsArrow(p, i) => i = b
    PROVE  ~(Separators(p) > 1)
<1>1. PICK at, n : Finds(at, p, n)
  BY ArrowsWalk
<1>2. n \in Nat /\ \A i \in 1..n : IsArrow(p, i) => i = b
  BY <1>1 DEF Finds
<1> DEFINE Seen(m) == at[m].count \in Nat /\ at[m].count <= IF m >= b THEN 1 ELSE 0
           T == {m \in 0..n : Seen(m)}
<1>3. 0 \in T
  <2>1. at[0].count = 0
    BY <1>1 DEF Finds
  <2> QED
    BY <1>2, <2>1
<1>4. ASSUME NEW m \in 1..n, m - 1 \in T PROVE m \in T
  <2>1. at[m] = ReadArrow(p, at[m - 1], m)
    BY <1>1 DEF Finds
  <2>2. Seen(m - 1) /\ m \in Nat /\ m \in 0..n
    BY <1>2, <1>4
  <2>3. CASE IsArrow(p, m)
    <3>1. m = b /\ at[m - 1].count = 0
      BY <1>2, <2>2, <2>3
    <3>2. at[m].count \in {0, 1}
      BY <2>1, <3>1 DEF ReadArrow
    <3> QED
      BY <2>2, <3>1, <3>2
  <2>4. CASE ~IsArrow(p, m)
    <3>1. at[m] = at[m - 1]
      BY <2>1, <2>4 DEF ReadArrow, IsArrow
    <3> QED
      BY <2>2, <3>1
  <2> QED
    BY <2>3, <2>4
<1>5. n \in T
  <2>1. \A m \in 0..n : m \in T
    <3> HIDE DEF T
    <3> QED
      BY <1>2, <1>3, <1>4, UpTo
  <2> QED
    BY <1>2, <2>1
<1>6. at[n].count \in Nat /\ at[n].count <= 1
  BY <1>2, <1>5
<1> QED
  BY <1>1, <1>6 DEF Finds

(* A separator, symbol by symbol.                                            *)
LEMMA ArrowAt ==
    ASSUME NEW S, NEW p \in Seq(S), NEW i \in 1..(Len(p) - 2)
    PROVE  IsArrow(p, i) <=> p[i] = "SP" /\ p[i + 1] = "->" /\ p[i + 2] = "SP"
<1> DEFINE u == SubSeq(p, i, i + 2)
<1>1. Len(p) \in Nat /\ i \in Nat /\ i + 2 \in 1..Len(p) /\ i + 1 \in 1..Len(p) /\ i \in 1..Len(p)
  OBVIOUS
<1>2. u \in Seq(S) /\ Len(u) = 3 /\ u[1] = p[i] /\ u[2] = p[i + 1] /\ u[3] = p[i + 2]
  BY <1>1
<1> HIDE DEF u
<1>3. ASSUME u[1] = "SP", u[2] = "->", u[3] = "SP" PROVE u = Arrow
  <2> DEFINE X == S \cup {"SP", "->"}
  <2>1. Arrow \in Seq(X) /\ Len(Arrow) = 3 /\ Arrow[1] = "SP" /\ Arrow[2] = "->" /\ Arrow[3] = "SP"
    BY DEF Arrow
  <2>2. u \in Seq(X)
    BY <1>2
  <2>3. \A k \in 1..3 : u[k] = Arrow[k]
    <3>1. \A k \in 1..3 : k = 1 \/ k = 2 \/ k = 3
      OBVIOUS
    <3> QED
      BY <1>3, <2>1, <3>1
  <2> HIDE DEF X
  <2> QED
    BY <1>2, <2>1, <2>2, <2>3, SeqEqual
<1>4. ASSUME u = Arrow PROVE u[1] = "SP" /\ u[2] = "->" /\ u[3] = "SP"
  BY <1>4 DEF Arrow
<1> QED
  BY <1>2, <1>3, <1>4 DEF IsArrow, u

(* A link's label: its name, an arrow and its target.                      *)
LEMMA LinkLabel ==
    ASSUME NEW entry \in RowOf, entry.type = "l"
    PROVE  LET label == Label(entry)
               b == Len(entry.name)
           IN  /\ label = entry.name \o Arrow \o entry.target
               /\ Len(label) = b + 3 + Len(entry.target)
               /\ \A i \in 1..b : label[i] = entry.name[i]
               /\ label[b + 1] = "SP" /\ label[b + 2] = "->" /\ label[b + 3] = "SP"
               /\ \A i \in 1..Len(entry.target) : label[b + 3 + i] = entry.target[i]
<1> DEFINE name == entry.name
           target == entry.target
           mid == Arrow
           rest == mid \o target
           label == Label(entry)
           b == Len(name)
<1>1. name \in Seq(Characters) /\ target \in Seq(Characters) /\ b \in Nat /\ Len(target) \in Nat
  BY DEF RowOf
<1>2. /\ mid \in Seq(Characters) /\ Len(mid) = 3
      /\ mid[1] = "SP" /\ mid[2] = "->" /\ mid[3] = "SP"
  BY DEF Arrow, Characters
<1>3. label = name \o rest
  BY DEF Label
<1> HIDE DEF name, target, mid, label
<1>4. label = name \o mid \o target
  <2>1. (name \o mid) \o target = name \o (mid \o target)
    BY <1>1, <1>2, ConcatAssociative, SMTT(30)
  <2> QED
    BY <1>3, <2>1
<1>5. rest \in Seq(Characters) /\ Joined(rest, mid, target)
  BY <1>1, <1>2, JoinedFacts
<1> HIDE DEF rest, b
<1>6. label \in Seq(Characters) /\ Joined(label, name, rest)
  BY <1>1, <1>3, <1>5, JoinedFacts
<1>7. Len(rest) = 3 + Len(target) /\ Len(label) = b + 3 + Len(target)
  BY <1>1, <1>2, <1>5, <1>6 DEF Joined, b
<1>8. \A i \in 1..b : label[i] = name[i]
  BY <1>6 DEF Joined, b
<1>9. \A i \in 1..(3 + Len(target)) : label[b + i] = rest[i]
  BY <1>6, <1>7 DEF Joined, b
<1>10. rest[1] = "SP" /\ rest[2] = "->" /\ rest[3] = "SP"
  BY <1>2, <1>5 DEF Joined
<1>11. label[b + 1] = "SP" /\ label[b + 2] = "->" /\ label[b + 3] = "SP"
  <2>1. 1 \in 1..(3 + Len(target)) /\ 2 \in 1..(3 + Len(target)) /\ 3 \in 1..(3 + Len(target))
    BY <1>1
  <2> QED
    BY <1>9, <1>10, <2>1
<1>12. ASSUME NEW i \in 1..Len(target) PROVE label[b + 3 + i] = target[i]
  <2>1. 3 + i \in 1..(3 + Len(target)) /\ b + (3 + i) = b + 3 + i
    BY <1>1
  <2>2. rest[3 + i] = target[i]
    BY <1>2, <1>5 DEF Joined
  <2> QED
    BY <1>9, <2>1, <2>2
<1> QED
  BY <1>4, <1>7, <1>8, <1>11, <1>12 DEF name, target, mid, label, b

(* The first separator in a link's label is the one between its name and its *)
(* target.                                                                   *)
ArrowIsFirst(entry) ==
    entry.type = "l" =>
       \A i \in 1..(Len(Label(entry)) - 2) :
          IsArrow(Label(entry), i) => i >= Len(entry.name) + 1

(* If it is, the label is read as name and target.                           *)
LEMMA LabelRead ==
    ASSUME NEW entry \in RowOf, ArrowIsFirst(entry)
    PROVE  LET f == ParsedName(Label(entry), entry.type = "l")
           IN  f.ok /\ f.name = entry.name /\ (entry.type = "l" => f.target = entry.target)
<1> DEFINE label == Label(entry)
           name == entry.name
           target == entry.target
           b == Len(name) + 1
           arrows == {i \in 1..(Len(label) - 2) : SubSeq(label, i, i + 2) = Arrow}
           f == ParsedName(label, entry.type = "l")
<1>1. label \in Seq(Characters) /\ label # <<>>
  BY LabelFacts
<1>2. CASE entry.type # "l"
  <2>1. label = name
    BY <1>2, LabelFacts
  <2>2. f = [ok |-> TRUE, name |-> label, target |-> <<>>]
    BY <1>1, <1>2 DEF ParsedName
  <2> QED
    BY <1>2, <2>1, <2>2
<1>3. CASE entry.type = "l"
  <2>1. /\ Len(label) = Len(name) + 3 + Len(target)
        /\ \A i \in 1..Len(name) : label[i] = name[i]
        /\ label[Len(name) + 1] = "SP" /\ label[Len(name) + 2] = "->" /\ label[Len(name) + 3] = "SP"
        /\ \A i \in 1..Len(target) : label[Len(name) + 3 + i] = target[i]
    BY <1>3, LinkLabel
  <2>2. name \in Seq(Characters) /\ target \in Seq(Characters) /\ Len(name) \in Nat /\ Len(target) \in Nat
    BY DEF RowOf
  <2> HIDE DEF label, name, target
  <2>3. b \in 1..(Len(label) - 2) /\ b \in Nat /\ b + 1 = Len(name) + 2 /\ b + 2 = Len(name) + 3
    BY <2>1, <2>2
  <2>4. IsArrow(label, b)
    <3>1. label[b] = "SP" /\ label[b + 1] = "->" /\ label[b + 2] = "SP"
      BY <2>1, <2>3
    <3> HIDE DEF b
    <3> QED
      BY <1>1, <2>3, <3>1, ArrowAt
  <2>5. b \in arrows /\ \A i \in arrows : b <= i
    BY <1>3, <2>3, <2>4 DEF ArrowIsFirst, IsArrow, label, name
  <2>6. Min(arrows) = b
    <3>1. arrows \subseteq Nat
      OBVIOUS
    <3> HIDE DEF arrows, b
    <3>2. Min(arrows) \in arrows /\ \A y \in arrows : Min(arrows) =< y
      BY <2>5 DEF Min
    <3> DEFINE least == Min(arrows)
    <3>3. least \in Nat /\ least <= b /\ b <= least
      BY <2>5, <3>1, <3>2
    <3> HIDE DEF least
    <3>4. least = b
      BY <2>3, <3>3
    <3> QED
      BY <3>4 DEF least
  <2>7. f = [ok |-> TRUE, name |-> SubSeq(label, 1, b - 1), target |-> After(label, b + 2)]
    <3>1. arrows # {}
      BY <2>5
    <3>2. f = [ok |-> TRUE, name |-> SubSeq(label, 1, Min(arrows) - 1),
               target |-> After(label, Min(arrows) + 2)]
      BY <1>1, <1>3, <3>1 DEF ParsedName
    <3> HIDE DEF arrows, f
    <3> QED
      BY <2>6, <3>2
  <2>8. SubSeq(label, 1, b - 1) = name
    <3> DEFINE u == SubSeq(label, 1, Len(name))
    <3>1. u \in Seq(Characters) /\ Len(u) = Len(name) /\ \A i \in 1..Len(name) : u[i] = label[i]
      BY <1>1, <2>1, <2>2
    <3> HIDE DEF u
    <3>2. \A i \in 1..Len(name) : u[i] = name[i]
      BY <2>1, <3>1
    <3>3. u = name
      BY <2>2, <3>1, <3>2, SeqEqual
    <3>4. b - 1 = Len(name)
      BY <2>2
    <3> QED
      BY <3>3, <3>4 DEF u
  <2>9. After(label, b + 2) = target
    <3> DEFINE o == Len(name) + 3
    <3>1. EndsWith(label, o, target)
      BY <2>1, <2>2 DEF EndsWith
    <3> HIDE DEF o
    <3>2. After(label, o) = target
      BY <1>1, <2>2, <3>1, AfterEnd
    <3> QED
      BY <2>2, <3>2 DEF o
  <2> HIDE DEF f
  <2>10. f.ok /\ f.name = name /\ f.target = target
    BY <2>7, <2>8, <2>9
  <2> QED
    BY <2>10 DEF f, label, name, target
<1> QED
  BY <1>2, <1>3

(* It is if the row has one separator for str::matches, and the label no two *)
(* that share a blank: otherwise there would be a second one, apart from the *)
(* link's own.                                                               *)
LEMMA ArrowsApart ==
    ASSUME NEW entry \in RowOf, NEW row \in Seq(RowSymbols), NEW o,
           EndsWith(row, o, Label(entry)),
           entry.type = "l" => ~(Separators(row) > 1), ~SharesABlank(entry)
    PROVE  ArrowIsFirst(entry)
<1> DEFINE label == Label(entry)
           b == Len(entry.name) + 1
<1> SUFFICES ASSUME entry.type = "l", NEW i \in 1..(Len(label) - 2), IsArrow(label, i), ~(i >= b)
             PROVE  FALSE
  BY DEF ArrowIsFirst
<1>1. /\ label = entry.name \o Arrow \o entry.target
      /\ Len(label) = Len(entry.name) + 3 + Len(entry.target)
      /\ label[b] = "SP" /\ label[Len(entry.name) + 2] = "->" /\ label[Len(entry.name) + 3] = "SP"
  BY LinkLabel
<1>2. /\ label \in Seq(Characters) /\ Len(entry.name) \in Nat /\ Len(entry.target) \in Nat
      /\ Len(label) \in Nat
  <2>1. label \in Seq(Characters) /\ Len(entry.name) \in Nat
    BY LabelFacts
  <2>2. Len(entry.target) \in Nat
    BY DEF RowOf
  <2> HIDE DEF label
  <2> QED
    BY <2>1, <2>2
<1>3. b \in 1..(Len(label) - 2) /\ b \in Nat /\ b + 1 = Len(entry.name) + 2 /\ b + 2 = Len(entry.name) + 3
      /\ i \in Nat /\ i < b
  <2> DEFINE n == Len(entry.name)
             l == Len(entry.target)
             z == Len(label)
  <2>1. n \in Nat /\ l \in Nat /\ z = n + 3 + l /\ i \in 1..(z - 2) /\ ~(i >= n + 1)
    BY <1>1, <1>2
  <2> HIDE DEF n, l, z
  <2>2. /\ n + 1 \in 1..(z - 2) /\ n + 1 \in Nat /\ (n + 1) + 1 = n + 2 /\ (n + 1) + 2 = n + 3
        /\ i \in Nat /\ i < n + 1
    BY <2>1
  <2> QED
    BY <2>2 DEF n, z
<1> HIDE DEF label, b
<1>4. /\ label[b] = "SP" /\ label[b + 1] = "->" /\ label[b + 2] = "SP"
      /\ label[i] = "SP" /\ label[i + 1] = "->" /\ label[i + 2] = "SP"
  BY <1>1, <1>2, <1>3, ArrowAt
<1>5. CASE i + 2 < b
  <2>1. /\ o \in Nat /\ Len(row) = o + Len(label)
        /\ \A k \in 1..Len(label) : row[o + k] = label[k]
    BY DEF EndsWith, label
  <2>2. ASSUME NEW k \in 1..(Len(label) - 2), label[k] = "SP", label[k + 1] = "->", label[k + 2] = "SP"
        PROVE  o + k \in 1..(Len(row) - 2) /\ IsArrow(row, o + k)
    <3>1. /\ o + k \in 1..(Len(row) - 2) /\ k \in 1..Len(label) /\ k + 1 \in 1..Len(label)
          /\ k + 2 \in 1..Len(label) /\ (o + k) + 1 = o + (k + 1) /\ (o + k) + 2 = o + (k + 2)
      <4>1. o \in Nat /\ Len(row) = o + Len(label) /\ Len(label) \in Nat
        BY <1>2, <2>1
      <4> QED
        BY <4>1
    <3> DEFINE m == o + k
    <3>2. row[m] = "SP" /\ row[m + 1] = "->" /\ row[m + 2] = "SP" /\ m \in 1..(Len(row) - 2)
      BY <2>1, <2>2, <3>1
    <3> HIDE DEF m
    <3>3. IsArrow(row, m)
      BY <3>2, ArrowAt
    <3> QED
      BY <3>1, <3>3 DEF m
  <2> DEFINE x == o + i
             y == o + b
  <2>3. /\ x \in 1..(Len(row) - 2) /\ IsArrow(row, x)
        /\ y \in 1..(Len(row) - 2) /\ IsArrow(row, y)
    BY <1>3, <1>4, <2>2
  <2>4. x + 2 < y
    BY <1>2, <1>3, <1>5, <2>1
  <2> HIDE DEF x, y
  <2>5. Separators(row) > 1
    BY <2>3, <2>4, TwoArrows
  <2> QED
    BY <2>5
<1>6. CASE i + 1 = b
  BY <1>4, <1>6
<1>7. CASE i + 2 = b
  <2> DEFINE u == SubSeq(label, i, i + 4)
             five == <<"SP", "->", "SP", "->", "SP">>
  <2>1. i + 4 <= Len(label) /\ i \in 1..(Len(label) - 4) /\ b + 1 = i + 3 /\ b + 2 = i + 4
    BY <1>2, <1>3, <1>7
  <2>2. /\ u \in Seq(Characters) /\ Len(u) = 5
        /\ u[1] = label[i] /\ u[2] = label[i + 1] /\ u[3] = label[i + 2]
        /\ u[4] = label[i + 3] /\ u[5] = label[i + 4]
    BY <1>2, <1>3, <2>1
  <2> HIDE DEF u
  <2>3. u[1] = "SP" /\ u[2] = "->" /\ u[3] = "SP" /\ u[4] = "->" /\ u[5] = "SP"
    BY <1>4, <1>7, <2>1, <2>2
  <2>4. /\ five \in Seq(Characters) /\ Len(five) = 5
        /\ five[1] = "SP" /\ five[2] = "->" /\ five[3] = "SP" /\ five[4] = "->" /\ five[5] = "SP"
    BY DEF Characters
  <2> HIDE DEF five
  <2>5. \A k \in 1..5 : u[k] = five[k]
    <3>1. \A k \in 1..5 : k = 1 \/ k = 2 \/ k = 3 \/ k = 4 \/ k = 5
      OBVIOUS
    <3> QED
      BY <2>3, <2>4, <3>1
  <2>6. u = five
    BY <2>2, <2>4, <2>5, SeqEqual
  <2>7. SharesABlank(entry)
    BY <1>1, <2>1, <2>6 DEF SharesABlank, u, five
  <2> QED
    BY <2>7
<1> QED
  BY <1>3, <1>5, <1>6, <1>7

(* It is also, and the row is not ambiguous, if name and target are          *)
(* ordinary: they have no separators.                                        *)
LEMMA OrdinaryArrows ==
    ASSUME NEW entry \in RowOf, NEW row \in Seq(RowSymbols), NEW o,
           EndsWith(row, o, Label(entry)), \A i \in 1..o : row[i] # "->",
           Ordinary(entry.name), entry.type = "l" => Ordinary(entry.target)
    PROVE  ArrowIsFirst(entry) /\ (entry.type = "l" => ~(Separators(row) > 1))
<1> DEFINE label == Label(entry)
           b == Len(entry.name) + 1
<1> SUFFICES ASSUME entry.type = "l"
             PROVE  ArrowIsFirst(entry) /\ ~(Separators(row) > 1)
  BY DEF ArrowIsFirst
<1>1. /\ Len(label) = Len(entry.name) + 3 + Len(entry.target)
      /\ \A i \in 1..Len(entry.name) : label[i] = entry.name[i]
      /\ label[b] = "SP" /\ label[Len(entry.name) + 2] = "->" /\ label[Len(entry.name) + 3] = "SP"
      /\ \A i \in 1..Len(entry.target) : label[Len(entry.name) + 3 + i] = entry.target[i]
  BY LinkLabel
<1>2. /\ label \in Seq(Characters) /\ Len(label) \in Nat
      /\ Len(entry.name) \in Nat /\ Len(entry.target) \in Nat
      /\ DOMAIN entry.name = 1..Len(entry.name) /\ DOMAIN entry.target = 1..Len(entry.target)
  <2>1. label \in Seq(Characters)
    BY LabelFacts
  <2>2. entry.name \in Seq(Characters) /\ entry.target \in Seq(Characters)
    BY DEF RowOf
  <2> HIDE DEF label
  <2> QED
    BY <2>1, <2>2
<1>3. /\ \A i \in 1..Len(entry.name) : entry.name[i] # "->"
      /\ \A i \in 1..Len(entry.target) : entry.target[i] # "->"
  BY <1>2 DEF Ordinary, ToSet
<1> HIDE DEF label
<1>4. ASSUME NEW k \in 1..Len(label), label[k] = "->" PROVE k = b + 1
  <2>1. CASE k <= Len(entry.name)
    <3>1. k \in 1..Len(entry.name)
      BY <1>2, <2>1
    <3> QED
      BY <1>1, <1>3, <1>4, <3>1
  <2>2. CASE k > Len(entry.name) + 3
    <3>1. /\ k - (Len(entry.name) + 3) \in 1..Len(entry.target)
          /\ Len(entry.name) + 3 + (k - (Len(entry.name) + 3)) = k
      <4> DEFINE n == Len(entry.name)
                 l == Len(entry.target)
      <4>1. n \in Nat /\ l \in Nat /\ k \in 1..(n + 3 + l) /\ k > n + 3
        BY <1>1, <1>2, <2>2
      <4> HIDE DEF n, l
      <4>2. k - (n + 3) \in 1..l /\ n + 3 + (k - (n + 3)) = k
        BY <4>1
      <4> QED
        BY <4>2 DEF n, l
    <3>2. label[k] = entry.target[k - (Len(entry.name) + 3)]
      BY <1>1, <3>1
    <3> QED
      BY <1>3, <1>4, <3>1, <3>2
  <2>3. CASE k = b \/ k = Len(entry.name) + 3
    BY <1>1, <1>4, <2>3
  <2>4. k \in Nat /\ k >= 1
    OBVIOUS
  <2> QED
    BY <1>2, <2>1, <2>2, <2>3, <2>4
<1>5. ArrowIsFirst(entry)
  <2> SUFFICES ASSUME NEW i \in 1..(Len(label) - 2), IsArrow(label, i) PROVE i >= b
    BY DEF ArrowIsFirst, label
  <2>1. label[i + 1] = "->" /\ i + 1 \in 1..Len(label) /\ i \in Nat
    BY <1>2, ArrowAt
  <2>2. i + 1 = b + 1
    BY <1>4, <2>1
  <2> QED
    BY <1>2, <2>1, <2>2
<1>6. /\ o \in Nat /\ Len(row) = o + Len(label)
      /\ \A k \in 1..Len(label) : row[o + k] = label[k]
  BY DEF EndsWith, label
<1>7. ASSUME NEW i \in 1..(Len(row) - 2), IsArrow(row, i) PROVE i = o + b
  <2>1. row[i + 1] = "->" /\ i \in Nat /\ i + 1 \in 1..Len(row)
    <3>1. i \in Nat /\ i + 1 \in 1..Len(row)
      BY <1>2, <1>6
    <3> QED
      BY <1>7, <3>1, ArrowAt
  <2>2. ~(i + 1 \in 1..o)
    BY <2>1
  <2>3. (i + 1) - o \in 1..Len(label) /\ o + ((i + 1) - o) = i + 1
    BY <1>2, <1>6, <2>1, <2>2
  <2> DEFINE k == (i + 1) - o
  <2>4. k \in 1..Len(label) /\ label[k] = "->"
    BY <1>6, <2>1, <2>3
  <2> HIDE DEF k
  <2>5. k = b + 1
    BY <1>4, <2>4
  <2>6. o \in Nat /\ b \in Nat
    BY <1>2, <1>6
  <2>7. (i + 1) - o = b + 1
    BY <2>5 DEF k
  <2> HIDE DEF b
  <2> QED
    BY <2>1, <2>6, <2>7
<1>8. ~(Separators(row) > 1)
  <2> DEFINE m == o + b
  <2>1. m \in Nat
    BY <1>2, <1>6
  <2>2. \A i \in 1..(Len(row) - 2) : IsArrow(row, i) => i = m
    BY <1>7
  <2> HIDE DEF m
  <2> QED
    BY <2>1, <2>2, OneArrow
<1> QED
  BY <1>5, <1>8

-----------------------------------------------------------------------------
(* One line.                                                               *)

(* A label is always read as an entry, and its name is the label or a        *)
(* beginning of it.                                                          *)
LEMMA NameIsOfLabel ==
    ASSUME NEW entry \in RowOf
    PROVE  LET f == ParsedName(Label(entry), entry.type = "l")
           IN  /\ f.ok /\ f.name \in Seq(Characters)
               /\ \A i \in DOMAIN f.name : i \in 1..Len(Label(entry)) /\ f.name[i] = Label(entry)[i]
<1> DEFINE label == Label(entry)
           arrows == {i \in 1..(Len(label) - 2) : SubSeq(label, i, i + 2) = Arrow}
           f == ParsedName(label, entry.type = "l")
<1>1. label \in Seq(Characters) /\ label # <<>> /\ Len(label) \in Nat
  <2>1. label \in Seq(Characters) /\ label # <<>>
    BY LabelFacts
  <2> HIDE DEF label
  <2> QED
    BY <2>1
<1> HIDE DEF label
<1>2. CASE ~(entry.type = "l" /\ arrows # {})
  <2>1. f = [ok |-> TRUE, name |-> label, target |-> <<>>]
    BY <1>1, <1>2 DEF ParsedName
  <2> HIDE DEF f
  <2>2. f.ok /\ f.name = label
    BY <2>1
  <2> QED
    BY <1>1, <2>2 DEF f, label
<1>3. CASE entry.type = "l" /\ arrows # {}
  <2>1. f = [ok |-> TRUE, name |-> SubSeq(label, 1, Min(arrows) - 1),
             target |-> After(label, Min(arrows) + 2)]
    BY <1>1, <1>3 DEF ParsedName
  <2>2. Min(arrows) \in arrows
    <3>1. arrows \subseteq Nat
      OBVIOUS
    <3> HIDE DEF arrows
    <3>2. \E m \in arrows : \A y \in arrows : m <= y
      BY <1>3, <3>1, Least
    <3> QED
      BY <3>2 DEF Min
  <2> DEFINE m == Min(arrows)
             u == SubSeq(label, 1, m - 1)
  <2>3. m \in Nat /\ m - 1 \in Nat /\ m - 1 <= Len(label)
    BY <1>1, <2>2
  <2> HIDE DEF m, f
  <2>4. u \in Seq(Characters) /\ DOMAIN u = 1..(m - 1) /\ \A i \in 1..(m - 1) : u[i] = label[i]
    BY <1>1, <2>3
  <2>5. \A i \in 1..(m - 1) : i \in 1..Len(label)
    BY <1>1, <2>3
  <2> HIDE DEF u
  <2>6. f.ok /\ f.name = u
    BY <2>1 DEF u, m
  <2> QED
    BY <2>4, <2>5, <2>6 DEF f, label
<1> QED
  BY <1>2, <1>3

(* What is read of a row that is not refused.                               *)
Understood(line, entry) ==
    LET f == ParseEntry(line)
    IN  /\ f.ok /\ f.name \in Seq(Characters)
        /\ \A i \in DOMAIN f.name : f.name[i] \in ToSet(line)
        /\ ~SharesABlank(entry) =>
              f.name = entry.name /\ (entry.type = "l" => f.target = entry.target)

(* A row of an entry is not the count of blocks, and is understood if it is  *)
(* not ambiguous.                                                            *)
LEMMA AcceptedRow ==
    ASSUME NEW entry \in RowOf, NEW style \in Styles(entry)
    PROVE  LET line == Row(entry, style)
           IN  line # Total /\ (~Ambiguous(line) => Understood(line, entry))
<1> DEFINE line == Row(entry, style)
           label == Label(entry)
           f == ParseEntry(line)
<1>1. ReadUnlessAmbiguous(line, entry, style)
  BY RowRead
<1> HIDE DEF line
<1>2. line \in Seq(RowSymbols) /\ line[1] \in {"date"} \cup PosixTypes
  BY <1>1 DEF ReadUnlessAmbiguous
<1>3. line # Total
  <2>1. Total[1] = "total"
    BY DEF Total
  <2>2. "total" \notin {"date"} \cup PosixTypes
    BY DEF PosixTypes, Special
  <2> QED
    BY <1>2, <2>1, <2>2
<1>4. ASSUME ~Ambiguous(line) PROVE Understood(line, entry)
  <2>1. f = ParsedName(label, entry.type = "l")
    BY <1>1, <1>4 DEF ReadUnlessAmbiguous, IsRead
  <2>2. PICK o : EndsWith(line, o, label)
    BY <1>1 DEF ReadUnlessAmbiguous
  <2>3. /\ f.ok /\ f.name \in Seq(Characters)
        /\ \A i \in DOMAIN f.name : i \in 1..Len(label) /\ f.name[i] = label[i]
    BY <2>1, NameIsOfLabel
  <2>4. \A i \in 1..Len(label) : label[i] \in ToSet(line)
    <3>1. label \in Seq(Characters)
      BY LabelFacts
    <3> SUFFICES ASSUME NEW i \in 1..Len(label) PROVE label[i] \in ToSet(line)
      OBVIOUS
    <3> HIDE DEF label
    <3>2. Len(label) \in Nat /\ o \in Nat /\ Len(line) = o + Len(label) /\ line[o + i] = label[i]
      BY <2>2, <3>1 DEF EndsWith
    <3>3. o + i \in DOMAIN line
      BY <1>2, <3>2
    <3> QED
      BY <3>2, <3>3 DEF ToSet
  <2>5. ASSUME ~SharesABlank(entry)
        PROVE  f.name = entry.name /\ (entry.type = "l" => f.target = entry.target)
    <3>1. entry.type = "l" => ~(Separators(line) > 1)
      BY <1>1, <1>4 DEF ReadUnlessAmbiguous, Ambiguous
    <3>2. ArrowIsFirst(entry)
      BY <1>2, <2>2, <2>5, <3>1, ArrowsApart
    <3> QED
      BY <2>1, <3>2, LabelRead
  <2> HIDE DEF f, label
  <2> QED
    BY <2>3, <2>4, <2>5 DEF Understood, f
<1> QED
  BY <1>3, <1>4 DEF line

(* A row that cannot be refused: its name is read.                          *)
LEMMA CleanRow ==
    ASSUME NEW entry \in RowOf, NEW style \in Styles(entry) \ {"posix_aligned", "dos_24h"},
           Label(entry)[1] \notin Blank, \A i \in 1..Len(Label(entry)) : Label(entry)[i] # "B",
           entry.type = "l" => Ordinary(entry.name) /\ Ordinary(entry.target)
    PROVE  LET line == Row(entry, style)
           IN  /\ "B" \notin ToSet(line) /\ ~Ambiguous(line)
               /\ ParseEntry(line).ok /\ ParseEntry(line).name = entry.name
<1> DEFINE line == Row(entry, style)
           label == Label(entry)
           f == ParseEntry(line)
<1>1. ReadUnlessAmbiguous(line, entry, style)
  BY RowRead
<1> HIDE DEF line
<1>2. line \in Seq(RowSymbols) /\ DOMAIN line = 1..Len(line) /\ Len(line) \in Nat
  <2>1. line \in Seq(RowSymbols)
    BY <1>1 DEF ReadUnlessAmbiguous
  <2> QED
    BY <2>1
<1>3. PICK o : EndsWith(line, o, label) /\ \A i \in 1..o : line[i] \notin {"->", "B"}
  BY <1>1 DEF ReadUnlessAmbiguous
<1>4. "B" \notin ToSet(line)
  <2> HIDE DEF label
  <2> SUFFICES ASSUME NEW i \in 1..Len(line), line[i] = "B" PROVE FALSE
    BY <1>2 DEF ToSet
  <2>1. ~(i \in 1..o) /\ o \in Nat /\ Len(line) = o + Len(label)
    BY <1>3 DEF EndsWith
  <2>2. i - o \in 1..Len(label) /\ o + (i - o) = i
    <3>1. Len(label) \in Nat
      BY LabelFacts DEF label
    <3> QED
      BY <1>2, <2>1, <3>1
  <2>3. line[i] = label[i - o]
    BY <1>3, <2>2 DEF EndsWith
  <2> QED
    BY <2>2, <2>3 DEF label
<1>5. ArrowIsFirst(entry) /\ ~AmbiguousLink(line)
  <2>1. CASE entry.type = "l"
    <3>1. \A i \in 1..o : line[i] # "->"
      BY <1>3
    <3>2. ArrowIsFirst(entry) /\ ~(Separators(line) > 1)
      BY <1>2, <1>3, <2>1, <3>1, OrdinaryArrows
    <3> QED
      BY <1>1, <3>2 DEF ReadUnlessAmbiguous
  <2>2. CASE entry.type # "l"
    BY <1>1, <2>2 DEF ReadUnlessAmbiguous, ArrowIsFirst
  <2> QED
    BY <2>1, <2>2
<1>6. ~Ambiguous(line) /\ f = ParsedName(label, entry.type = "l")
  BY <1>1, <1>5 DEF ReadUnlessAmbiguous, IsRead
<1>7. f.ok /\ f.name = entry.name
  BY <1>5, <1>6, LabelRead
<1> QED
  BY <1>4, <1>6, <1>7 DEF line

(* The components of a path are texts.                                       *)
LEMMA ComponentsAreTexts ==
    ASSUME NEW S, NEW p \in Seq(S)
    PROVE  Components(p) \in Seq(Seq(S))
<1>1. PICK at : Walks(at, p, S) /\ Components(p) = EndPiece(at[Len(p)])
  BY ComponentsWalk
<1>2. at[Len(p)] \in Reading(S)
  BY <1>1 DEF Walks
<1>3. at[Len(p)].done \in Seq(Seq(S)) /\ at[Len(p)].piece \in Seq(S)
  BY <1>2 DEF Reading
<1> QED
  BY <1>1, <1>3 DEF EndPiece

(* A safe name below a path that can be asked for.                          *)
LEMMA ChildUsable ==
    ASSUME NEW p \in Seq(Characters), ~InvalidPath(p),
           NEW name \in Seq(Characters), ~Unsafe(name), \A i \in DOMAIN name : name[i] # "B"
    PROVE  ~InvalidPath(Join(p, name)) /\ Front(Resolved(Join(p, name))) = Components(p)
<1> DEFINE q == Join(p, name)
           n == Len(p)
           m == IF p[n] = Slash THEN n ELSE n + 1
           names == Seq(Characters)
<1>1. /\ name \notin {<<>>, <<".">>, DotDot}
      /\ \A i \in DOMAIN name : name[i] \notin {"B", "C", Slash}
      /\ DOMAIN name = 1..Len(name) /\ Len(name) \in Nat \ {0}
      /\ Slash \in Characters
  BY DEF Unsafe, Characters
<1>2. /\ p # <<>> /\ p[1] = Slash
      /\ ~(n >= 2 /\ p[2] = Slash)
      /\ \A i \in DOMAIN p : p[i] \notin {"B", "C"}
      /\ DotDot \notin ToSet(Components(p))
      /\ n \in Nat \ {0} /\ DOMAIN p = 1..n
  <2>1. /\ IsAbsolute(p) /\ ~IsPrefix(<<Slash, Slash>>, p)
        /\ \A i \in DOMAIN p : p[i] \notin {"B", "C"}
        /\ DotDot \notin ToSet(Components(p))
    BY DEF InvalidPath
  <2> QED
    BY <1>1, <2>1, Beginnings
<1>3. name[1] # Slash /\ name # <<>> /\ 1 \in 1..Len(name)
  BY <1>1
<1>4. /\ q \in Seq(Characters) /\ Len(q) = m + Len(name)
      /\ \A k \in 1..n : q[k] = p[k]
      /\ q[m] = Slash
      /\ \A k \in 1..Len(name) : q[m + k] = name[k]
  BY <1>1, <1>2, <1>3, JoinFacts
<1>5. Components(q) = Append(Components(p), name)
  <2>1. \A i \in DOMAIN name : name[i] # Slash
    BY <1>1
  <2> QED
    BY <1>1, <1>2, <2>1, ChildComponents
<1> HIDE DEF q
<1>6. m \in Nat /\ (m = n \/ m = n + 1) /\ (m = n => p[n] = Slash) /\ (m = n + 1 => p[n] # Slash)
  <2> n \in Nat
    BY <1>2
  <2> HIDE DEF n
  <2>1. n # n + 1
    OBVIOUS
  <2> QED
    BY <2>1
<1> HIDE DEF m
<1>7. IsAbsolute(q) /\ ~IsPrefix(<<Slash, Slash>>, q)
  <2>1. q # <<>> /\ q[1] = Slash
    <3>1. 1 \in 1..n
      BY <1>2
    <3>2. Len(q) # 0
      BY <1>1, <1>4, <1>6
    <3> QED
      BY <1>2, <1>4, <3>1, <3>2
  <2>2. q[2] # Slash
    <3>1. CASE n = 1
      <4>1. m = 1
        BY <1>2, <1>6, <3>1
      <4>2. q[1 + 1] = name[1]
        BY <1>3, <1>4, <4>1
      <4> QED
        BY <1>3, <4>2
    <3>2. CASE n # 1
      <4>1. n >= 2 /\ 2 \in 1..n
        BY <1>2, <3>2
      <4> QED
        BY <1>2, <1>4, <4>1
    <3> QED
      BY <3>1, <3>2
  <2> QED
    BY <1>1, <1>4, <2>1, <2>2, Beginnings
<1>8. ASSUME NEW i \in DOMAIN q PROVE q[i] \notin {"B", "C"}
  <2>1. i \in 1..(m + Len(name)) /\ i \in Nat
    BY <1>4
  <2>2. CASE i \in 1..n
    BY <1>2, <1>4, <2>2
  <2>3. CASE i = m
    BY <1>4, <2>3 DEF Slash
  <2>4. CASE i > m
    <3>1. i - m \in 1..Len(name) /\ m + (i - m) = i
      BY <1>1, <1>6, <2>1, <2>4
    <3>2. q[i] = name[i - m]
      BY <1>4, <3>1
    <3> QED
      BY <1>1, <3>1, <3>2
  <2>5. i \in 1..n \/ i = m \/ i > m
    <3>1. n \in Nat
      BY <1>2
    <3> HIDE DEF n
    <3> QED
      BY <1>6, <2>1, <3>1
  <2> QED
    BY <2>2, <2>3, <2>4, <2>5
<1> DEFINE c == Components(p)
<1>9. c \in Seq(names)
  BY ComponentsAreTexts
<1> HIDE DEF c, names
<1>10. name \in names
  BY DEF names
<1>11. /\ Append(c, name) \in Seq(names) /\ Len(Append(c, name)) = Len(c) + 1
       /\ \A i \in 1..Len(c) : Append(c, name)[i] = c[i]
       /\ Append(c, name)[Len(c) + 1] = name
       /\ Len(c) \in Nat
  BY <1>9, <1>10
<1>12. DotDot \notin ToSet(Append(c, name))
  <2> SUFFICES ASSUME NEW i \in 1..(Len(c) + 1), Append(c, name)[i] = DotDot PROVE FALSE
    BY <1>11 DEF ToSet
  <2>1. CASE i = Len(c) + 1
    BY <1>1, <1>11, <2>1
  <2>2. CASE i # Len(c) + 1
    <3>1. i \in 1..Len(c) /\ i \in DOMAIN c
      BY <1>9, <1>11, <2>2
    <3> QED
      BY <1>2, <1>11, <3>1 DEF ToSet, c
  <2> QED
    BY <2>1, <2>2
<1>13. ~InvalidPath(q)
  BY <1>5, <1>7, <1>8, <1>12 DEF InvalidPath, c
<1>14. Resolved(q) = Append(c, name)
  BY <1>5, <1>11, <1>12, PlainWay DEF Resolved, c
<1>15. Front(Append(c, name)) = c
  <2> DEFINE a == Append(c, name)
             u == SubSeq(a, 1, Len(c))
  <2>1. u \in Seq(names) /\ Len(u) = Len(c) /\ \A i \in 1..Len(c) : u[i] = a[i]
    BY <1>11
  <2>2. Len(a) - 1 = Len(c)
    BY <1>11
  <2> HIDE DEF u
  <2>3. \A i \in 1..Len(c) : u[i] = c[i]
    BY <1>11, <2>1
  <2>4. u = c
    BY <1>9, <2>1, <2>3, SeqEqual
  <2> QED
    BY <2>2, <2>4 DEF Front, u
<1> QED
  BY <1>13, <1>14, <1>15 DEF q, c

-----------------------------------------------------------------------------
(* The invariants.                                                         *)

(* What is asked for and sent, and how far a listing is: nothing is read     *)
(* before the reply, and only a path that can be asked for is.              *)
Asked ==
    /\ path \in Seq(Characters)
    /\ wire # <<>> => wire = path
    /\ wire # <<>> \/ pc \in {"answer", "parse"} \/ verdict \in {"ok", "ProtocolError"} =>
          ~InvalidPath(path)
    /\ pc \in {"ask", "answer"} => files = <<>> /\ index = 0 /\ ~junk
    /\ pc \in {"ask", "answer", "parse"} => verdict = "none"

(* Junk is the last line, and not the first.                                *)
JunkIsLast ==
    pc = "parse" /\ junk =>
       \/ index = 0 /\ Len(lines) = 2 /\ lines[1] = Row(Plain, "posix") /\ lines[2] \in Junk
       \/ index > 0 /\ Len(lines) = 1 /\ lines[1] \in Junk

(* A line before those of the entries: the count of blocks, if it is the    *)
(* first, the directory itself or its parent.                              *)
Leading(i, line) ==
    \/ i = 1 /\ index = 0 /\ line = Total
    \/ \E d \in DOMAIN SelfAndParent : line = Row(SelfAndParent[d], "posix")

(* Of the directory's rows x leading ones and those of all but the first k  *)
(* entries are left; the last is made in a style of its own.               *)
Left(x, k, style) ==
    /\ Len(lines) = x + (Len(entries) - k)
    /\ x > 0 => k = 0
    /\ \A i \in 1..x : Leading(i, lines[i])
    /\ \A i \in 1..(Len(entries) - k) :
          lines[x + i] = Row(entries[k + i], IF k + i = Len(entries) THEN style ELSE "posix")

(* No two arrows of an entry share a blank.                                  *)
Distinct == ~\E i \in DOMAIN entries : SharesABlank(entries[i])

(* The files are the first k entries, each read right.                       *)
FoundExactly(k) == Len(files) = k /\ \A i \in 1..k : ReadRight(files[i], entries[i])

(* While a directory is parsed, the rows left are those of all but the       *)
(* entries found so far; when it has been parsed, all are found.             *)
RowsAreLeft ==
    /\ pc = "parse" /\ ~junk =>
          /\ entries # <<>>
          /\ \E x \in 0..Len(lines), k \in 0..Len(entries), style \in Styles(Last(entries)) :
                Left(x, k, style) /\ (Distinct => FoundExactly(k))
    /\ verdict = "ok" => ~junk /\ (Distinct => FoundExactly(Len(entries)))

(* A file's path can be asked for, and leads to directly below what was      *)
(* listed.                                                                   *)
Usable(file) ==
    ~InvalidPath(file.path) /\ Front(Resolved(file.path)) = Components(path)

(* Every file found so far, in a listing that may yet fail too.              *)
FilesAreUsable == \A i \in DOMAIN files : Usable(files[i])

(* Sequences of what one can ask the length of.                             *)
Typed ==
    /\ pc \in {"ask", "answer", "parse", "done"}
    /\ verdict \in {"none", "InvalidPath", "ProtocolError", "ok"}
    /\ index \in Nat
    /\ entries \in Seq(EntryType)
    /\ \E S : lines \in Seq(S)
    /\ \E S : files \in Seq(S)

(* The inductive invariant.                                                  *)
IInv ==
    /\ Typed
    /\ Asked
    /\ JunkIsLast
    /\ RowsAreLeft
    /\ FilesAreUsable
    /\ OrdinaryNamesAreListed

(* Every entry has a row, and so have the directory and its parent.         *)
LEMMA RowsThereAre ==
    /\ EntryType \subseteq RowOf
    /\ Plain \in EntryType /\ Plain.type # "l"
    /\ Len(SelfAndParent) = 2 /\ DOMAIN SelfAndParent = 1..2
    /\ \A d \in 1..2 :
          LET dot == SelfAndParent[d]
          IN  /\ dot \in RowOf /\ dot.type = "d" /\ dot.name \in {<<".">>, DotDot}
              /\ Label(dot) = dot.name
              /\ dot.name[1] \notin Blank /\ \A i \in 1..Len(dot.name) : dot.name[i] # "B"
    /\ \A entry : "posix" \in Styles(entry)
<1>1. EntryType \subseteq RowOf
  BY DEF EntryType, RowOf
<1>2. Plain \in EntryType /\ Plain.type # "l"
  <2>1. <<"x", "x">> \in Seq(Characters) /\ <<>> \in Seq(Characters) /\ "-" \in PosixTypes
    BY DEF Characters, PosixTypes
  <2>2. <<"x", "x">> # <<>> /\ <<"x", "x">> # <<".">> /\ <<"x", "x">> # DotDot
    <3>1. <<"x", "x">>[1] = "x" /\ DotDot[1] = "." /\ Len(<<"x", "x">>) = 2 /\ Len(<<".">>) = 1
      BY DEF DotDot
    <3> QED
      BY <3>1
  <2> QED
    BY <2>1, <2>2 DEF Plain, EntryType
<1>3. Len(SelfAndParent) = 2 /\ DOMAIN SelfAndParent = 1..2
  BY DEF SelfAndParent
<1>4. ASSUME NEW d \in 1..2, NEW dot, dot = SelfAndParent[d]
      PROVE  /\ dot \in RowOf /\ dot.type = "d" /\ dot.name \in {<<".">>, DotDot}
             /\ Label(dot) = dot.name
             /\ dot.name[1] \notin Blank /\ \A i \in 1..Len(dot.name) : dot.name[i] # "B"
  <2>1. PICK name \in {<<".">>, DotDot} : dot = Dot(name)
    <3>1. d = 1 \/ d = 2
      OBVIOUS
    <3> QED
      BY <1>4, <3>1 DEF SelfAndParent
  <2>2. /\ name \in Seq(Characters) /\ name # <<>>
        /\ name[1] = "." /\ \A i \in 1..Len(name) : name[i] = "."
    <3>1. "." \in Characters
      BY DEF Characters
    <3>2. CASE name = <<".">>
      BY <3>1, <3>2
    <3>3. CASE name = DotDot
      BY <3>1, <3>3 DEF DotDot
    <3> QED
      BY <3>2, <3>3
  <2>3. dot.type = "d" /\ dot.name = name
    BY <2>1 DEF Dot
  <2>4. dot \in RowOf
    <3>1. "d" \in PosixTypes /\ <<>> \in Seq(Characters)
      BY DEF PosixTypes
    <3> QED
      BY <2>1, <2>2, <3>1 DEF Dot, RowOf
  <2>5. Label(dot) = name
    BY <2>3, <2>4, LabelFacts
  <2> QED
    BY <2>2, <2>3, <2>4, <2>5 DEF Blank
<1>5. \A entry : "posix" \in Styles(entry)
  BY DEF Styles
<1> QED
  BY <1>1, <1>2, <1>3, <1>4, <1>5

(* Nothing has been asked.                                                   *)
LEMMA InitIInv ==
    ASSUME Init
    PROVE  IInv
<1> USE DEF Init
<1>1. Typed
  <2>1. <<>> \in Seq(EntryType) /\ lines \in Seq({}) /\ files \in Seq({}) /\ index \in Nat
    OBVIOUS
  <2> QED
    BY <2>1 DEF Typed
<1>2. Asked
  BY ListingAssumption DEF Asked
<1>3. JunkIsLast /\ RowsAreLeft /\ FilesAreUsable /\ OrdinaryNamesAreListed
  BY DEF JunkIsLast, RowsAreLeft, FilesAreUsable, OrdinaryNamesAreListed
<1> QED
  BY <1>1, <1>2, <1>3 DEF IInv

(* Asking: only a path remote_path takes is sent.                            *)
LEMMA AskKeeps ==
    ASSUME IInv, Ask
    PROVE  IInv'
<1> USE DEF Ask, Finish
<1>1. Typed'
  BY DEF IInv, Typed
<1>2. Asked'
  BY DEF IInv, Asked
<1>3. pc' # "parse" /\ verdict' \notin {"ok", "ProtocolError"} /\ files' = <<>>
  BY DEF IInv, Asked
<1>4. JunkIsLast' /\ RowsAreLeft' /\ FilesAreUsable' /\ OrdinaryNamesAreListed'
  BY <1>3 DEF JunkIsLast, RowsAreLeft, FilesAreUsable, OrdinaryNamesAreListed
<1> QED
  BY <1>1, <1>2, <1>4 DEF IInv

(* The rows of a reply: those of the directory and its parent, of a plain    *)
(* file, and of an entry in its style.                                       *)
DirectoryRows(head, more, entry, style) ==
    [i \in DOMAIN head |-> Row(head[i], "posix")]
    \o [i \in DOMAIN more |-> Row(more[i], "posix")]
    \o <<Row(entry, style)>>

(* All lines of a reply are leading ones, and then the rows of the           *)
(* directory's entries es, the last in its style.                            *)
ReplyShape(all, es, entry, style) ==
    /\ \E S : all \in Seq(S)
    /\ es \in Seq(EntryType) /\ Len(es) > 0 /\ es[Len(es)] = entry
    /\ \E x \in 0..Len(all) :
          /\ Len(all) = x + Len(es)
          /\ \A i \in 1..x :
                \/ i = 1 /\ all[i] = Total
                \/ \E d \in DOMAIN SelfAndParent : all[i] = Row(SelfAndParent[d], "posix")
          /\ \A i \in 1..Len(es) :
                all[x + i] = Row(es[i], IF i = Len(es) THEN style ELSE "posix")

(* A reply has that shape, whichever of its parts there are.                 *)
LEMMA ReplyRows ==
    ASSUME NEW T \in {<<>>, <<Total>>}, NEW head \in {<<>>, SelfAndParent},
           NEW more \in {<<>>, <<Plain>>}, NEW entry \in EntryType, NEW style \in Styles(entry),
           NEW all, all = T \o DirectoryRows(head, more, entry, style),
           NEW es, es = more \o <<entry>>
    PROVE  ReplyShape(all, es, entry, style)
<1> DEFINE H == [i \in DOMAIN head |-> Row(head[i], "posix")]
           M == [i \in DOMAIN more |-> Row(more[i], "posix")]
           E == <<Row(entry, style)>>
           HM == H \o M
           rows == DirectoryRows(head, more, entry, style)
           S == {Total, Row(entry, style), Row(Plain, "posix")}
                \cup {Row(SelfAndParent[d], "posix") : d \in DOMAIN SelfAndParent}
           m == Len(more)
           h == Len(head)
           t == Len(T)
<1>1. T \in Seq(S) /\ t \in {0, 1} /\ \A i \in 1..t : i = 1 /\ T[i] = Total
  <2>1. Total \in S
    OBVIOUS
  <2> HIDE DEF S
  <2>2. CASE T = <<>>
    BY <2>2
  <2>3. CASE T = <<Total>>
    BY <2>1, <2>3
  <2> QED
    BY <2>2, <2>3
<1>2. h \in Nat /\ DOMAIN head = 1..h /\ \A i \in 1..h : i \in DOMAIN SelfAndParent /\ head[i] = SelfAndParent[i]
  <2>1. CASE head = <<>>
    BY <2>1
  <2>2. CASE head = SelfAndParent
    BY <2>2, RowsThereAre
  <2> QED
    BY <2>1, <2>2
<1>3. H \in Seq(S) /\ Len(H) = h /\ \A i \in 1..h : H[i] = Row(SelfAndParent[i], "posix")
  <2>1. H \in [1..h -> S]
    BY <1>2
  <2> HIDE DEF S, h
  <2> QED
    BY <1>2, <2>1
<1>4. m \in {0, 1} /\ DOMAIN more = 1..m /\ \A i \in 1..m : i = 1 /\ more[i] = Plain
  OBVIOUS
<1>5. M \in Seq(S) /\ Len(M) = m /\ \A i \in 1..m : M[i] = Row(Plain, "posix")
  <2>1. M \in [1..m -> S]
    BY <1>4
  <2>2. m \in Nat
    BY <1>4
  <2> HIDE DEF S, m
  <2> QED
    BY <1>4, <2>1, <2>2
<1>6. E \in Seq(S) /\ Len(E) = 1 /\ E[1] = Row(entry, style)
  OBVIOUS
<1>7. rows = HM \o E
  BY DEF DirectoryRows
<1> HIDE DEF H, M, E, S, m, h, t, rows
<1>8. HM \in Seq(S) /\ Joined(HM, H, M)
  BY <1>3, <1>5, JoinedFacts
<1> HIDE DEF HM
<1>9. rows \in Seq(S) /\ Joined(rows, HM, E)
  BY <1>6, <1>7, <1>8, JoinedFacts
<1>10. all \in Seq(S) /\ Joined(all, T, rows)
  <2>1. all = T \o rows
    BY DEF rows
  <2> QED
    BY <1>1, <1>9, <2>1, JoinedFacts
<1>11. /\ t \in Nat /\ h \in Nat /\ m \in Nat
       /\ Len(HM) = h + m /\ Len(rows) = h + m + 1 /\ Len(all) = t + h + m + 1
  BY <1>1, <1>2, <1>3, <1>4, <1>5, <1>6, <1>8, <1>9, <1>10 DEF Joined, t
<1>12. es \in Seq(EntryType) /\ Len(es) = m + 1 /\ es[m + 1] = entry /\ \A i \in 1..m : es[i] = Plain
  <2>1. more \in Seq(EntryType)
    <3>1. Plain \in EntryType
      BY RowsThereAre
    <3>2. CASE more = <<>>
      BY <3>2
    <3>3. CASE more = <<Plain>>
      BY <3>1, <3>3
    <3> QED
      BY <3>2, <3>3
  <2> DEFINE one == <<entry>>
  <2>2. one \in Seq(EntryType) /\ Len(one) = 1 /\ one[1] = entry
    OBVIOUS
  <2>3. es = more \o one
    OBVIOUS
  <2> HIDE DEF one
  <2>4. es \in Seq(EntryType) /\ Joined(es, more, one)
    BY <2>1, <2>2, <2>3, JoinedFacts
  <2>5. Len(es) = m + 1 /\ es[m + 1] = entry /\ \A i \in 1..m : es[i] = more[i]
    <3>1. 1 \in 1..1
      OBVIOUS
    <3> QED
      BY <2>2, <2>4, <3>1 DEF Joined, m
  <2> QED
    BY <1>4, <2>4, <2>5
<1> DEFINE x == t + h
<1>13. x \in 0..Len(all) /\ Len(all) = x + Len(es)
  <2> DEFINE a == Len(all)
             e == Len(es)
  <2>1. a = t + h + m + 1 /\ e = m + 1
    BY <1>11, <1>12
  <2> HIDE DEF a, e
  <2>2. x \in 0..a /\ a = x + e
    BY <1>11, <2>1
  <2> QED
    BY <2>2 DEF a, e
<1>14. ASSUME NEW i \in 1..x
       PROVE  \/ i = 1 /\ all[i] = Total
              \/ \E d \in DOMAIN SelfAndParent : all[i] = Row(SelfAndParent[d], "posix")
  <2>1. CASE i \in 1..t
    <3>1. all[i] = T[i]
      BY <1>10, <2>1 DEF Joined, t
    <3> QED
      BY <1>1, <2>1, <3>1
  <2>2. CASE i \notin 1..t
    <3> DEFINE j == i - t
    <3>1. j \in 1..h /\ t + j = i /\ j \in 1..(h + m) /\ j \in 1..(h + m + 1)
      BY <1>11, <2>2
    <3> HIDE DEF j
    <3>2. all[t + j] = rows[j]
      BY <1>10, <1>11, <3>1 DEF Joined, t
    <3>3. rows[j] = HM[j] /\ HM[j] = H[j]
      BY <1>3, <1>8, <1>9, <1>11, <3>1 DEF Joined
    <3> QED
      BY <1>2, <1>3, <3>1, <3>2, <3>3
  <2> QED
    BY <2>1, <2>2
<1>15. ASSUME NEW i \in 1..Len(es)
       PROVE  all[x + i] = Row(es[i], IF i = Len(es) THEN style ELSE "posix")
  <2>1. /\ h + i \in 1..(h + m + 1) /\ t + (h + i) = x + i
        /\ (i \in 1..m /\ i # Len(es)) \/ i = m + 1
    BY <1>11, <1>12
  <2>2. all[x + i] = rows[h + i]
    BY <1>10, <1>11, <2>1 DEF Joined, t
  <2>3. CASE i \in 1..m /\ i # Len(es)
    <3>1. h + i \in 1..(h + m)
      BY <1>11, <2>3
    <3>2. rows[h + i] = HM[h + i] /\ HM[h + i] = M[i]
      BY <1>3, <1>5, <1>8, <1>9, <1>11, <2>3, <3>1 DEF Joined
    <3> QED
      BY <1>5, <1>12, <2>2, <2>3, <3>2
  <2>4. CASE i = m + 1
    <3>1. h + i = (h + m) + 1 /\ 1 \in 1..1
      BY <1>11, <2>4
    <3>2. rows[(h + m) + 1] = E[1]
      BY <1>6, <1>9, <1>11, <3>1 DEF Joined
    <3> QED
      BY <1>6, <1>12, <2>2, <2>4, <3>1, <3>2
  <2> QED
    BY <2>1, <2>3, <2>4
<1> HIDE DEF x
<1>16. \E S1 : all \in Seq(S1)
  BY <1>10
<1>17. Len(es) > 0 /\ es[Len(es)] = entry
  BY <1>11, <1>12
<1> QED
  BY <1>12, <1>13, <1>14, <1>15, <1>16, <1>17 DEF ReplyShape

(* The reply: no row has been read.                                          *)
LEMMA ReplyKeeps ==
    ASSUME IInv, Reply
    PROVE  IInv'
<1>1. /\ files = <<>> /\ index = 0 /\ ~junk /\ verdict = "none" /\ ~InvalidPath(path)
      /\ pc' = "parse" /\ UNCHANGED <<path, wire, junk, index, files, verdict>>
  BY DEF IInv, Asked, Reply
<1>2. PICK entry \in Entries, more \in {<<>>, <<Plain>>} :
         /\ entries' = more \o <<entry>>
         /\ \E style \in Styles(entry), head \in {<<>>, SelfAndParent}, total \in BOOLEAN :
               LET rows == [i \in DOMAIN head |-> Row(head[i], "posix")]
                           \o [i \in DOMAIN more |-> Row(more[i], "posix")]
                           \o <<Row(entry, style)>>
               IN  lines' = (IF total THEN <<Total>> ELSE <<>>) \o rows
  BY DEF Reply
<1>3. PICK style \in Styles(entry), head \in {<<>>, SelfAndParent}, total \in BOOLEAN :
         lines' = (IF total THEN <<Total>> ELSE <<>>) \o DirectoryRows(head, more, entry, style)
  BY <1>2 DEF DirectoryRows
<1>4. ReplyShape(lines', entries', entry, style)
  <2> DEFINE T == IF total THEN <<Total>> ELSE <<>>
             all == lines'
             es == entries'
  <2>1. /\ T \in {<<>>, <<Total>>} /\ entry \in EntryType
        /\ all = T \o DirectoryRows(head, more, entry, style) /\ es = more \o <<entry>>
    BY <1>2, <1>3, ListingAssumption
  <2> HIDE DEF T, all, es
  <2>2. ReplyShape(all, es, entry, style)
    BY <2>1, ReplyRows
  <2> QED
    BY <2>2 DEF all, es
<1>5. Typed'
  BY <1>1, <1>4 DEF IInv, Typed, ReplyShape
<1>6. Asked'
  BY <1>1 DEF IInv, Asked
<1>7. RowsAreLeft'
  <2>1. PICK x \in 0..Len(lines') :
           /\ Len(lines') = x + Len(entries')
           /\ \A i \in 1..x :
                 \/ i = 1 /\ lines'[i] = Total
                 \/ \E d \in DOMAIN SelfAndParent : lines'[i] = Row(SelfAndParent[d], "posix")
           /\ \A i \in 1..Len(entries') :
                 lines'[x + i] = Row(entries'[i], IF i = Len(entries') THEN style ELSE "posix")
    BY <1>4 DEF ReplyShape
  <2>2. entries' # <<>> /\ Len(entries') \in Nat /\ style \in Styles(Last(entries'))
    BY <1>4 DEF ReplyShape, Last
  <2>3. Left(x, 0, style)'
    <3>1. Len(lines') = x + (Len(entries') - 0)
      BY <2>1, <2>2
    <3>2. \A i \in 1..x : Leading(i, lines[i])'
      BY <1>1, <2>1 DEF Leading
    <3>3. ASSUME NEW i \in 1..(Len(entries') - 0)
          PROVE  lines'[x + i] = Row(entries'[0 + i], IF 0 + i = Len(entries') THEN style ELSE "posix")
      <4>1. i \in 1..Len(entries') /\ 0 + i = i
        BY <2>2
      <4> QED
        BY <2>1, <4>1
    <3> QED
      BY <3>1, <3>2, <3>3 DEF Left
  <2>4. FoundExactly(0)'
    BY <1>1 DEF FoundExactly
  <2>5. 0 \in 0..Len(entries')
    BY <2>2
  <2>6. verdict' # "ok"
    BY <1>1
  <2> QED
    BY <2>1, <2>2, <2>3, <2>4, <2>5, <2>6 DEF RowsAreLeft
<1>8. JunkIsLast' /\ FilesAreUsable' /\ OrdinaryNamesAreListed'
  BY <1>1 DEF JunkIsLast, FilesAreUsable, OrdinaryNamesAreListed
<1> QED
  BY <1>5, <1>6, <1>7, <1>8 DEF IInv

(* A reply with junk: the row of a plain file, and the junk after it.        *)
LEMMA ReplyWithJunkKeeps ==
    ASSUME IInv, ReplyWithJunk
    PROVE  IInv'
<1>1. /\ files = <<>> /\ index = 0 /\ verdict = "none" /\ ~InvalidPath(path)
      /\ entries' = <<Plain>> /\ junk' = TRUE
      /\ pc' = "parse" /\ UNCHANGED <<path, wire, index, files, verdict>>
  BY DEF IInv, Asked, ReplyWithJunk
<1>2. PICK line \in Junk : lines' = <<Row(Plain, "posix"), line>>
  BY DEF ReplyWithJunk
<1>3. Typed'
  <2>1. lines' \in Seq({Row(Plain, "posix"), line})
    BY <1>2
  <2>2. entries' \in Seq(EntryType)
    <3>1. Plain \in EntryType
      BY RowsThereAre
    <3> QED
      BY <1>1, <3>1
  <2>3. \E S : lines' \in Seq(S)
    BY <2>1
  <2> QED
    BY <1>1, <2>2, <2>3 DEF IInv, Typed
<1>4. Asked'
  BY <1>1 DEF IInv, Asked
<1>5. JunkIsLast'
  <2>1. Len(lines') = 2 /\ lines'[1] = Row(Plain, "posix") /\ lines'[2] = line
    BY <1>2
  <2> QED
    BY <1>1, <2>1 DEF JunkIsLast
<1>6. RowsAreLeft' /\ FilesAreUsable' /\ OrdinaryNamesAreListed'
  BY <1>1 DEF RowsAreLeft, FilesAreUsable, OrdinaryNamesAreListed
<1> QED
  BY <1>3, <1>4, <1>5, <1>6 DEF IInv

(* The end: no row is left, so all entries are found, and there was no junk, *)
(* which is never passed.                                                    *)
LEMMA ParsedAllKeeps ==
    ASSUME IInv, ParsedAll
    PROVE  IInv'
<1>1. /\ pc = "parse" /\ lines = <<>> /\ pc' = "done" /\ verdict' = "ok"
      /\ UNCHANGED <<path, wire, entries, junk, lines, index, files>>
  BY DEF ParsedAll, Finish
<1>2. Typed'
  BY <1>1 DEF IInv, Typed
<1>3. Asked'
  BY <1>1 DEF IInv, Asked
<1>4. ~junk
  <2>1. Len(lines) = 0
    BY <1>1
  <2> QED
    BY <1>1, <2>1 DEF IInv, JunkIsLast
<1>5. RowsAreLeft'
  <2>1. PICK x \in 0..Len(lines), k \in 0..Len(entries), style \in Styles(Last(entries)) :
           Left(x, k, style) /\ (Distinct => FoundExactly(k))
    BY <1>1, <1>4 DEF IInv, RowsAreLeft
  <2>2. Len(lines) = 0 /\ Len(entries) \in Nat
    BY <1>1 DEF IInv, Typed
  <2>3. Len(lines) = x + (Len(entries) - k)
    BY <2>1 DEF Left
  <2>4. k = Len(entries)
    BY <2>2, <2>3
  <2>5. Distinct => FoundExactly(Len(entries))
    BY <2>1, <2>4
  <2>6. Distinct' = Distinct /\ FoundExactly(Len(entries))' = FoundExactly(Len(entries))
    BY <1>1 DEF Distinct, FoundExactly, ReadRight
  <2> QED
    BY <1>1, <1>4, <2>5, <2>6 DEF RowsAreLeft
<1>6. JunkIsLast' /\ OrdinaryNamesAreListed'
  BY <1>1 DEF JunkIsLast, OrdinaryNamesAreListed
<1>7. FilesAreUsable'
  BY <1>1 DEF IInv, FilesAreUsable, Usable
<1> QED
  BY <1>2, <1>3, <1>5, <1>6, <1>7 DEF IInv

(* The line that is read next.                                              *)
LEMMA NextLine ==
    ASSUME IInv, pc = "parse", lines # <<>>
    PROVE  /\ Len(lines) \in Nat \ {0} /\ DOMAIN lines = 1..Len(lines)
           /\ Head(lines) = lines[1]
           /\ Len(Tail(lines)) = Len(lines) - 1
           /\ \A i \in 1..(Len(lines) - 1) : Tail(lines)[i] = lines[i + 1]
           /\ \E S : Tail(lines) \in Seq(S)
<1>1. PICK S : lines \in Seq(S)
  BY DEF IInv, Typed
<1> DEFINE rest == Tail(lines)
<1>2. /\ rest \in Seq(S) /\ Len(rest) = Len(lines) - 1
      /\ \A i \in 1..(Len(lines) - 1) : rest[i] = lines[i + 1]
  BY <1>1
<1>3. Len(lines) \in Nat \ {0} /\ DOMAIN lines = 1..Len(lines) /\ Head(lines) = lines[1]
  BY <1>1
<1> QED
  BY <1>2, <1>3

(* A name that is passed over or listed.                                     *)
NameAccepted(name) == name \in {<<".">>, DotDot} \/ ~Unsafe(name)

(* A line the parser has no objection to, f being what it reads of it.       *)
Passes(line, f) ==
    /\ \A k \in DOMAIN lines : "B" \notin ToSet(lines[k])
    /\ ~IsTotal(index, line) => ~Ambiguous(line) /\ f.ok /\ NameAccepted(f.name)

(* The rows of the directory itself and of its parent are passed over.      *)
LEMMA DotRow ==
    ASSUME NEW d \in DOMAIN SelfAndParent, NEW line, line = Row(SelfAndParent[d], "posix")
    PROVE  /\ line # Total /\ "B" \notin ToSet(line) /\ ~Ambiguous(line)
           /\ ParseEntry(line).ok /\ ParseEntry(line).name \in {<<".">>, DotDot}
<1> DEFINE dot == SelfAndParent[d]
<1>1. /\ dot \in RowOf /\ dot.type = "d" /\ dot.name \in {<<".">>, DotDot}
      /\ Label(dot) = dot.name
      /\ dot.name[1] \notin Blank /\ \A i \in 1..Len(dot.name) : dot.name[i] # "B"
      /\ "posix" \in Styles(dot)
  BY RowsThereAre
<1> HIDE DEF dot
<1>2. line = Row(dot, "posix")
  BY DEF dot
<1>3. dot.type # "l"
  BY <1>1
<1>4. /\ "B" \notin ToSet(line) /\ ~Ambiguous(line)
      /\ ParseEntry(line).ok /\ ParseEntry(line).name = dot.name
  <2>1. "posix" \in Styles(dot) \ {"posix_aligned", "dos_24h"}
    BY <1>1
  <2> QED
    BY <1>1, <1>2, <1>3, <2>1, CleanRow
<1>5. line # Total
  BY <1>1, <1>2, AcceptedRow
<1> QED
  BY <1>1, <1>4, <1>5

(* A directory's row of an entry with an ordinary name is passed.           *)
LEMMA OrdinaryRow ==
    ASSUME NEW entry \in EntryType, Ordinary(entry.name),
           entry.type = "l" => Ordinary(entry.target),
           NEW style \in Styles(entry) \ {"posix_aligned", "dos_24h"},
           NEW line, line = Row(entry, style)
    PROVE  /\ "B" \notin ToSet(line) /\ ~Ambiguous(line)
           /\ ParseEntry(line).ok /\ NameAccepted(ParseEntry(line).name)
<1> DEFINE name == entry.name
           target == entry.target
           label == Label(entry)
<1>1. entry \in RowOf /\ name \in Seq(Characters) /\ target \in Seq(Characters)
      /\ name \notin {<<>>, <<".">>, DotDot} /\ DOMAIN name = 1..Len(name) /\ 1 \in 1..Len(name)
  <2>1. entry \in RowOf /\ name \in Seq(Characters) /\ target \in Seq(Characters)
        /\ name \notin {<<>>, <<".">>, DotDot}
    BY RowsThereAre DEF EntryType
  <2> HIDE DEF name, target
  <2> QED
    BY <2>1
<1>2. name[1] = "x" /\ \A i \in 1..Len(name) : name[i] \in {"x", "SP"}
  BY <1>1 DEF Ordinary, ToSet
<1>3. entry.type = "l" => \A i \in 1..Len(target) : target[i] \in {"x", "SP"}
  <2>1. DOMAIN target = 1..Len(target)
    BY <1>1
  <2> HIDE DEF target
  <2>2. entry.type = "l" => ToSet(target) \subseteq {"x", "SP"}
    BY DEF Ordinary, target
  <2> QED
    BY <2>1, <2>2 DEF ToSet
<1>4. label[1] \notin Blank /\ \A i \in 1..Len(label) : label[i] # "B"
  <2>1. CASE entry.type # "l"
    <3>1. label = name
      BY <1>1, <2>1, LabelFacts
    <3> QED
      BY <1>2, <3>1 DEF Blank
  <2>2. CASE entry.type = "l"
    <3> DEFINE b == Len(name)
    <3>1. /\ Len(label) = b + 3 + Len(target)
          /\ \A i \in 1..b : label[i] = name[i]
          /\ label[b + 1] = "SP" /\ label[b + 2] = "->" /\ label[b + 3] = "SP"
          /\ \A i \in 1..Len(target) : label[b + 3 + i] = target[i]
      BY <1>1, <2>2, LinkLabel
    <3>2. b \in Nat /\ Len(target) \in Nat /\ 1 \in 1..b
      BY <1>1
    <3>3. label[1] \notin Blank
      BY <1>2, <3>1, <3>2 DEF Blank
    <3> HIDE DEF label, name, target
    <3>4. ASSUME NEW i \in 1..Len(label) PROVE label[i] # "B"
      <4> DEFINE n == Len(target)
                 j == i - (b + 3)
      <4>1. i \in 1..(b + 3 + n) /\ b \in Nat /\ n \in Nat
        BY <3>1, <3>2
      <4> HIDE DEF b, n
      <4>2. i \in 1..b \/ i = b + 1 \/ i = b + 2 \/ i = b + 3 \/ (j \in 1..n /\ b + 3 + j = i)
        BY <4>1
      <4> HIDE DEF j
      <4> QED
        BY <1>2, <1>3, <2>2, <3>1, <4>2 DEF b, n
    <3> QED
      BY <3>3, <3>4
  <2> QED
    BY <2>1, <2>2
<1>5. /\ "B" \notin ToSet(line) /\ ~Ambiguous(line)
      /\ ParseEntry(line).ok /\ ParseEntry(line).name = name
  BY <1>1, <1>4, CleanRow
<1>6. ~Unsafe(name)
  BY <1>1, <1>2 DEF Unsafe, Slash
<1> QED
  BY <1>5, <1>6 DEF NameAccepted

(* A file that is listed for a row that is understood can be used.          *)
LEMMA FileUsable ==
    ASSUME IInv, pc = "parse", NEW line, NEW entry, Understood(line, entry), "B" \notin ToSet(line),
           NEW name, name = ParseEntry(line).name, ~Unsafe(name)
    PROVE  ~InvalidPath(Join(path, name)) /\ Front(Resolved(Join(path, name))) = Components(path)
<1>1. path \in Seq(Characters) /\ ~InvalidPath(path)
  BY DEF IInv, Asked
<1>2. name \in Seq(Characters) /\ \A i \in DOMAIN name : name[i] # "B"
  BY DEF Understood
<1> QED
  BY <1>1, <1>2, ChildUsable

(* The files with one more.                                                  *)
Listed(f) ==
    Append(files, [path |-> Join(path, f.name), name |-> f.name,
                   target |-> IF f.target = <<>> THEN <<>> ELSE Absolutize(path, f.target)])

(* What becomes of the files when a line is passed.                          *)
FilesAfter(line, f) ==
    IF IsTotal(index, line) \/ f.name \in {<<".">>, DotDot} THEN files ELSE Listed(f)

(* The files with one more, position by position.                            *)
LEMMA ListedFacts ==
    ASSUME IInv, NEW f, NEW fs, fs = Listed(f)
    PROVE  /\ Len(files) \in Nat /\ DOMAIN files = 1..Len(files)
           /\ Len(fs) = Len(files) + 1 /\ DOMAIN fs = 1..(Len(files) + 1)
           /\ \A i \in 1..Len(files) : fs[i] = files[i]
           /\ LET new == fs[Len(files) + 1]
              IN  /\ new.path = Join(path, f.name) /\ new.name = f.name
                  /\ f.target # <<>> => new.target = Absolutize(path, f.target)
           /\ \E S : fs \in Seq(S)
<1>1. PICK S : files \in Seq(S)
  BY DEF IInv, Typed
<1> DEFINE new == [path |-> Join(path, f.name), name |-> f.name,
                   target |-> IF f.target = <<>> THEN <<>> ELSE Absolutize(path, f.target)]
           T == S \cup {new}
<1>2. /\ new.path = Join(path, f.name) /\ new.name = f.name
      /\ f.target # <<>> => new.target = Absolutize(path, f.target)
  OBVIOUS
<1>3. fs = Append(files, new)
  BY DEF Listed
<1> HIDE DEF new
<1>4. files \in Seq(T) /\ new \in T
  BY <1>1
<1> HIDE DEF T
<1>5. /\ fs \in Seq(T) /\ Len(fs) = Len(files) + 1
      /\ \A i \in 1..Len(files) : fs[i] = files[i]
      /\ fs[Len(files) + 1] = new
  BY <1>3, <1>4
<1>6. Len(files) \in Nat /\ DOMAIN files = 1..Len(files) /\ DOMAIN fs = 1..(Len(files) + 1)
  BY <1>1, <1>5
<1>7. /\ fs[Len(files) + 1].path = Join(path, f.name) /\ fs[Len(files) + 1].name = f.name
      /\ f.target # <<>> => fs[Len(files) + 1].target = Absolutize(path, f.target)
  BY <1>2, <1>5
<1> QED
  BY <1>5, <1>6, <1>7

(* A line of a directory that is passed is a leading one, and changes no     *)
(* file; or the row of the entry next to those found, which is listed as it  *)
(* is called.                                                                *)
LEMMA PassingRows ==
    ASSUME IInv, pc = "parse", lines # <<>>, ~junk,
           NEW f, f = ParseEntry(Head(lines)), Passes(Head(lines), f),
           lines' = Tail(lines), index' = index + 1, files' = FilesAfter(Head(lines), f),
           UNCHANGED <<pc, verdict, path, wire, entries, junk>>
    PROVE  RowsAreLeft' /\ FilesAreUsable'
<1> DEFINE line == Head(lines)
           n == Len(entries)
<1>1. /\ Len(lines) \in Nat \ {0} /\ DOMAIN lines = 1..Len(lines) /\ line = lines[1]
      /\ Len(lines') = Len(lines) - 1
      /\ \A i \in 1..(Len(lines) - 1) : lines'[i] = lines[i + 1]
  BY NextLine
<1>2. PICK x \in 0..Len(lines), k \in 0..n, style \in Styles(Last(entries)) :
         Left(x, k, style) /\ (Distinct => FoundExactly(k))
  BY DEF IInv, RowsAreLeft
<1>3. entries # <<>> /\ entries \in Seq(EntryType) /\ n \in Nat /\ verdict # "ok"
  BY DEF IInv, Typed, Asked, RowsAreLeft
<1>4. /\ Len(lines) = x + (n - k)
      /\ x > 0 => k = 0
      /\ \A i \in 1..x : Leading(i, lines[i])
      /\ \A i \in 1..(n - k) :
            lines[x + i] = Row(entries[k + i], IF k + i = n THEN style ELSE "posix")
  BY <1>2 DEF Left
<1>5. "B" \notin ToSet(line) /\ (~IsTotal(index, line) => ~Ambiguous(line) /\ f.ok /\ NameAccepted(f.name))
  BY <1>1 DEF Passes
<1>6. Distinct' = Distinct /\ (files' = files => \A m : FoundExactly(m)' = FoundExactly(m))
  BY DEF Distinct, FoundExactly, ReadRight
<1> HIDE DEF n, line
<1>7. CASE x > 0
  <2>1. files' = files
    <3>1. Leading(1, line)
      BY <1>1, <1>2, <1>4, <1>7
    <3>2. CASE index = 0 /\ line = Total
      BY <3>2 DEF IsTotal, FilesAfter, line
    <3>3. CASE \E d \in DOMAIN SelfAndParent : line = Row(SelfAndParent[d], "posix")
      BY <3>3, DotRow DEF FilesAfter, line
    <3> QED
      BY <3>1, <3>2, <3>3 DEF Leading
  <2>2. k = 0 /\ x - 1 \in 0..Len(lines') /\ Len(lines') = (x - 1) + (n - 0)
    BY <1>1, <1>2, <1>3, <1>4, <1>7
  <2>3. ASSUME NEW i \in 1..(x - 1) PROVE Leading(i, lines[i])'
    <3>1. i \in 1..(Len(lines) - 1) /\ i + 1 \in 1..x /\ i + 1 # 1
      BY <1>1, <1>2, <2>3
    <3>2. lines'[i] = lines[i + 1] /\ Leading(i + 1, lines[i + 1])
      BY <1>1, <1>4, <3>1
    <3> QED
      BY <3>1, <3>2 DEF Leading
  <2>4. ASSUME NEW i \in 1..(n - 0)
        PROVE  lines'[(x - 1) + i] = Row(entries[0 + i], IF 0 + i = n THEN style ELSE "posix")
    <3>1. (x - 1) + i \in 1..(Len(lines) - 1) /\ ((x - 1) + i) + 1 = x + i
      BY <1>1, <1>2, <1>3, <1>4, <1>7, <2>2
    <3>2. lines'[(x - 1) + i] = lines[x + i]
      BY <1>1, <3>1
    <3> QED
      BY <1>4, <2>2, <3>2
  <2>5. Left(x - 1, 0, style)'
    BY <2>2, <2>3, <2>4 DEF Left, n
  <2>6. RowsAreLeft'
    <3>1. 0 \in 0..Len(entries')
      BY <1>3 DEF n
    <3>2. Distinct' => FoundExactly(0)'
      BY <1>2, <1>6, <2>1, <2>2
    <3> QED
      BY <1>2, <1>3, <2>2, <2>5, <3>1, <3>2 DEF RowsAreLeft
  <2>7. FilesAreUsable'
    BY <2>1 DEF IInv, FilesAreUsable, Usable
  <2> QED
    BY <2>6, <2>7
<1>8. CASE ~(x > 0)
  <2> DEFINE entry == entries[k + 1]
             how == IF k + 1 = n THEN style ELSE "posix"
  <2>1. x = 0 /\ k + 1 \in 1..n /\ n - k = Len(lines) /\ 1 \in 1..(n - k)
    BY <1>1, <1>2, <1>3, <1>4, <1>8
  <2>2. line = Row(entry, how)
    <3>1. lines[x + 1] = Row(entries[k + 1], IF k + 1 = n THEN style ELSE "posix")
      BY <1>4, <2>1
    <3> QED
      BY <1>1, <2>1, <3>1
  <2>3. entry \in EntryType
    BY <1>3, <2>1 DEF n
  <2>4. how \in Styles(entry)
    <3>1. Last(entries) = entries[n]
      BY DEF Last, n
    <3> QED
      BY <1>2, <3>1, RowsThereAre
  <2>5. entry \in RowOf
    BY <2>3, RowsThereAre
  <2> HIDE DEF entry, how
  <2>6. line # Total /\ ~IsTotal(index, line)
    BY <2>2, <2>4, <2>5, AcceptedRow DEF IsTotal
  <2>7. ~Ambiguous(line) /\ f.ok /\ NameAccepted(f.name)
    BY <1>5, <2>6
  <2>8. Understood(line, entry)
    BY <2>2, <2>4, <2>5, <2>7, AcceptedRow
  <2>9. FilesAreUsable'
    <3>1. CASE files' = files
      BY <3>1 DEF IInv, FilesAreUsable, Usable
    <3>2. CASE files' # files
      <4>1. files' = Listed(f) /\ ~Unsafe(f.name)
        BY <2>7, <3>2 DEF FilesAfter, NameAccepted
      <4>2. /\ DOMAIN files' = 1..(Len(files) + 1) /\ DOMAIN files = 1..Len(files) /\ Len(files) \in Nat
            /\ \A i \in 1..Len(files) : files'[i] = files[i]
            /\ files'[Len(files) + 1].path = Join(path, f.name)
        BY <4>1, ListedFacts
      <4>3. Usable(files'[Len(files) + 1])
        <5>1. ~InvalidPath(Join(path, f.name)) /\ Front(Resolved(Join(path, f.name))) = Components(path)
          BY <1>5, <2>8, <4>1, FileUsable DEF line
        <5> QED
          BY <4>2, <5>1 DEF Usable
      <4>4. \A i \in 1..Len(files) : Usable(files[i])
        BY <4>2 DEF IInv, FilesAreUsable
      <4>5. \A i \in DOMAIN files' : Usable(files'[i])
        BY <4>2, <4>3, <4>4
      <4> QED
        BY <4>5 DEF FilesAreUsable, Usable
    <3> QED
      BY <3>1, <3>2
  <2>10. ASSUME Distinct PROVE FoundExactly(k + 1)'
    <3>1. FoundExactly(k)
      BY <1>2, <2>10
    <3>2. ~SharesABlank(entry)
      <4>1. k + 1 \in DOMAIN entries
        BY <1>3, <2>1 DEF n
      <4> QED
        BY <2>10, <4>1 DEF Distinct, entry
    <3>3. f.name = entry.name /\ (entry.type = "l" => f.target = entry.target)
      BY <2>8, <3>2 DEF Understood, line
    <3>4. /\ entry.name \notin {<<".">>, DotDot}
          /\ entry.type = "l" => entry.target # <<>>
      BY <2>3 DEF EntryType
    <3>5. files' = Listed(f)
      BY <2>6, <3>3, <3>4 DEF FilesAfter, line
    <3>6. /\ Len(files') = Len(files) + 1
          /\ \A i \in 1..Len(files) : files'[i] = files[i]
          /\ files'[Len(files) + 1].name = f.name
          /\ f.target # <<>> => files'[Len(files) + 1].target = Absolutize(path, f.target)
      BY <3>5, ListedFacts
    <3>7. Len(files) = k /\ \A i \in 1..k : ReadRight(files[i], entries[i])
      BY <3>1 DEF FoundExactly
    <3>8. ReadRight(files'[k + 1], entries[k + 1])
      BY <3>3, <3>4, <3>6, <3>7 DEF ReadRight, entry
    <3>9. Len(files') = k + 1 /\ \A i \in 1..(k + 1) : ReadRight(files'[i], entries[i])
      <4>1. k \in Nat /\ \A i \in 1..(k + 1) : i \in 1..k \/ i = k + 1
        BY <1>2, <1>3
      <4>2. Len(files') = k + 1 /\ \A i \in 1..k : files'[i] = files[i]
        BY <3>6, <3>7
      <4> QED
        BY <3>7, <3>8, <4>1, <4>2
    <3> QED
      BY <3>9 DEF FoundExactly, ReadRight
  <2>11. Left(0, k + 1, style)'
    <3>1. Len(lines') = 0 + (n - (k + 1))
      BY <1>1, <1>2, <1>3, <1>4, <2>1
    <3>2. ASSUME NEW i \in 1..(n - (k + 1))
          PROVE  lines'[0 + i] = Row(entries[(k + 1) + i], IF (k + 1) + i = n THEN style ELSE "posix")
      <4>1. i + 1 \in 1..(n - k) /\ i \in 1..(Len(lines) - 1) /\ k + (i + 1) = (k + 1) + i
            /\ x + (i + 1) = i + 1 /\ 0 + i = i
        BY <1>1, <1>2, <1>3, <2>1
      <4>2. lines'[i] = lines[i + 1]
        BY <1>1, <4>1
      <4>3. lines[x + (i + 1)] = Row(entries[k + (i + 1)], IF k + (i + 1) = n THEN style ELSE "posix")
        BY <1>4, <4>1
      <4> QED
        BY <4>1, <4>2, <4>3
    <3>3. ~(0 > 0) /\ \A i \in 1..0 : FALSE
      OBVIOUS
    <3> QED
      BY <1>3, <3>1, <3>2, <3>3 DEF Left, n
  <2>12. RowsAreLeft'
    <3>1. 0 \in 0..Len(lines') /\ k + 1 \in 0..Len(entries')
      BY <1>1, <1>3, <2>1 DEF n
    <3>2. Distinct' => FoundExactly(k + 1)'
      BY <1>6, <2>10
    <3> QED
      BY <1>2, <1>3, <2>11, <3>1, <3>2 DEF RowsAreLeft
  <2> QED
    BY <2>9, <2>12
<1> QED
  BY <1>7, <1>8

(* The parser goes on with the next line.                                   *)
LEMMA PassingKeeps ==
    ASSUME IInv, pc = "parse", lines # <<>>,
           NEW f, f = ParseEntry(Head(lines)), Passes(Head(lines), f),
           lines' = Tail(lines), index' = index + 1, files' = FilesAfter(Head(lines), f),
           UNCHANGED <<pc, verdict, path, wire, entries, junk>>
    PROVE  IInv'
<1> DEFINE line == Head(lines)
<1>1. /\ Len(lines) \in Nat \ {0} /\ DOMAIN lines = 1..Len(lines) /\ line = lines[1]
      /\ Len(lines') = Len(lines) - 1
      /\ \A i \in 1..(Len(lines) - 1) : lines'[i] = lines[i + 1]
      /\ \E S : lines' \in Seq(S)
  BY NextLine
<1>2. "B" \notin ToSet(line) /\ (~IsTotal(index, line) => ~Ambiguous(line) /\ f.ok /\ NameAccepted(f.name))
  BY <1>1 DEF Passes
<1>3. Typed'
  <2>1. \E S : files' \in Seq(S)
    <3>1. CASE files' = files
      BY <3>1 DEF IInv, Typed
    <3>2. CASE files' # files
      BY <3>2, ListedFacts DEF FilesAfter
    <3> QED
      BY <3>1, <3>2
  <2> QED
    BY <1>1, <2>1 DEF IInv, Typed
<1>4. verdict = "none" /\ index \in Nat
  BY DEF IInv, Asked, Typed
<1>5. Asked'
  BY DEF IInv, Asked
<1>6. OrdinaryNamesAreListed'
  BY <1>4 DEF OrdinaryNamesAreListed
<1> HIDE DEF line
<1>7. CASE junk
  <2>1. index = 0
    <3> SUFFICES ASSUME index # 0 PROVE FALSE
      OBVIOUS
    <3>1. index > 0 /\ line \in Junk
      BY <1>1, <1>7 DEF IInv, JunkIsLast
    <3>2. ~IsTotal(index, line)
      BY <3>1 DEF IsTotal
    <3>3. Ambiguous(line) \/ ~f.ok
      BY <3>1, ListingAssumption DEF line
    <3> QED
      BY <1>2, <3>2, <3>3
  <2>2. Len(lines) = 2 /\ line = Row(Plain, "posix") /\ lines[2] \in Junk
    BY <1>1, <1>4, <1>7, <2>1 DEF IInv, JunkIsLast
  <2>3. Plain \in RowOf /\ "posix" \in Styles(Plain)
    BY RowsThereAre
  <2>4. line # Total
    BY <2>2, <2>3, AcceptedRow
  <2>5. ~IsTotal(index, line)
    BY <2>4 DEF IsTotal
  <2>6. ~Ambiguous(line) /\ NameAccepted(f.name)
    BY <1>2, <2>5
  <2>7. Understood(line, Plain)
    BY <2>2, <2>3, <2>6, AcceptedRow
  <2>8. FilesAreUsable'
    <3>1. CASE files' = files
      BY <3>1 DEF IInv, FilesAreUsable, Usable
    <3>2. CASE files' # files
      <4>1. files' = Listed(f) /\ ~Unsafe(f.name)
        BY <2>6, <3>2 DEF FilesAfter, NameAccepted
      <4>2. /\ DOMAIN files' = 1..(Len(files) + 1) /\ DOMAIN files = 1..Len(files) /\ Len(files) \in Nat
            /\ \A i \in 1..Len(files) : files'[i] = files[i]
            /\ files'[Len(files) + 1].path = Join(path, f.name)
        BY <4>1, ListedFacts
      <4>3. ~InvalidPath(Join(path, f.name)) /\ Front(Resolved(Join(path, f.name))) = Components(path)
        BY <1>2, <2>7, <4>1, FileUsable DEF line
      <4>4. Usable(files'[Len(files) + 1])
        BY <4>2, <4>3 DEF Usable
      <4>5. \A i \in 1..Len(files) : Usable(files[i])
        BY <4>2 DEF IInv, FilesAreUsable
      <4>6. \A i \in DOMAIN files' : Usable(files'[i])
        BY <4>2, <4>4, <4>5
      <4> QED
        BY <4>6 DEF FilesAreUsable, Usable
    <3> QED
      BY <3>1, <3>2
  <2>9. JunkIsLast'
    <3>1. Len(lines') = 1 /\ lines'[1] = lines[2] /\ index' > 0
      <4>1. 1 \in 1..(Len(lines) - 1) /\ 1 + 1 = 2 /\ Len(lines) - 1 = 1
        BY <2>2
      <4>2. lines'[1] = lines[1 + 1]
        BY <1>1, <4>1
      <4>3. index' > 0
        BY <2>1
      <4>4. Len(lines') = 1
        BY <1>1, <4>1
      <4> QED
        BY <4>1, <4>2, <4>3, <4>4
    <3> QED
      BY <2>2, <3>1 DEF JunkIsLast
  <2>10. RowsAreLeft'
    BY <1>4, <1>7 DEF RowsAreLeft
  <2> QED
    BY <1>3, <1>5, <1>6, <2>8, <2>9, <2>10 DEF IInv
<1>8. CASE ~junk
  <2>1. RowsAreLeft' /\ FilesAreUsable'
    BY <1>8, PassingRows
  <2>2. JunkIsLast'
    BY <1>8 DEF JunkIsLast
  <2> QED
    BY <1>3, <1>5, <1>6, <2>1, <2>2 DEF IInv
<1> QED
  BY <1>7, <1>8

(* The listing fails: with ordinary names and styles no line gives reason.   *)
LEMMA FailingKeeps ==
    ASSUME IInv, pc = "parse", lines # <<>>,
           NEW f, f = ParseEntry(Head(lines)), ~Passes(Head(lines), f),
           pc' = "done", verdict' = "ProtocolError",
           UNCHANGED <<lines, index, files, path, wire, entries, junk>>
    PROVE  IInv'
<1>1. Typed' /\ Asked' /\ JunkIsLast' /\ RowsAreLeft'
  BY DEF IInv, Typed, Asked, JunkIsLast, RowsAreLeft
<1>2. FilesAreUsable'
  BY DEF IInv, FilesAreUsable, Usable
<1> DEFINE n == Len(entries)
           strange == {Row(Last(entries), s) : s \in Styles(Last(entries)) \cap {"posix_aligned", "dos_24h"}}
<1>3. ASSUME ~junk,
             \A i \in DOMAIN entries :
                Ordinary(entries[i].name) /\ (entries[i].type = "l" => Ordinary(entries[i].target)),
             \A i \in DOMAIN lines : lines[i] \notin strange
      PROVE  FALSE
  <2> HIDE DEF strange
  <2>1. /\ Len(lines) \in Nat \ {0} /\ DOMAIN lines = 1..Len(lines) /\ Head(lines) = lines[1]
    BY NextLine
  <2>2. PICK x \in 0..Len(lines), k \in 0..n, style \in Styles(Last(entries)) : Left(x, k, style)
    BY <1>3 DEF IInv, RowsAreLeft
  <2>3. entries # <<>> /\ entries \in Seq(EntryType) /\ n \in Nat /\ DOMAIN entries = 1..n
        /\ Last(entries) = entries[n]
    BY <1>3 DEF IInv, Typed, RowsAreLeft, Last
  <2>4. /\ Len(lines) = x + (n - k)
        /\ x > 0 => k = 0
        /\ \A i \in 1..x : Leading(i, lines[i])
        /\ \A i \in 1..(n - k) :
              lines[x + i] = Row(entries[k + i], IF k + i = n THEN style ELSE "posix")
    BY <2>2 DEF Left
  <2> DEFINE Fine(line) == /\ "B" \notin ToSet(line) /\ ~Ambiguous(line)
                           /\ ParseEntry(line).ok /\ NameAccepted(ParseEntry(line).name)
  <2> HIDE DEF n
  <2>5. ASSUME NEW i \in 1..x
        PROVE  Fine(lines[i]) \/ (i = 1 /\ index = 0 /\ lines[i] = Total)
    <3>1. CASE i = 1 /\ index = 0 /\ lines[i] = Total
      BY <3>1
    <3>2. CASE \E d \in DOMAIN SelfAndParent : lines[i] = Row(SelfAndParent[d], "posix")
      <4>1. PICK d \in DOMAIN SelfAndParent : lines[i] = Row(SelfAndParent[d], "posix")
        BY <3>2
      <4> DEFINE line == lines[i]
      <4>2. line = Row(SelfAndParent[d], "posix")
        BY <4>1
      <4> HIDE DEF line
      <4>3. Fine(line)
        BY <4>2, DotRow DEF NameAccepted
      <4> QED
        BY <4>3 DEF line
    <3>3. Leading(i, lines[i])
      BY <2>4
    <3> QED
      BY <3>1, <3>2, <3>3 DEF Leading
  <2>6. ASSUME NEW i \in 1..(n - k) PROVE Fine(lines[x + i])
    <3> DEFINE entry == entries[k + i]
               how == IF k + i = n THEN style ELSE "posix"
    <3>1. k + i \in 1..n /\ x + i \in 1..Len(lines)
      BY <2>1, <2>2, <2>3, <2>4
    <3>2. entry \in EntryType /\ Ordinary(entry.name) /\ (entry.type = "l" => Ordinary(entry.target))
      BY <1>3, <2>3, <3>1
    <3>3. lines[x + i] = Row(entry, how)
      BY <2>4
    <3>4. how \in Styles(entry)
      BY <2>2, <2>3, RowsThereAre
    <3>5. how \notin {"posix_aligned", "dos_24h"}
      <4>1. CASE k + i = n
        <5>1. lines[x + i] \notin strange /\ entry = Last(entries)
          BY <1>3, <2>1, <2>3, <3>1, <4>1
        <5> QED
          BY <3>3, <3>4, <5>1 DEF strange
      <4>2. CASE k + i # n
        BY <4>2
      <4> QED
        BY <4>1, <4>2
    <3> HIDE DEF entry, how
    <3> QED
      BY <3>2, <3>3, <3>4, <3>5, OrdinaryRow
  <2> DEFINE Good(i) == Fine(lines[i]) \/ (i = 1 /\ index = 0 /\ lines[i] = Total)
  <2>7. ASSUME NEW i \in 1..Len(lines) PROVE Good(i)
    <3>1. CASE i \in 1..x
      BY <2>5, <3>1
    <3>2. CASE i \notin 1..x
      <4> DEFINE j == i - x
      <4>1. j \in 1..(n - k) /\ x + j = i
        BY <2>1, <2>2, <2>3, <2>4, <3>2
      <4> HIDE DEF Fine, j
      <4>2. Fine(lines[x + j])
        BY <2>6, <4>1
      <4>3. Fine(lines[i])
        BY <4>1, <4>2
      <4> QED
        BY <4>3
    <3> QED
      BY <3>1, <3>2
  <2>8. "B" \notin ToSet(Total)
    BY DEF Total, ToSet
  <2>9. \A i \in DOMAIN lines : "B" \notin ToSet(lines[i])
    BY <2>1, <2>7, <2>8
  <2>10. ~IsTotal(index, Head(lines)) => ~Ambiguous(Head(lines)) /\ f.ok /\ NameAccepted(f.name)
    <3>1. 1 \in 1..Len(lines)
      BY <2>1
    <3>2. Good(1)
      BY <2>7, <3>1
    <3> QED
      BY <2>1, <3>2 DEF IsTotal
  <2> QED
    BY <2>9, <2>10 DEF Passes
<1>4. OrdinaryNamesAreListed
  BY DEF IInv
<1>5. OrdinaryNamesAreListed'
  BY <1>3 DEF OrdinaryNamesAreListed
<1> QED
  BY <1>1, <1>2, <1>5 DEF IInv

(* One turn of the loop of parse_list_lines.                                 *)
LEMMA ParseLineKeeps ==
    ASSUME IInv, ParseLine
    PROVE  IInv'
<1> DEFINE line == Head(lines)
           f == ParseEntry(line)
<1>1. pc = "parse" /\ lines # <<>> /\ UNCHANGED <<path, wire, entries, junk>>
  BY DEF ParseLine
<1>2. CASE Passes(line, f)
  <2>1. /\ lines' = Tail(lines) /\ index' = index + 1
        /\ files' = FilesAfter(line, f) /\ UNCHANGED <<pc, verdict>>
    BY <1>2 DEF ParseLine, Passes, NameAccepted, FilesAfter, Listed
  <2> QED
    BY <1>1, <1>2, <2>1, PassingKeeps
<1>3. CASE ~Passes(line, f)
  <2>1. pc' = "done" /\ verdict' = "ProtocolError" /\ UNCHANGED <<lines, index, files>>
    BY <1>3 DEF ParseLine, Passes, NameAccepted, Finish
  <2> QED
    BY <1>1, <1>3, <2>1, FailingKeeps
<1> QED
  BY <1>2, <1>3

-----------------------------------------------------------------------------
(* Whatever the paths, the entries and the junk are.                        *)

(* The invariant holds in every state of every listing, whatever the paths,  *)
(* the entries and the junk are: texts of any length, any number of any kind *)
(* of entry.                                                                 *)
THEOREM ListingIsInductive == Spec => []IInv
<1>1. Init => IInv
  BY InitIInv
<1>2. IInv /\ [Next]_vars => IInv'
  <2> SUFFICES ASSUME IInv, [Next]_vars PROVE IInv'
    OBVIOUS
  <2>1. CASE UNCHANGED vars
    <3>1. UNCHANGED <<pc, path, wire, entries, junk, lines, index, files, verdict>>
      BY <2>1 DEF vars
    <3>2. Typed' /\ Asked' /\ JunkIsLast' /\ OrdinaryNamesAreListed'
      BY <3>1 DEF IInv, Typed, Asked, JunkIsLast, OrdinaryNamesAreListed
    <3>3. FilesAreUsable'
      BY <3>1 DEF IInv, FilesAreUsable, Usable
    <3>4. RowsAreLeft'
      <4>1. \A m : FoundExactly(m)' = FoundExactly(m)
        BY <3>1 DEF FoundExactly, ReadRight
      <4>2. Distinct' = Distinct
        BY <3>1 DEF Distinct
      <4>3. \A x, k, style : Left(x, k, style)' = Left(x, k, style)
        BY <3>1 DEF Left, Leading
      <4> QED
        BY <3>1, <4>1, <4>2, <4>3 DEF IInv, RowsAreLeft
    <3> QED
      BY <3>2, <3>3, <3>4 DEF IInv
  <2> QED
    BY <2>1, AskKeeps, ReplyKeeps, ReplyWithJunkKeeps, ParseLineKeeps, ParsedAllKeeps DEF Next
<1> QED
  BY <1>1, <1>2, PTL DEF Spec

(* An accepted listing names every entry once, in order and exactly, unless  *)
(* two arrows of a link share a blank (parse_list_lines with                 *)
(* reject_ambiguous_list_name and ListParser): for names of any length, in a *)
(* directory of one entry of any kind and perhaps a plain file.              *)
THEOREM NamesAreExactAlways == Spec => []NamesAreExact
<1>1. IInv => NamesAreExact
  <2> SUFFICES ASSUME IInv, Accepted, ~junk, Distinct
               PROVE  Len(files) = Len(entries) /\ \A i \in DOMAIN files : ReadRight(files[i], entries[i])
    BY DEF NamesAreExact, Distinct
  <2>1. Len(files) = Len(entries) /\ \A i \in 1..Len(entries) : ReadRight(files[i], entries[i])
    BY DEF IInv, RowsAreLeft, FoundExactly, Accepted
  <2>2. DOMAIN files = 1..Len(files)
    BY DEF IInv, Typed
  <2> QED
    BY <2>1, <2>2
<1> QED
  BY <1>1, ListingIsInductive, PTL

(* The guards that refuse ambiguous rows never cost an ordinary name: a      *)
(* listing of those fails in the aligned POSIX and the 24-hour DOS format    *)
(* only.                                                                     *)
THEOREM OrdinaryNamesAreListedAlways == Spec => []OrdinaryNamesAreListed
<1>1. IInv => OrdinaryNamesAreListed
  BY DEF IInv
<1> QED
  BY <1>1, ListingIsInductive, PTL

(* No line that is not an entry is passed over by an accepted listing        *)
(* (parse_list_line's error, the count of blocks being skipped as the first  *)
(* line only).                                                               *)
THEOREM JunkFailsTheListingAlways == Spec => []JunkFailsTheListing
<1>1. IInv => JunkFailsTheListing
  BY DEF IInv, RowsAreLeft, JunkFailsTheListing, Accepted
<1> QED
  BY <1>1, ListingIsInductive, PTL

(* What a listing returns can be asked for in turn, and is found directly    *)
(* below what was listed (validate_list_child_name with remote_path).        *)
THEOREM ListedPathsAreUsableAlways == Spec => []ListedPathsAreUsable
<1>1. IInv => ListedPathsAreUsable
  BY DEF IInv, FilesAreUsable, Usable, ListedPathsAreUsable
<1> QED
  BY <1>1, ListingIsInductive, PTL

(* A path that is sent has no control character, and names on the server     *)
(* what it names here (remote_path).                                         *)
THEOREM WireNamesThePathAlways == Spec => []WireNamesThePath
<1>1. IInv => WireNamesThePath
  <2> SUFFICES ASSUME IInv, wire # <<>>
               PROVE  "C" \notin ToSet(wire) /\ Resolved(wire) = Components(path)
    BY DEF WireNamesThePath
  <2>1. wire = path /\ path \in Seq(Characters) /\ ~InvalidPath(path)
    BY DEF IInv, Asked
  <2>2. "C" \notin ToSet(wire)
    BY <2>1 DEF InvalidPath, ToSet
  <2>3. Components(path) \in Seq(Seq(Characters))
    BY <2>1, ComponentsAreTexts
  <2>4. Resolved(path) = Components(path)
    <3> DEFINE c == Components(path)
    <3>1. DotDot \notin ToSet(c)
      BY <2>1 DEF InvalidPath
    <3> HIDE DEF c
    <3>2. FoldLeft(Follow, <<>>, c) = c
      BY <2>3, <3>1, PlainWay DEF c
    <3> QED
      BY <3>2 DEF Resolved, c
  <2> QED
    BY <2>1, <2>2, <2>4
<1> QED
  BY <1>1, ListingIsInductive, PTL
=============================================================================
