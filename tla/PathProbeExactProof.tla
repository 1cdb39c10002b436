------------------------ MODULE PathProbeExactProof ------------------------
(***************************************************************************)
(* What the detour through LIST claims is true, and exact when nothing     *)
(* interferes: for trees of every shape and depth.                         *)
(*                                                                         *)
(* The answers of stat and of list_dir mean something of the server         *)
(* (StatSays, ListSays): a definite one was true in some tree of the past,  *)
(* and it is what SeenAt and SeenIn see if the operation has been Calm and *)
(* the way to the path is Clear.  A frame that waits has seen part of this *)
(* (Knows), an ancestor probe has seen everything below where it is absent *)
(* (Climbs), and the frame on top has just Heard the answer it called for. *)
(*                                                                         *)
(* Every step is Steady: what holds of the past goes on holding, and who    *)
(* is calm has been calm before.  So what the other frames know is kept,    *)
(* and the step of an action is about the frame on top alone: it calls     *)
(* (CallSays), returns to a frame (the lemmas named ...Says), or ends the  *)
(* operation (Ended), whose answer is then read off the last one of stat   *)
(* or list_dir (StatEnds, ListEnds, ParentEnds).                           *)
(***************************************************************************)
EXTENDS PathProbeProof, FiniteSetTheorems

-----------------------------------------------------------------------------
(* Answers of stat and list_dir.                                           *)

(* Nobody has interfered with the operation so far.                        *)
Calm == ~disturbed /\ past = {tree}

(* What holds of the past goes on holding; what is said of the tree as it  *)
(* is was said before, as long as nobody interferes.                       *)
Steady ==
    /\ past \subseteq past' /\ (disturbed => disturbed')
    /\ UNCHANGED <<style, op, path, dest>>
    /\ Calm' => Calm /\ tree' = tree

(* Something is in the directory p.                                        *)
FilledIn(t, p) == \E q \in Nodes : Parent(q) = p /\ t[q] # "none"

(* LIST of p is refused with 550 in tree t.                                *)
Refusing(t, p) ==
    KindIn(t, p) \in {"none", "locked"} \/ (KindIn(t, p) = "file" /\ style = "refused")

(* A file at the parent of p, whose listing shows p.                       *)
Mirrored(t, p) ==
    /\ Len(p) > 1 /\ Last(p) = Last(Parent(p))
    /\ style = "entry"
    /\ KindIn(t, Parent(p)) = "file"

(* Right, but for the ambiguity that stat accepts.                         *)
FileSeen(p) ==
    \E t \in past :
        \/ KindIn(t, p) = "file"
        \/ Mirrored(t, p) /\ Undecidable(t, Parent(p))

(* What the answer v of stat(p) says of the server.                        *)
StatSays(p, v) ==
    /\ v = "file" => FileSeen(p)
    /\ v = "dir" => \E t \in past : IsDir(KindIn(t, p))
    /\ v = "link" => \E t \in past : KindIn(t, p) = "link"
    /\ v = "BadFile" =>
          \E t \in past : /\ KindIn(t, p) = "none"
                          /\ \E i \in 1..(Len(p) - 1) : KindIn(t, SubSeq(p, 1, i)) = "file"
    /\ v = "PermissionDenied" => disturbed \/ \E t \in past : Refusing(t, Parent(p))
    /\ v = "Broken" => disturbed
    /\ Calm /\ Clear(p) => v = SeenAt(p)

(* What list_dir tells somebody who sees the tree.                         *)
Contents(p) == IF FilledIn(tree, p) THEN "entries" ELSE "empty"

(* The same of anything: somebody who sees the tree, asked for a listing.   *)
SeenIn(p) ==
    IF KindIn(tree, p) = "none" THEN "NoSuchFileOrDirectory"
    ELSE IF Refusing(tree, p) THEN "PermissionDenied"
    ELSE IF KindIn(tree, p) = "file" THEN "BadFile" ELSE Contents(p)

(* The tree t is one that a listing v of p shows.                          *)
Shown(t, p, v) ==
    /\ v = "entries" => FilledIn(t, p)
    /\ v = "empty" => KindIn(t, p) \in {"dir", "link"}

(* What the answer v of list_dir(p) says of the server.                    *)
ListSays(p, v) ==
    /\ v = "BadFile" => FileSeen(p)
    /\ v \in {"entries", "empty"} =>
          \E t \in past : \/ Shown(t, p, v)
                          \/ p # Root /\ style # "refused" /\ Undecidable(t, p)
    /\ Calm /\ Clear(p) => v = SeenIn(p)

(* What a frame knows while it waits.                                      *)
Knows(f) ==
    LET p == f.path
    IN  /\ f.at = "stat_absent" =>
              /\ \E t \in past : Refusing(t, Parent(p))
              /\ Calm /\ Clear(p) => KindIn(tree, p) = "none"
        /\ f.at = "stat_parent" =>
              /\ f.keep \in {"file", "NoSuchFileOrDirectory"}
              /\ f.keep = "file" => \E t \in past : KindIn(t, p) = "file" \/ Mirrored(t, p)
              /\ Calm /\ Clear(p) => f.keep = SeenAt(p) /\ KindIn(tree, Parent(p)) = "dir"
        /\ f.at = "list_absent" => (Calm => Refusing(tree, p))
        /\ f.at = "list_confirm" =>
              /\ p # Root
              /\ \E t \in past : \/ Shown(t, p, f.keep)
                                 \/ KindIn(t, p) = "file" /\ style # "refused"
              /\ Calm => ~Refusing(tree, p) /\ (KindIn(tree, p) # "file" => f.keep = Contents(p))
        /\ f.at = "destination_parent" /\ Calm /\ Clear(path) =>
              (op = "rename_refusal" <=> SeenAt(path) # "NoSuchFileOrDirectory")
        /\ f.at = "remove_dir_contents" /\ Calm /\ Clear(p) => SeenAt(p) = "dir"

(* A caller c whose path is plainly absent can count on its ancestor probe. *)
Provable(c) == Calm /\ Clear(c.path) /\ KindIn(tree, c.path) = "none"

(* How far the ancestor probe f of c has come.                             *)
Climbs(c, f) ==
    f.at = "ancestor" =>
        /\ Len(f.path) <= Len(c.path)
        /\ f.path = SubSeq(c.path, 1, Len(f.path))
        /\ f.tries <= Len(c.path) - Len(f.path)
        /\ Provable(c) => \A i \in Len(f.path)..Len(c.path) :
                             KindIn(tree, SubSeq(c.path, 1, i)) = "none"

(* What the last call has told the frame it returned to.                   *)
Heard(c) ==
    /\ c.at \in {"stat_absent", "list_absent"} /\ Provable(c) => ret = "absent"
    /\ c.at \in {"stat_parent", "destination_parent"} => StatSays(Parent(c.path), ret)
    /\ c.at \in {"list_confirm", "exists"} \cup Classified => StatSays(c.path, ret)
    /\ c.at = "remove_dir_contents" => ListSays(c.path, ret)

(* What the frames of the stack know of each other.                        *)
FramesInv ==
    /\ \A i \in 1..Len(stack) : Knows(stack[i])
    /\ \A i \in 1..(Len(stack) - 1) : Climbs(stack[i], stack[i + 1])
    /\ stack # <<>> => Top.at \in Running \/ Heard(Top)

(* The inductive invariant, beside IInv.                                   *)
AnswersInv == FramesInv /\ ClaimsAreReal /\ ExactWhenListable

-----------------------------------------------------------------------------
(* Paths and trees.                                                        *)

(* A path, its parent and its prefixes.                                    *)
LEMMA PathPrefixes ==
    ASSUME NEW p \in Nodes
    PROVE  /\ Parent(p) = SubSeq(p, 1, Len(p) - 1)
           /\ SubSeq(p, 1, Len(p)) = p /\ SubSeq(p, 1, 0) = Root
           /\ \A i \in 1..(Len(p) - 1) : SubSeq(Parent(p), 1, i) = SubSeq(p, 1, i)
           /\ p = Append(Parent(p), Last(p))
<1>1. p \in Seq(Range(p)) /\ p # <<>> /\ Len(p) \in Nat \ {0}
  BY PathProbeAssumption, PathLengths DEF Root, Paths
<1>2. Parent(p) = SubSeq(p, 1, Len(p) - 1)
  BY DEF Parent, Front
<1>3. SubSeq(p, 1, Len(p)) = p
  BY <1>1, SubSeqFull
<1>4. SubSeq(p, 1, 0) = Root
  BY SubSeqEmpty DEF Root
<1>5. ASSUME NEW i \in 1..(Len(p) - 1) PROVE SubSeq(Parent(p), 1, i) = SubSeq(p, 1, i)
  <2>1. \A n \in Nat \ {0} : \A k \in 1..(n - 1) :
           /\ 1 \in 1..n /\ n - 1 \in 1..n
           /\ 1 \in 1..(n - 1 - 1 + 1) /\ k \in 1..(n - 1 - 1 + 1)
           /\ 1 + 1 - 1 = 1 /\ 1 + k - 1 = k
    OBVIOUS
  <2>2. /\ 1 \in 1..Len(p) /\ Len(p) - 1 \in 1..Len(p)
        /\ 1 \in 1..(Len(p) - 1 - 1 + 1) /\ i \in 1..(Len(p) - 1 - 1 + 1)
        /\ 1 + 1 - 1 = 1 /\ 1 + i - 1 = i
    BY <1>1, <2>1
  <2>3. SubSeq(SubSeq(p, 1, Len(p) - 1), 1, i) = SubSeq(p, 1 + 1 - 1, 1 + i - 1)
    BY <1>1, <2>2, SubSeqOfSubSeq
  <2> QED
    BY <1>2, <2>2, <2>3
<1>6. p = Append(Parent(p), Last(p))
  <2>1. 1 \in 1..Len(p) /\ Len(p) \in 1..Len(p)
    BY <1>1
  <2>2. SubSeq(p, 1, Len(p)) = SubSeq(p, 1, Len(p) - 1) \o <<p[Len(p)]>>
    BY <1>1, <2>1, SubSeqRecursiveSecond
  <2>3. Parent(p) \in Seq(Range(p)) /\ p[Len(p)] \in Range(p)
    BY <1>1, FrontFacts DEF Parent, Last
  <2>4. Append(Parent(p), p[Len(p)]) = Parent(p) \o <<p[Len(p)]>>
    BY <2>3, AppendIsConcat
  <2> QED
    BY <1>2, <1>3, <2>2, <2>4 DEF Last
<1> QED
  BY <1>2, <1>3, <1>4, <1>5, <1>6

(* The name of a child is the last of its path.                            *)
LEMMA ChildName ==
    ASSUME NEW p \in Nodes, NEW x
    PROVE  Child(Parent(p), x) = p <=> Last(p) = x
<1> DEFINE q == Parent(p)
<1>1. q \in Seq(Range(p) \cup {x}) /\ x \in Range(p) \cup {x}
  <2>1. p \in Seq(Range(p)) /\ p # <<>>
    BY PathProbeAssumption DEF Root
  <2>2. q \in Seq(Range(p))
    BY <2>1, FrontFacts DEF Parent
  <2>3. Seq(Range(p)) \subseteq Seq(Range(p) \cup {x})
    <3>1. ASSUME NEW s \in Seq(Range(p)) PROVE s \in Seq(Range(p) \cup {x})
      <4>1. /\ Len(s) \in Nat /\ s \in [1..Len(s) -> Range(p)]
        BY LenProperties
      <4>2. s \in [1..Len(s) -> Range(p) \cup {x}]
        BY <4>1
      <4> QED
        BY <4>1, <4>2, SeqDef
    <3> QED
      BY <3>1
  <2> QED
    BY <2>2, <2>3
<1>2. /\ Len(Append(q, x)) = Len(q) + 1 /\ Append(q, x)[Len(q) + 1] = x
  BY <1>1, AppendProperties
<1>3. Last(Append(q, x)) = x
  BY <1>2 DEF Last
<1>4. p = Append(q, Last(p))
  BY PathPrefixes
<1> QED
  BY <1>3, <1>4 DEF Child

(* The root is a directory, and has no parent but itself.                  *)
LEMMA RootFacts ==
    /\ \A t \in Trees : IsDir(KindIn(t, Root))
    /\ \A p \in Paths \ {Root} : p \in Nodes
    /\ Parent(Root) = Root
<1>1. Parent(Root) = Root
  <2>1. Len(Root) - 1 < 1 /\ Len(Root) - 1 \in Int
    BY PathLengths
  <2> QED
    BY <2>1, SubSeqEmpty DEF Parent, Front, Root
<1> QED
  BY <1>1 DEF Trees, KindIn, Paths

(* What a tree can have at a path.                                         *)
LEMMA Kinds ==
    ASSUME NEW t \in Trees, NEW p
    PROVE  /\ KindIn(t, p) \in {"none", "file", "dir", "locked", "link"}
           /\ p \in Nodes => KindIn(t, p) = t[p]
<1>1. t[Root] \in {"none", "file", "dir", "locked", "link"}
  BY DEF Trees
<1>2. \A q \in Nodes : q # Root /\ t[q] \in {"none", "file", "dir", "locked", "link"}
  BY ParentIsAPath DEF Trees
<1> QED
  BY <1>1, <1>2 DEF KindIn

(* What can be said of the parent of a path that is clear.                 *)
LEMMA ClearParent ==
    ASSUME NEW p \in Nodes, Clear(p)
    PROVE  Clear(Parent(p)) /\ KindIn(tree, Parent(p)) \notin {"file", "locked"}
<1> DEFINE q == Parent(p)
           Gaps(r) == {i \in 1..Len(r) : KindIn(tree, SubSeq(r, 1, i)) = "none"}
<1>1. Len(p) \in Nat \ {0} /\ Len(q) = Len(p) - 1
  BY PathLengths DEF Paths
<1>2. \A i \in 0..(Len(p) - 1) : SubSeq(q, 1, i) = SubSeq(p, 1, i)
  <2>1. SubSeq(q, 1, 0) = <<>> /\ SubSeq(p, 1, 0) = <<>>
    BY SubSeqEmpty
  <2>2. \A n \in Nat \ {0} : \A i \in 0..(n - 1) : i = 0 \/ i \in 1..(n - 1)
    OBVIOUS
  <2> QED
    BY <1>1, <2>1, <2>2, PathPrefixes
<1>3. \A i \in 0..(Len(p) - 1) : KindIn(tree, SubSeq(p, 1, i)) \notin {"file", "locked"}
  BY DEF Clear
<1>4. KindIn(tree, q) \notin {"file", "locked"}
  <2>1. Len(p) - 1 \in 0..(Len(p) - 1) /\ q = SubSeq(p, 1, Len(p) - 1)
    BY <1>1, PathPrefixes
  <2> QED
    BY <1>3, <2>1
<1>5. \A i \in 0..(Len(q) - 1) : KindIn(tree, SubSeq(q, 1, i)) \notin {"file", "locked"}
  <2>1. \A n \in Nat \ {0} : \A i \in 0..(n - 1 - 1) : i \in 0..(n - 1)
    OBVIOUS
  <2> QED
    BY <1>1, <1>2, <1>3, <2>1
<1>6. Gaps(q) \subseteq Gaps(p)
  <2>1. \A n \in Nat \ {0} : \A i \in 1..(n - 1) : i \in 1..n /\ i \in 0..(n - 1)
    OBVIOUS
  <2> QED
    BY <1>1, <1>2, <2>1
<1>7. IsFiniteSet(Gaps(p)) /\ Gaps(p) \subseteq 1..Len(p)
  <2>1. Len(p) \in Int /\ 1 \in Int
    BY <1>1
  <2> QED
    BY <2>1, FS_Interval, FS_Subset
<1>8. Cardinality(Gaps(q)) <= Cardinality(Gaps(p)) /\ Cardinality(Gaps(p)) <= MaxAncestors
  BY <1>6, <1>7, FS_Subset DEF Clear
<1>9. Cardinality(Gaps(q)) \in Nat /\ Cardinality(Gaps(p)) \in Nat
  BY <1>6, <1>7, FS_Subset, FS_CardinalityType
<1>10. Cardinality(Gaps(q)) <= MaxAncestors
  BY <1>8, <1>9, PathProbeAssumption
<1> QED
  BY <1>4, <1>5, <1>10 DEF Clear

(* What is absent under a clear path is within reach of the probe.         *)
LEMMA ClearReach ==
    ASSUME NEW p \in Nodes, Clear(p), NEW k \in 1..Len(p),
           \A i \in k..Len(p) : KindIn(tree, SubSeq(p, 1, i)) = "none"
    PROVE  Len(p) - k < MaxAncestors
<1> DEFINE gaps == {i \in 1..Len(p) : KindIn(tree, SubSeq(p, 1, i)) = "none"}
<1>1. Len(p) \in Nat /\ Len(p) \in Int /\ k \in Int /\ ~(k > Len(p)) /\ 1 \in Int
  BY PathLengths DEF Paths
<1>2. k..Len(p) \subseteq gaps
  BY <1>1
<1>3. IsFiniteSet(1..Len(p)) /\ gaps \subseteq 1..Len(p)
  BY <1>1, FS_Interval
<1>4. IsFiniteSet(gaps)
  BY <1>3, FS_Subset
<1>5. Cardinality(gaps) <= MaxAncestors
  BY DEF Clear
<1> HIDE DEF gaps
<1>6. Cardinality(k..Len(p)) <= Cardinality(gaps) /\ Cardinality(gaps) \in Nat
  BY <1>2, <1>4, FS_Subset, FS_CardinalityType
<1>7. Cardinality(k..Len(p)) = Len(p) - k + 1
  BY <1>1, FS_Interval
<1> QED
  BY <1>1, <1>5, <1>6, <1>7, PathProbeAssumption

-----------------------------------------------------------------------------
(* What goes on holding.                                                   *)

(* A step without a LIST.                                                  *)
LEMMA LocalSteady == LocalStep => Steady
BY DEF LocalStep, Steady, Calm, world

(* A LIST changes nothing but whether it has failed.                       *)
LEMMA ListSteady == ASSUME NEW answer, ListStep(answer) PROVE Steady
BY DEF ListStep, Steady, Calm, world

(* Another client makes the past longer.                                   *)
LEMMA ChangeSteady == IInv /\ Change => Steady
BY DEF IInv, PastInv, Change, Steady, Calm, Idle, probe

(* The parts of what is said.                                              *)
LEMMA PartsKept ==
    ASSUME Steady
    PROVE  /\ \A t, p : Refusing(t, p)' <=> Refusing(t, p)
           /\ \A t, p : Mirrored(t, p)' <=> Mirrored(t, p)
           /\ \A t, p : Undecidable(t, p) => Undecidable(t, p)'
           /\ Calm' => Calm /\ tree' = tree
           /\ \A p : Calm' => (Clear(p)' <=> Clear(p)) /\ SeenAt(p)' = SeenAt(p)
                              /\ SeenIn(p)' = SeenIn(p) /\ Contents(p)' = Contents(p)
           /\ \A t, p, v : Shown(t, p, v)' <=> Shown(t, p, v)
<1>1. past \subseteq past' /\ (disturbed => disturbed') /\ style' = style
      /\ (Calm' => Calm /\ tree' = tree)
  BY DEF Steady
<1>2. \A t, p : Refusing(t, p)' <=> Refusing(t, p)
  BY <1>1 DEF Refusing, KindIn
<1>3. \A t, p : Mirrored(t, p)' <=> Mirrored(t, p)
  BY <1>1 DEF Mirrored, KindIn
<1>4. \A t, p : Undecidable(t, p) => Undecidable(t, p)'
  BY <1>1 DEF Undecidable, KindIn
<1>5. \A p : Calm' => (Clear(p)' <=> Clear(p)) /\ SeenAt(p)' = SeenAt(p)
                      /\ Contents(p)' = Contents(p)
  BY <1>1 DEF Clear, SeenAt, Contents, FilledIn
<1>6. \A p : Calm' => SeenIn(p)' = SeenIn(p)
  <2>1. \A p : Calm' => (Refusing(tree, p)' <=> Refusing(tree, p))
    BY <1>1, <1>2 DEF Refusing, KindIn
  <2> QED
    BY <1>1, <1>5, <2>1 DEF SeenIn, KindIn
<1>7. \A t, p, v : Shown(t, p, v)' <=> Shown(t, p, v)
  BY DEF Shown, FilledIn, KindIn
<1> QED
  BY <1>1, <1>2, <1>3, <1>4, <1>5, <1>6, <1>7

(* What stat has said.                                                     *)
LEMMA StatSaysKept ==
    ASSUME Steady, NEW p, NEW v, StatSays(p, v)
    PROVE  StatSays(p, v)'
<1>1. past \subseteq past' /\ (disturbed => disturbed')
  BY DEF Steady
<1>2. FileSeen(p) => FileSeen(p)'
  BY <1>1, PartsKept DEF FileSeen, KindIn
<1>3. (v = "PermissionDenied" => disturbed \/ \E t \in past : Refusing(t, Parent(p)))'
  BY <1>1, PartsKept DEF StatSays
<1>4. (Calm /\ Clear(p) => v = SeenAt(p))'
  BY PartsKept DEF StatSays
<1> QED
  BY <1>1, <1>2, <1>3, <1>4 DEF StatSays, KindIn, IsDir

(* What list_dir has said.                                                 *)
LEMMA ListSaysKept ==
    ASSUME Steady, NEW p, NEW v, ListSays(p, v)
    PROVE  ListSays(p, v)'
<1>1. past \subseteq past' /\ style' = style
  BY DEF Steady
<1>2. FileSeen(p) => FileSeen(p)'
  BY <1>1, PartsKept DEF FileSeen, KindIn
<1>3. (Calm /\ Clear(p) => v = SeenIn(p))'
  BY PartsKept DEF ListSays
<1> QED
  BY <1>1, <1>2, <1>3, PartsKept DEF ListSays

(* What a frame knows.                                                     *)
LEMMA KnowsKept ==
    ASSUME Steady, NEW f, Knows(f)
    PROVE  Knows(f)'
<1> DEFINE p == f.path
<1>1. past \subseteq past' /\ UNCHANGED <<style, op, path>>
  BY DEF Steady
<1>2. \A q : Calm' => KindIn(tree, q)' = KindIn(tree, q)
  BY PartsKept DEF KindIn
<1>3. \A q : Calm' => (Refusing(tree, q)' <=> Refusing(tree, q))
  BY PartsKept
<1>4. CASE f.at = "stat_absent"
  BY <1>1, <1>2, <1>4, PartsKept DEF Knows
<1>5. CASE f.at = "stat_parent"
  <2>1. (f.keep = "file" => \E t \in past : KindIn(t, p) = "file" \/ Mirrored(t, p))'
    BY <1>1, <1>5, PartsKept DEF Knows, KindIn
  <2> QED
    BY <1>2, <1>5, <2>1, PartsKept DEF Knows
<1>6. CASE f.at = "list_absent"
  BY <1>3, <1>6, PartsKept DEF Knows
<1>7. CASE f.at = "list_confirm"
  <2>1. (\E t \in past : \/ Shown(t, p, f.keep)
                         \/ KindIn(t, p) = "file" /\ style # "refused")'
    BY <1>1, <1>7, PartsKept DEF Knows, KindIn
  <2> QED
    BY <1>2, <1>3, <1>7, <2>1, PartsKept DEF Knows
<1>8. CASE f.at \in {"destination_parent", "remove_dir_contents"}
  BY <1>1, <1>8, PartsKept DEF Knows
<1> QED
  BY <1>4, <1>5, <1>6, <1>7, <1>8 DEF Knows

(* What can be proved absent, and how far its probe has come.              *)
LEMMA ClimbsKept ==
    ASSUME Steady, NEW c
    PROVE  /\ Provable(c)' => Provable(c)
           /\ \A f : Climbs(c, f) => Climbs(c, f)'
<1>1. Provable(c)' => Provable(c) /\ tree' = tree
  BY PartsKept DEF Provable, KindIn
<1> QED
  BY <1>1 DEF Climbs, KindIn

-----------------------------------------------------------------------------
(* LIST.                                                                   *)

(* A LIST that nothing disturbs says what the tree is.                     *)
LEMMA TrueAnswers ==
    ASSUME NEW p, NEW answer \in ListDirRaw(p)
    PROVE  /\ answer.tag \in {"ok", "refused", "denied", "broken"}
           /\ answer.tag \in {"ok", "refused"} => answer = Listing(p)
           /\ answer.tag \in {"denied", "broken"} /\ ListStep(answer) => disturbed'
<1>1. answer = Listing(p) \/ answer.tag \in {"denied", "broken"}
  BY DEF ListDirRaw, Failed
<1>2. Listing(p).tag \in {"ok", "refused"}
  BY DEF Listing, Listed, Failed
<1> QED
  BY <1>1, <1>2 DEF ListStep

(* Which listings come.                                                    *)
LEMMA ListingComes ==
    ASSUME tree \in Trees, style \in Styles, NEW p
    PROVE  /\ Listing(p).tag = "refused" <=> Refusing(tree, p)
           /\ Listing(p).tag \in {"ok", "refused"}
BY Kinds DEF Listing, Refusing, Listed, Failed, Styles

(* What stat makes of the listing of the parent: what is there, unless the *)
(* parent is a file that is listed under its own name.                     *)
LEMMA LookupSays ==
    ASSUME tree \in Trees, style \in Styles, NEW p \in Nodes, Listing(Parent(p)).tag = "ok"
    PROVE  LET q == Parent(p)
               entries == Listing(q).entries
               found == Lookup(p, entries)
           IN  \/ found = SeenAt(p) /\ KindIn(tree, q) # "file"
               \/ found = SeenAt(p) /\ entries = {}
               \/ /\ LooksLikeFile(q, entries) /\ q # Root
                  /\ KindIn(tree, q) = "file" /\ style = "entry"
                  /\ found \in {"file", "NoSuchFileOrDirectory"}
                  /\ found = "file" => Last(p) = Last(q)
<1> DEFINE q == Parent(p)
           entries == Listing(q).entries
           found == Lookup(p, entries)
<1>1. CASE KindIn(tree, q) = "dir"
  <2>1. entries = Children(q)
    BY <1>1 DEF Listing, Listed
  <2>2. KindIn(tree, p) = tree[p] /\ p # Root
    BY Kinds, ParentIsAPath
  <2>3. CASE tree[p] = "none"
    <3>1. \A e \in entries : e.path # p
      BY <2>1, <2>3 DEF Children, Entry
    <3> QED
      BY <1>1, <2>2, <2>3, <3>1 DEF Lookup, SeenAt
  <2>4. CASE tree[p] # "none"
    <3>1. Entry(p, tree[p]) \in entries /\ Entry(p, tree[p]).path = p
      BY <2>1, <2>4 DEF Children, Entry
    <3>2. \A e \in entries : e.path = p => e = Entry(p, tree[p])
      BY <2>1 DEF Children, Entry
    <3>3. (CHOOSE e \in entries : e.path = p) = Entry(p, tree[p])
      BY <3>1, <3>2
    <3>5. Entry(p, tree[p]).kind = FileTypeOf(tree[p])
      BY DEF Entry
    <3>4. found = FileTypeOf(tree[p])
      BY <3>1, <3>3, <3>5 DEF Lookup
    <3> QED
      BY <1>1, <2>2, <2>4, <3>4 DEF SeenAt
  <2> QED
    BY <2>3, <2>4
<1>2. CASE KindIn(tree, q) # "dir" /\ entries = {}
  <2>1. KindIn(tree, q) \notin {"locked", "dir"}
    BY <1>2, Kinds DEF Listing, Failed
  <2>2. KindIn(tree, p) = "none"
    BY <2>1, NothingBelowNothing DEF IsDir
  <2> QED
    BY <1>2, <2>2 DEF Lookup, SeenAt
<1>3. CASE KindIn(tree, q) # "dir" /\ entries # {}
  <2> DEFINE e1 == Entry(Child(q, Last(q)), "file")
  <2>1. KindIn(tree, q) = "file" /\ style = "entry" /\ entries = {e1}
    BY <1>3 DEF Listing, Listed, Failed
  <2>2. q # Root
    BY <2>1, RootFacts DEF IsDir
  <2>3. e1.path = Child(q, Last(q)) /\ e1.kind = "file"
    BY DEF Entry, FileTypeOf
  <2> HIDE DEF e1
  <2>4. CASE e1.path = p
    <3>1. (CHOOSE e \in entries : e.path = p) = e1
      BY <2>1, <2>4
    <3>2. found = "file"
      BY <2>1, <2>3, <2>4, <3>1 DEF Lookup
    <3>3. Last(p) = Last(q)
      BY <2>3, <2>4, ChildName
    <3> QED
      BY <2>1, <2>2, <3>2, <3>3 DEF LooksLikeFile, e1
  <2>5. CASE e1.path # p
    <3>1. found = "NoSuchFileOrDirectory"
      BY <2>1, <2>5 DEF Lookup
    <3> QED
      BY <2>1, <2>2, <3>1 DEF LooksLikeFile, e1
  <2> QED
    BY <2>4, <2>5
<1> QED
  BY <1>1, <1>2, <1>3

(* What list_dir makes of a listing: the contents, unless p is a file.     *)
LEMMA ListingSays ==
    ASSUME tree \in Trees, style \in Styles, NEW p \in Paths, Listing(p).tag = "ok"
    PROVE  LET entries == Listing(p).entries
               result == IF entries = {} THEN "empty" ELSE "entries"
           IN  /\ ~Refusing(tree, p)
               /\ \/ /\ KindIn(tree, p) = "file" /\ style # "refused" /\ p # Root
                     /\ LooksLikeFile(p, entries) \/ entries = {}
                  \/ /\ KindIn(tree, p) # "file"
                     /\ result = Contents(p) /\ Shown(tree, p, result)
<1> DEFINE entries == Listing(p).entries
           result == IF entries = {} THEN "empty" ELSE "entries"
<1>1. ~Refusing(tree, p)
  BY ListingComes
<1>2. CASE KindIn(tree, p) = "dir"
  <2>1. entries = Children(p)
    BY <1>2 DEF Listing, Listed
  <2>2. entries # {} <=> FilledIn(tree, p)
    BY <2>1 DEF Children, FilledIn
  <2> QED
    BY <1>1, <1>2, <2>2 DEF Contents, Shown
<1>3. CASE KindIn(tree, p) = "link"
  <2>1. entries = {}
    BY <1>3 DEF Listing, Listed
  <2>2. ~FilledIn(tree, p)
    <3>1. \A q \in Nodes : Parent(q) = p => tree[q] = "none"
      BY <1>3, NothingBelowNothing, Kinds DEF IsDir
    <3> QED
      BY <3>1 DEF FilledIn
  <2> QED
    BY <1>1, <1>3, <2>1, <2>2 DEF Contents, Shown
<1>4. CASE KindIn(tree, p) = "file"
  <2>1. p # Root
    BY <1>4, RootFacts DEF IsDir
  <2>2. style # "refused"
    BY <1>1, <1>4 DEF Refusing
  <2>3. entries = {} \/ LooksLikeFile(p, entries)
    BY <1>4, <2>1, <2>2 DEF Listing, Listed, LooksLikeFile, Styles
  <2> QED
    BY <1>1, <1>4, <2>1, <2>2, <2>3
<1> QED
  BY <1>1, <1>2, <1>3, <1>4, Kinds DEF Refusing

-----------------------------------------------------------------------------
(* The stack.                                                              *)

(* What the invariant says of the frame on top.                            *)
LEMMA TopKnows ==
    ASSUME IInv, FramesInv, stack # <<>>
    PROVE  /\ Knows(Top) /\ (Top.at \in Running \/ Heard(Top))
           /\ Len(stack) > 1 => Climbs(stack[Len(stack) - 1], Top)
           /\ tree \in past /\ past \subseteq Trees /\ tree \in Trees /\ style \in Styles
<1>1. Len(stack) \in Nat \ {0} /\ Top = stack[Len(stack)] /\ op \in Ops
  BY TopFacts
<1>2. Knows(Top) /\ (Top.at \in Running \/ Heard(Top))
  BY <1>1 DEF FramesInv
<1>3. Len(stack) > 1 => Climbs(stack[Len(stack) - 1], Top)
  <2> SUFFICES ASSUME Len(stack) > 1 PROVE Climbs(stack[Len(stack) - 1], Top)
    OBVIOUS
  <2>1. \A n \in Nat \ {0} : n > 1 => n - 1 \in 1..(n - 1) /\ (n - 1) + 1 = n
    OBVIOUS
  <2>2. Len(stack) - 1 \in 1..(Len(stack) - 1) /\ (Len(stack) - 1) + 1 = Len(stack)
    BY <1>1, <2>1
  <2>3. Climbs(stack[Len(stack) - 1], stack[(Len(stack) - 1) + 1])
    BY <2>2 DEF FramesInv
  <2> QED
    BY <1>1, <2>2, <2>3
<1>4. tree \in past /\ past \subseteq Trees /\ tree \in Trees /\ style \in Styles
  BY <1>1 DEF IInv, PastInv, TypeOK, Ops, Classified
<1> QED
  BY <1>2, <1>3, <1>4

(* What a callee may say is what its caller hears.                         *)
LEMMA Reheard ==
    ASSUME NEW c, NEW f, Calls(c, f), NEW v, ret' = v,
           f.at \in StatLabels => StatSays(f.path, v)',
           f.at \in ListLabels => ListSays(f.path, v)',
           f.at = "ancestor" => (Provable(c)' => v = "absent")
    PROVE  Heard(c)'
<1>1. CASE c.at \in {"stat_absent", "list_absent"} /\ f.at = "ancestor"
  BY <1>1 DEF Heard, Classified
<1>2. CASE c.at \in {"stat_parent", "destination_parent"} /\ f.at \in StatLabels
           /\ f.path = Parent(c.path)
  BY <1>2 DEF Heard, Classified
<1>3. CASE c.at \in {"list_confirm", "exists"} \cup Classified /\ f.at \in StatLabels
           /\ f.path = c.path
  BY <1>3 DEF Heard, Classified
<1>4. CASE c.at = "remove_dir_contents" /\ f.at \in ListLabels /\ f.path = c.path
  BY <1>4 DEF Heard, Classified
<1> QED
  BY <1>1, <1>2, <1>3, <1>4 DEF Calls

(* A call returns to the frame below, or the operation is done.            *)
LEMMA ReturnSays ==
    ASSUME IInv, AnswersInv, stack # <<>>, NEW v, Return(v), Steady,
           NEW f \in FrameType, f = Top,
           f.at \in StatLabels => StatSays(f.path, v)',
           f.at \in ListLabels => ListSays(f.path, v)',
           f.at = "ancestor" =>
              \A b \in FrameType : b = stack[Len(stack) - 1] /\ Provable(b)' => v = "absent",
           Len(stack) = 1 => ClaimsAreReal' /\ ExactWhenListable'
    PROVE  AnswersInv'
<1> DEFINE n == Len(stack)
<1>1. /\ n \in Nat \ {0} /\ f = stack[n]
      /\ stack' = Front(stack) /\ stack' \in Seq(FrameType) /\ Len(stack') = n - 1
      /\ \A i \in 1..(n - 1) : stack'[i] = stack[i]
      /\ stack \in Seq(FrameType) /\ ret' = v
  BY TopFacts, FrontFacts DEF IInv, StackInv, Return
<1>2. \A i \in 1..Len(stack') : Knows(stack[i])'
  <2> SUFFICES ASSUME NEW i \in 1..Len(stack') PROVE Knows(stack[i])'
    OBVIOUS
  <2>1. stack'[i] = stack[i] /\ Knows(stack[i])
    BY <1>1 DEF AnswersInv, FramesInv
  <2>2. PICK g : g = stack[i]
    OBVIOUS
  <2>3. Knows(g)'
    BY <2>1, <2>2, KnowsKept
  <2> QED
    BY <2>1, <2>2, <2>3
<1>3. \A i \in 1..(Len(stack') - 1) : Climbs(stack[i], stack[i + 1])'
  <2> SUFFICES ASSUME NEW i \in 1..(Len(stack') - 1) PROVE Climbs(stack[i], stack[i + 1])'
    OBVIOUS
  <2>4. i \in 1..(n - 1) /\ i + 1 \in 1..(n - 1)
    BY <1>1
  <2>1. /\ stack'[i] = stack[i] /\ stack'[i + 1] = stack[i + 1]
        /\ Climbs(stack[i], stack[i + 1])
    BY <1>1, <2>4 DEF AnswersInv, FramesInv
  <2>2. PICK g, h : g = stack[i] /\ h = stack[i + 1]
    OBVIOUS
  <2>3. Climbs(g, h)'
    BY <2>1, <2>2, ClimbsKept
  <2> QED
    BY <2>1, <2>2, <2>3
<1>4. stack' # <<>> => Heard(Top)'
  <2> SUFFICES ASSUME stack' # <<>> PROVE Heard(Top)'
    OBVIOUS
  <2>1. n > 1 /\ Top' = stack[n - 1] /\ stack[n - 1] \in FrameType
    <3>1. n > 1
      BY <1>1
    <3>2. Top' = stack'[n - 1] /\ stack'[n - 1] = stack[n - 1] /\ stack'[n - 1] \in FrameType
      BY <1>1, <3>1 DEF Top, Last
    <3> QED
      BY <3>1, <3>2
  <2>2. PICK c \in FrameType : c = stack[n - 1]
    BY <2>1
  <2>3. Calls(c, f)
    BY <2>1, <2>2, TopFacts
  <2>4. Heard(c)'
    BY <1>1, <2>2, <2>3, Reheard
  <2> QED
    BY <2>1, <2>2, <2>4
<1>5. FramesInv'
  BY <1>2, <1>3, <1>4 DEF FramesInv
<1>6. ClaimsAreReal' /\ ExactWhenListable'
  <2>1. stack' = <<>> => n = 1
    BY <1>1
  <2> QED
    BY <2>1 DEF ClaimsAreReal, ExactWhenListable, Done
<1> QED
  BY <1>5, <1>6 DEF AnswersInv

(* The top frame goes on to wait for a new one.                            *)
LEMMA CallSays ==
    ASSUME IInv, AnswersInv, stack # <<>>, NEW c \in FrameType, NEW f \in FrameType,
           Call(c, f), Steady, f.at \in Running, c.at # "ancestor",
           Knows(c), Knows(f), Climbs(c, f)
    PROVE  AnswersInv'
<1> DEFINE n == Len(stack)
<1>1. /\ n \in Nat \ {0} /\ Top = stack[n]
      /\ stack' \in Seq(FrameType) /\ Len(stack') = n + 1
      /\ \A i \in 1..(n - 1) : stack'[i] = stack[i]
      /\ stack'[n] = c /\ stack'[n + 1] = f /\ Top' = f
  <2>1. stack \in Seq(FrameType) /\ stack' = Front(stack) \o <<c, f>>
    BY DEF IInv, StackInv, Call
  <2> QED
    BY <2>1, TopFacts, CallFacts DEF Top
<1>2. \A i \in 1..Len(stack') : Knows(stack[i])'
  <2> SUFFICES ASSUME NEW i \in 1..Len(stack') PROVE Knows(stack[i])'
    OBVIOUS
  <2>1. PICK g : g = stack'[i]
    OBVIOUS
  <2>2. Knows(g)
    <3>1. CASE i <= n - 1
      BY <1>1, <2>1, <3>1 DEF AnswersInv, FramesInv
    <3>2. CASE i \in {n, n + 1}
      BY <1>1, <2>1, <3>2
    <3> QED
      BY <1>1, <3>1, <3>2
  <2> QED
    BY <2>1, <2>2, KnowsKept
<1>3. \A i \in 1..(Len(stack') - 1) : Climbs(stack[i], stack[i + 1])'
  <2> SUFFICES ASSUME NEW i \in 1..(Len(stack') - 1) PROVE Climbs(stack[i], stack[i + 1])'
    OBVIOUS
  <2>1. PICK g, h : g = stack'[i] /\ h = stack'[i + 1]
    OBVIOUS
  <2>2. Climbs(g, h)
    <3>1. CASE i < n - 1
      BY <1>1, <2>1, <3>1 DEF AnswersInv, FramesInv
    <3>2. CASE i = n - 1
      BY <1>1, <2>1, <3>2 DEF Climbs
    <3>3. CASE i = n
      BY <1>1, <2>1, <3>3
    <3> QED
      BY <1>1, <3>1, <3>2, <3>3
  <2> QED
    BY <2>1, <2>2, ClimbsKept
<1>4. FramesInv'
  BY <1>1, <1>2, <1>3 DEF FramesInv
<1>5. stack' # <<>>
  BY <1>1
<1> QED
  BY <1>4, <1>5 DEF AnswersInv, ClaimsAreReal, ExactWhenListable, Done

(* The ancestor probe goes up.                                             *)
LEMMA MoveSays ==
    ASSUME IInv, AnswersInv, stack # <<>>, Top.at = "ancestor", Steady,
           NEW f \in FrameType, f.at = "ancestor", Become(f), Climbs(stack[Len(stack) - 1], f)
    PROVE  AnswersInv'
<1> DEFINE n == Len(stack)
<1>1. Top = stack[n] /\ n \in Nat \ {0} /\ n > 1
  BY TopFacts, AncestorIsCalled
<1>2. /\ stack' \in Seq(FrameType) /\ Len(stack') = n
      /\ \A i \in 1..(n - 1) : stack'[i] = stack[i]
      /\ stack'[n] = f /\ Top' = f
  BY <1>1, BecomeFacts DEF IInv, StackInv, Become, Top
<1>3. \A i \in 1..Len(stack') : Knows(stack[i])'
  <2> SUFFICES ASSUME NEW i \in 1..Len(stack') PROVE Knows(stack[i])'
    OBVIOUS
  <2>1. PICK g : g = stack'[i]
    OBVIOUS
  <2>2. Knows(g)
    <3>1. CASE i <= n - 1
      BY <1>1, <1>2, <2>1, <3>1 DEF AnswersInv, FramesInv
    <3>2. CASE i = n
      BY <1>2, <2>1, <3>2 DEF Knows
    <3> QED
      BY <1>1, <1>2, <3>1, <3>2
  <2> QED
    BY <2>1, <2>2, KnowsKept
<1>4. \A i \in 1..(Len(stack') - 1) : Climbs(stack[i], stack[i + 1])'
  <2> SUFFICES ASSUME NEW i \in 1..(Len(stack') - 1) PROVE Climbs(stack[i], stack[i + 1])'
    OBVIOUS
  <2>1. PICK g, h : g = stack'[i] /\ h = stack'[i + 1]
    OBVIOUS
  <2>2. Climbs(g, h)
    <3>1. CASE i < n - 1
      BY <1>1, <1>2, <2>1, <3>1 DEF AnswersInv, FramesInv
    <3>2. CASE i = n - 1
      BY <1>1, <1>2, <2>1, <3>2
    <3> QED
      BY <1>1, <1>2, <3>1, <3>2
  <2> QED
    BY <2>1, <2>2, ClimbsKept
<1>5. FramesInv'
  BY <1>2, <1>3, <1>4 DEF FramesInv, Running
<1>6. stack' # <<>>
  BY <1>1, <1>2
<1> QED
  BY <1>5, <1>6 DEF AnswersInv, ClaimsAreReal, ExactWhenListable, Done

-----------------------------------------------------------------------------
(* Outcomes.                                                               *)

(* What an operation that ends with the answer w of stat(path) makes of it. *)
StatOutcome(w) ==
    \/ op = "stat" /\ ret = w
    \/ /\ op = "exists"
       /\ ret = IF w \in FileKinds THEN "true"
                ELSE IF w = "NoSuchFileOrDirectory" THEN "false" ELSE w
    \/ op = "file_refusal" /\ ret = IF w = "dir" THEN "BadFile" ELSE "NoSuchFileOrDirectory"
    \/ /\ op = "create_refusal"
       /\ ret = IF w = "dir" THEN "AlreadyExists" ELSE "PermissionDenied"
       /\ w # "NoSuchFileOrDirectory" \/ path = Root
    \/ /\ op = "create_dir_refusal"
       /\ ret = IF w \in FileKinds THEN "AlreadyExists" ELSE "PermissionDenied"
       /\ w # "NoSuchFileOrDirectory" \/ path = Root
    \/ /\ op = "remove_dir_refusal" /\ w # "dir"
       /\ ret = IF w \in FileKinds THEN "BadFile"
                ELSE IF w = "NoSuchFileOrDirectory" THEN w ELSE "PermissionDenied"
    \/ /\ op = "rename_refusal"
       /\ ret = IF w = "NoSuchFileOrDirectory" THEN w ELSE "PermissionDenied"
       /\ w \notin FileKinds \/ dest = Root

(* What the last words of stat come to.                                    *)
StatEnds == \E w \in StatAnswers : StatSays(path, w) /\ StatOutcome(w)

(* A directory is a directory, a link a link; a file may be an illusion.   *)
LEMMA StatClaims ==
    ASSUME IInv, op \in Ops, path \in Paths, StatEnds
    PROVE  ClaimsAreReal
<1> SUFFICES \E t \in past : Supports(t) \/ Deceptive(t)
  BY DEF ClaimsAreReal
<1>1. PICK w \in StatAnswers : StatSays(path, w) /\ StatOutcome(w)
  BY DEF StatEnds
<1>2. CASE w = "file"
  <2>1. PICK t \in past : \/ KindIn(t, path) = "file"
                          \/ Mirrored(t, path) /\ Undecidable(t, Parent(path))
    BY <1>1, <1>2 DEF StatSays, FileSeen
  <2>2. CASE KindIn(t, path) = "file"
    <3>1. Supports(t)
      BY <1>1, <1>2, <2>2 DEF StatOutcome, Supports, FileTypeOf, FileKinds
    <3> QED
      BY <3>1
  <2>3. CASE Mirrored(t, path) /\ Undecidable(t, Parent(path))
    BY <2>3 DEF Deceptive, Mirrored
  <2> QED
    BY <2>1, <2>2, <2>3
<1>3. CASE w = "dir"
  <2>1. PICK t \in past : IsDir(KindIn(t, path))
    BY <1>1, <1>3 DEF StatSays
  <2>2. Supports(t)
    BY <1>1, <1>3, <2>1 DEF StatOutcome, Supports, FileTypeOf, FileKinds, IsDir
  <2> QED
    BY <2>2
<1>4. CASE w = "link"
  <2>1. PICK t \in past : KindIn(t, path) = "link"
    BY <1>1, <1>4 DEF StatSays
  <2>2. Supports(t)
    BY <1>1, <1>4, <2>1 DEF StatOutcome, Supports, FileTypeOf, FileKinds
  <2> QED
    BY <2>2
<1>5. CASE w = "BadFile"
  <2>1. PICK t \in past : \E i \in 1..(Len(path) - 1) : KindIn(t, SubSeq(path, 1, i)) = "file"
    BY <1>1, <1>5 DEF StatSays
  <2>2. Supports(t)
    BY <1>1, <1>5, <2>1 DEF StatOutcome, Supports, FileKinds
  <2> QED
    BY <2>2
<1>6. CASE w \in {"NoSuchFileOrDirectory", "PermissionDenied", "Broken"}
  <2>1. tree \in past
    BY DEF IInv, PastInv, Ops, Classified
  <2>2. ret \in {"NoSuchFileOrDirectory", "PermissionDenied", "Broken", "false"}
    BY <1>1, <1>6 DEF StatOutcome, FileKinds
  <2>3. Supports(tree)
    BY <2>2 DEF Supports, FileKinds
  <2> QED
    BY <2>1, <2>3
<1> QED
  BY <1>2, <1>3, <1>4, <1>5, <1>6 DEF StatAnswers, FileKinds

(* Somebody who sees the tree would say the same.                          *)
LEMMA StatExact ==
    ASSUME IInv, op \in Ops, path \in Paths, StatEnds
    PROVE  ExactWhenListable
<1> SUFFICES ASSUME Calm, Clear(path) PROVE ret = Expected
  BY DEF ExactWhenListable, Calm
<1> DEFINE w == SeenAt(path)
<1>1. /\ op = "stat" => ret = w
      /\ op = "exists" =>
            ret = IF w \in FileKinds THEN "true"
                  ELSE IF w = "NoSuchFileOrDirectory" THEN "false" ELSE w
      /\ op = "file_refusal" => ret = IF w = "dir" THEN "BadFile" ELSE "NoSuchFileOrDirectory"
      /\ op = "create_refusal" =>
            /\ ret = IF w = "dir" THEN "AlreadyExists" ELSE "PermissionDenied"
            /\ w # "NoSuchFileOrDirectory" \/ path = Root
      /\ op = "create_dir_refusal" =>
            /\ ret = IF w \in FileKinds THEN "AlreadyExists" ELSE "PermissionDenied"
            /\ w # "NoSuchFileOrDirectory" \/ path = Root
      /\ op = "remove_dir_refusal" =>
            /\ ret = IF w \in FileKinds THEN "BadFile"
                     ELSE IF w = "NoSuchFileOrDirectory" THEN w ELSE "PermissionDenied"
            /\ w # "dir"
      /\ op = "rename_refusal" =>
            /\ ret = IF w = "NoSuchFileOrDirectory" THEN w ELSE "PermissionDenied"
            /\ w \notin FileKinds \/ dest = Root
  BY DEF StatEnds, StatOutcome, StatSays
<1>2. tree \in Trees /\ KindIn(tree, path) \in {"none", "file", "dir", "locked", "link"}
  BY Kinds DEF IInv, TypeOK
<1>3. w = IF KindIn(tree, path) = "none" THEN "NoSuchFileOrDirectory"
          ELSE FileTypeOf(KindIn(tree, path))
  BY DEF SeenAt
<1>4. /\ w \in FileKinds \cup {"NoSuchFileOrDirectory"}
      /\ w = "NoSuchFileOrDirectory" <=> KindIn(tree, path) = "none"
  BY <1>2, <1>3 DEF FileTypeOf, FileKinds
<1>5. path = Root => w = "dir"
  BY <1>2, <1>3, RootFacts DEF FileTypeOf, IsDir
<1>6. ~MissingParent(Root)
  BY <1>2, RootFacts DEF MissingParent, IsDir
<1> HIDE DEF w
<1>7. CASE op \in {"stat", "exists", "file_refusal"}
  BY <1>1, <1>4, <1>7 DEF Expected, w, FileKinds
<1>8. CASE op \in {"create_refusal", "create_dir_refusal"}
  BY <1>1, <1>4, <1>5, <1>8 DEF Expected, w, FileKinds
<1>9. CASE op = "remove_dir_refusal"
  BY <1>1, <1>4, <1>9 DEF Expected, w, FileKinds
<1>10. CASE op = "rename_refusal"
  BY <1>1, <1>4, <1>6, <1>10 DEF Expected, w, FileKinds
<1>11. CASE op = "list_dir"
  BY <1>11 DEF StatEnds, StatOutcome
<1> QED
  BY <1>7, <1>8, <1>9, <1>10, <1>11 DEF Ops, Classified

(* What the last words of list_dir come to.                                *)
ListEnds ==
    \E w :
        /\ ListSays(path, w)
        /\ \/ op = "list_dir" /\ ret = w /\ w \in ListAnswers
           \/ /\ op = "remove_dir_refusal"
              /\ ret = IF w = "entries" THEN "DirectoryNotEmpty" ELSE "PermissionDenied"
              /\ Calm /\ Clear(path) => SeenAt(path) = "dir"

(* What was listed was there, or was a file that is listed like one.       *)
LEMMA ListClaims ==
    ASSUME IInv, op \in Ops, path \in Paths, ListEnds
    PROVE  ClaimsAreReal
<1> SUFFICES \E t \in past : Supports(t) \/ Deceptive(t)
  BY DEF ClaimsAreReal
<1>1. PICK w :
        /\ ListSays(path, w)
        /\ \/ op = "list_dir" /\ ret = w /\ w \in ListAnswers
           \/ /\ op = "remove_dir_refusal"
              /\ ret = IF w = "entries" THEN "DirectoryNotEmpty" ELSE "PermissionDenied"
  BY DEF ListEnds
<1>2. CASE ret = "PermissionDenied" \/ w \in {"NoSuchFileOrDirectory", "PermissionDenied", "Broken"}
  <2>1. tree \in past
    BY DEF IInv, PastInv, Ops, Classified
  <2>2. ret \in {"NoSuchFileOrDirectory", "PermissionDenied", "Broken"}
    BY <1>1, <1>2
  <2>3. Supports(tree)
    BY <2>2 DEF Supports, FileKinds
  <2> QED
    BY <2>1, <2>3
<1>3. CASE w = "BadFile" /\ ret = w
  <2>1. PICK t \in past : \/ KindIn(t, path) = "file"
                          \/ Mirrored(t, path) /\ Undecidable(t, Parent(path))
    BY <1>1, <1>3 DEF ListSays, FileSeen
  <2>2. CASE KindIn(t, path) = "file"
    <3>1. op = "list_dir"
      BY <1>1, <1>3
    <3>2. Supports(t)
      BY <1>3, <2>2, <3>1 DEF Supports, FileKinds
    <3> QED
      BY <3>2
  <2>3. CASE Mirrored(t, path) /\ Undecidable(t, Parent(path))
    BY <2>3 DEF Deceptive, Mirrored
  <2> QED
    BY <2>1, <2>2, <2>3
<1>4. CASE w \in {"entries", "empty"} /\ ret # "PermissionDenied"
  <2>1. PICK t \in past : \/ Shown(t, path, w)
                          \/ path # Root /\ style # "refused" /\ Undecidable(t, path)
    BY <1>1, <1>4 DEF ListSays
  <2>2. ret = w \/ (w = "entries" /\ ret = "DirectoryNotEmpty")
    BY <1>1, <1>4
  <2>3. CASE Shown(t, path, w)
    <3>1. w = "entries" => \E p \in Nodes : Parent(p) = path /\ t[p] # "none"
      BY <2>3 DEF Shown, FilledIn
    <3>2. w = "empty" => KindIn(t, path) \in {"dir", "link"}
      BY <2>3 DEF Shown
    <3>3. Supports(t)
      BY <1>4, <2>2, <3>1, <3>2 DEF Supports, FileKinds
    <3> QED
      BY <3>3
  <2>4. CASE path # Root /\ style # "refused" /\ Undecidable(t, path)
    <3>1. Deceptive(t)
      BY <1>4, <2>2, <2>4 DEF Deceptive
    <3> QED
      BY <3>1
  <2> QED
    BY <2>1, <2>3, <2>4
<1> QED
  BY <1>1, <1>2, <1>3, <1>4 DEF ListAnswers, StatAnswers, FileKinds

(* Somebody who sees the tree would say the same.                          *)
LEMMA ListExact ==
    ASSUME IInv, op \in Ops, path \in Paths, ListEnds
    PROVE  ExactWhenListable
<1> SUFFICES ASSUME Calm, Clear(path) PROVE ret = Expected
  BY DEF ExactWhenListable, Calm
<1>1. \/ op = "list_dir" /\ ret = SeenIn(path)
      \/ /\ op = "remove_dir_refusal" /\ SeenAt(path) = "dir"
         /\ ret = IF SeenIn(path) = "entries" THEN "DirectoryNotEmpty" ELSE "PermissionDenied"
  BY DEF ListEnds, ListSays
<1>2. tree \in Trees /\ KindIn(tree, path) \in {"none", "file", "dir", "locked", "link"}
  BY Kinds DEF IInv, TypeOK
<1>3. SeenAt(path) = "NoSuchFileOrDirectory" <=> KindIn(tree, path) = "none"
  BY <1>2 DEF SeenAt, FileTypeOf
<1>4. SeenAt(path) = "dir" <=> KindIn(tree, path) \in {"dir", "locked"}
  BY <1>2 DEF SeenAt, FileTypeOf
<1>5. CASE op = "list_dir" /\ ret = SeenIn(path)
  BY <1>2, <1>3, <1>5 DEF Expected, SeenIn, SeenAt, Refusing, Contents, FilledIn
<1>6. CASE /\ op = "remove_dir_refusal" /\ SeenAt(path) = "dir"
           /\ ret = IF SeenIn(path) = "entries" THEN "DirectoryNotEmpty" ELSE "PermissionDenied"
  <2>1. SeenIn(path) = "entries" <=> KindIn(tree, path) = "dir" /\ FilledIn(tree, path)
    BY <1>4, <1>6 DEF SeenIn, Refusing, Contents
  <2> QED
    BY <1>6, <2>1 DEF Expected, FilledIn
<1> QED
  BY <1>1, <1>5, <1>6

(* What the parent of a destination comes to.                              *)
ParentEnds ==
    \E u \in StatAnswers, q \in Nodes :
        /\ StatSays(Parent(q), u)
        /\ ret = IF u = "NoSuchFileOrDirectory" THEN u ELSE "PermissionDenied"
        /\ \/ op \in {"create_refusal", "create_dir_refusal"} /\ q = path
           \/ op = "rename_refusal" /\ q = dest
        /\ Calm /\ Clear(path) =>
              (op = "rename_refusal" <=> SeenAt(path) # "NoSuchFileOrDirectory")

(* A missing parent is no claim, but an absence.                           *)
LEMMA ParentClaims ==
    ASSUME IInv, op \in Ops, ParentEnds
    PROVE  ClaimsAreReal
<1>1. tree \in past
  BY DEF IInv, PastInv, Ops, Classified
<1>2. ret \in {"NoSuchFileOrDirectory", "PermissionDenied"}
  BY DEF ParentEnds
<1>3. Supports(tree)
  BY <1>2 DEF Supports, FileKinds
<1> QED
  BY <1>1, <1>3 DEF ClaimsAreReal

(* Somebody who sees the tree would say the same.                          *)
LEMMA ParentExact ==
    ASSUME IInv, op \in Ops, ParentEnds
    PROVE  ExactWhenListable
<1> SUFFICES ASSUME Calm, Clear(path), Clear(dest) PROVE ret = Expected
  BY DEF ExactWhenListable, Calm
<1>1. PICK q \in Nodes :
         /\ \/ op \in {"create_refusal", "create_dir_refusal"} /\ q = path
            \/ op = "rename_refusal" /\ q = dest
         /\ op = "rename_refusal" <=> SeenAt(path) # "NoSuchFileOrDirectory"
         /\ \E u \in StatAnswers :
               /\ StatSays(Parent(q), u)
               /\ ret = IF u = "NoSuchFileOrDirectory" THEN u ELSE "PermissionDenied"
  BY DEF ParentEnds
<1>2. Clear(Parent(q))
  BY <1>1, ClearParent
<1>3. ret = IF SeenAt(Parent(q)) = "NoSuchFileOrDirectory" THEN "NoSuchFileOrDirectory"
            ELSE "PermissionDenied"
  BY <1>1, <1>2 DEF StatSays
<1>4. tree \in Trees
  BY DEF IInv, TypeOK
<1>5. SeenAt(Parent(q)) = "NoSuchFileOrDirectory" <=> KindIn(tree, Parent(q)) = "none"
  BY <1>4, Kinds DEF SeenAt, FileTypeOf
<1>6. CASE op \in {"create_refusal", "create_dir_refusal"} /\ q = path
  BY <1>1, <1>3, <1>5, <1>6 DEF Expected, MissingParent
<1>7. CASE op = "rename_refusal" /\ q = dest
  BY <1>1, <1>3, <1>5, <1>7 DEF Expected, MissingParent
<1> QED
  BY <1>1, <1>6, <1>7

(* Either way, what is answered is right.                                  *)
Ended == StatEnds \/ ListEnds \/ ParentEnds

(* Whatever the last words, the properties hold.                           *)
LEMMA EndedWell == IInv /\ op \in Ops /\ Ended => ClaimsAreReal /\ ExactWhenListable
<1> SUFFICES ASSUME IInv, op \in Ops, Ended PROVE ClaimsAreReal /\ ExactWhenListable
  OBVIOUS
<1>1. path \in Paths
  BY DEF IInv, TypeOK, Paths
<1> QED
  BY <1>1, StatClaims, StatExact, ListClaims, ListExact, ParentClaims, ParentExact DEF Ended

(* The same, of the state a step leads to.                                 *)
LEMMA EndsWell ==
    ASSUME IInv, IInv', stack # <<>>, Steady, Ended'
    PROVE  ClaimsAreReal' /\ ExactWhenListable'
<1>1. op' \in Ops
  BY TopFacts DEF Steady
<1>2. (IInv /\ op \in Ops /\ Ended => ClaimsAreReal /\ ExactWhenListable)'
  BY EndedWell, PTL
<1> QED
  BY <1>1, <1>2

(* stat answers its caller, or the operation.                              *)
LEMMA StatReturnSays ==
    ASSUME IInv, AnswersInv, IInv', stack # <<>>, NEW f \in FrameType, f = Top,
           f.at \in StatLabels, NEW v \in StatAnswers, StatSays(f.path, v)', Return(v), Steady
    PROVE  AnswersInv'
<1>1. ASSUME Len(stack) = 1 PROVE ClaimsAreReal' /\ ExactWhenListable'
  <2>1. Bottom(f) /\ op \in Ops
    BY <1>1, TopFacts
  <2>2. op = "stat" /\ path = f.path
    BY <2>1 DEF Bottom, Ops, Classified, StatLabels, ListLabels
  <2>3. op' = "stat" /\ path' = f.path /\ ret' = v
    BY <2>2 DEF Steady, Return
  <2>4. StatEnds'
    BY <2>3 DEF StatEnds, StatOutcome
  <2> QED
    BY <2>4, EndsWell DEF Ended
<1>2. f.at \notin ListLabels /\ f.at # "ancestor"
  BY DEF StatLabels, ListLabels
<1> QED
  BY <1>1, <1>2, ReturnSays

(* list_dir answers its caller, or the operation.                          *)
LEMMA ListReturnSays ==
    ASSUME IInv, AnswersInv, IInv', stack # <<>>, NEW f \in FrameType, f = Top,
           f.at \in ListLabels, NEW v \in ListAnswers, ListSays(f.path, v)', Return(v), Steady
    PROVE  AnswersInv'
<1>1. ASSUME Len(stack) = 1 PROVE ClaimsAreReal' /\ ExactWhenListable'
  <2>1. Bottom(f) /\ op \in Ops
    BY <1>1, TopFacts
  <2>2. op = "list_dir" /\ path = f.path
    BY <2>1 DEF Bottom, Ops, Classified, StatLabels, ListLabels
  <2>3. op' = "list_dir" /\ path' = f.path /\ ret' = v
    BY <2>2 DEF Steady, Return
  <2>4. ListEnds'
    BY <2>3 DEF ListEnds
  <2> QED
    BY <2>4, EndsWell DEF Ended
<1>2. f.at \notin StatLabels /\ f.at # "ancestor"
  BY DEF StatLabels, ListLabels
<1> QED
  BY <1>1, <1>2, ReturnSays

(* The frames of exists and of the classification answer the operation.    *)
LEMMA OuterReturnSays ==
    ASSUME IInv, AnswersInv, IInv', stack # <<>>, Top.at \in OuterLabels,
           NEW v, Return(v), Steady, Ended'
    PROVE  AnswersInv'
<1>1. PICK f \in FrameType : f = Top
  BY TopFacts
<1>2. f.at \notin StatLabels \cup ListLabels \cup {"ancestor"}
  BY <1>1 DEF OuterLabels, Classified, StatLabels, ListLabels
<1>3. ClaimsAreReal' /\ ExactWhenListable'
  BY EndsWell
<1> QED
  BY <1>1, <1>2, <1>3, ReturnSays

-----------------------------------------------------------------------------
(* Steps.                                                                  *)

(* A probe that gets an answer tells an absence that can be proved.        *)
LEMMA AncestorProvesAbsentSays ==
    ASSUME IInv, AnswersInv, AncestorProvesAbsent
    PROVE  AnswersInv'
<1> DEFINE p == Top.path
           q == Parent(p)
           n == Len(stack)
<1>1. /\ stack # <<>> /\ Top.at = "ancestor" /\ p # Root /\ p \in Nodes /\ q \in Paths
      /\ Top.tries \in 0..MaxAncestors /\ Top.tries + 1 \in 0..MaxAncestors
      /\ n > 1 /\ n \in Nat
  <2>1. stack # <<>> /\ Top.at = "ancestor" /\ p # Root /\ Top.tries < MaxAncestors
    BY DEF AncestorProvesAbsent, At
  <2>2. p \in Nodes /\ Top.tries \in 0..MaxAncestors
    BY <2>1, TopFacts DEF FrameType, Paths
  <2> QED
    BY <2>1, <2>2, ParentIsAPath, AncestorIsCalled, TopFacts, PathProbeAssumption DEF Paths
<1>2. PICK b \in FrameType : b = stack[n - 1]
  <2>1. n - 1 \in 1..n
    BY <1>1
  <2> QED
    BY <2>1, ElementOfSeq DEF IInv, StackInv
<1>3. /\ Len(p) <= Len(b.path) /\ p = SubSeq(b.path, 1, Len(p))
      /\ Top.tries <= Len(b.path) - Len(p)
      /\ Provable(b) => \A i \in Len(p)..Len(b.path) :
                           KindIn(tree, SubSeq(b.path, 1, i)) = "none"
  BY <1>1, <1>2, TopKnows DEF AnswersInv, Climbs
<1>4. /\ Len(p) \in Nat \ {0} /\ Len(q) = Len(p) - 1 /\ Len(b.path) \in Nat \ {0}
      /\ b.path \in Nodes
  <2>1. Len(p) \in Nat \ {0} /\ Len(q) = Len(p) - 1 /\ Len(b.path) \in Nat
    BY <1>1, <1>2, PathLengths DEF Paths, FrameType
  <2>2. Len(b.path) \in Nat \ {0}
    BY <1>3, <2>1
  <2> QED
    BY <1>2, <2>1, <2>2, PathLengths DEF Paths, FrameType
<1>5. q = SubSeq(b.path, 1, Len(q))
  <2>1. q = SubSeq(p, 1, Len(q))
    BY <1>1, <1>4, PathPrefixes
  <2>2. CASE Len(q) = 0
    BY <2>1, <2>2, <1>1, <1>4, PathPrefixes
  <2>3. CASE Len(q) # 0
    <3>3. \A m, l \in Nat \ {0} : \A k \in Int : m <= l /\ k = m - 1 /\ k # 0 =>
             /\ 1 \in 1..l /\ m \in 1..l
             /\ 1 \in 1..(m - 1 + 1) /\ k \in 1..(m - 1 + 1)
             /\ 1 + 1 - 1 = 1 /\ 1 + k - 1 = k
      OBVIOUS
    <3>4. Len(q) \in Int /\ Len(q) = Len(p) - 1
      BY <1>4
    <3>5. b.path \in Seq(Range(b.path))
      BY <1>4, PathProbeAssumption
    <3>1. /\ 1 \in 1..Len(b.path) /\ Len(p) \in 1..Len(b.path)
          /\ 1 \in 1..(Len(p) - 1 + 1) /\ Len(q) \in 1..(Len(p) - 1 + 1)
          /\ 1 + 1 - 1 = 1 /\ 1 + Len(q) - 1 = Len(q)
      BY <1>3, <1>4, <2>3, <3>3, <3>4
    <3>2. SubSeq(SubSeq(b.path, 1, Len(p)), 1, Len(q))
          = SubSeq(b.path, 1 + 1 - 1, 1 + Len(q) - 1)
      BY <3>1, <3>5, SubSeqOfSubSeq
    <3> QED
      BY <1>3, <2>1, <3>1, <3>2
  <2> QED
    BY <2>2, <2>3
<1>6. Provable(b) => KindIn(tree, q) \notin {"file", "locked"} /\ KindIn(tree, p) = "none"
  <2>1. Len(q) \in 0..(Len(b.path) - 1) /\ Len(p) \in Len(p)..Len(b.path)
    BY <1>3, <1>4
  <2> QED
    BY <1>3, <1>5, <2>1 DEF Provable, Clear
<1>7. PICK answer \in ListDirRaw(q) :
         /\ ListStep(answer)
         /\ IF answer.tag = "refused"
            THEN Become(Ancestor(q, Top.tries + 1))
            ELSE Return(IF answer.tag = "ok" /\ \A e \in answer.entries : e.path # p
                        THEN "absent" ELSE "unproved")
  BY DEF AncestorProvesAbsent
<1>8. Steady /\ tree \in Trees /\ style \in Styles
  BY <1>1, <1>7, ListSteady, TopKnows DEF AnswersInv
<1>9. CASE answer.tag = "refused"
  <2> DEFINE f == Ancestor(q, Top.tries + 1)
  <2>1. f \in FrameType /\ f.at = "ancestor" /\ f.path = q /\ f.tries = Top.tries + 1
    BY <1>1, AncestorFacts
  <2>2. Become(f)
    BY <1>7, <1>9
  <2> HIDE DEF f
  <2>3. Refusing(tree, q)
    BY <1>8, <1>9, TrueAnswers, ListingComes
  <2>4. Provable(b) => \A i \in Len(q)..Len(b.path) :
                          KindIn(tree, SubSeq(b.path, 1, i)) = "none"
    <3>1. Provable(b) => KindIn(tree, q) = "none"
      BY <1>6, <2>3 DEF Refusing
    <3>2. \A i \in Len(q)..Len(b.path) : i = Len(q) \/ i \in Len(p)..Len(b.path)
      BY <1>4
    <3> QED
      BY <1>3, <1>5, <3>1, <3>2
  <2>5. Len(q) <= Len(b.path) /\ f.tries <= Len(b.path) - Len(q)
    <3>1. \A m, l \in Nat \ {0} : \A k \in Nat :
             m <= l /\ k <= l - m => m - 1 <= l /\ k + 1 <= l - (m - 1)
      OBVIOUS
    <3>2. Top.tries \in Nat
      BY <1>1, PathProbeAssumption
    <3> QED
      BY <1>3, <1>4, <2>1, <3>1, <3>2
  <2>6. Climbs(b, f)
    BY <1>5, <2>1, <2>4, <2>5 DEF Climbs
  <2> QED
    BY <1>1, <1>2, <1>8, <2>1, <2>2, <2>6, MoveSays
<1>10. CASE answer.tag # "refused"
  <2> DEFINE v == IF answer.tag = "ok" /\ \A e \in answer.entries : e.path # p
                  THEN "absent" ELSE "unproved"
  <2>1. Return(v)
    BY <1>7, <1>10
  <2>2. ASSUME Provable(b)' PROVE v = "absent"
    <3>1. Provable(b) /\ ~disturbed'
      BY <1>8, <2>2, ClimbsKept DEF Provable, Calm
    <3>2. answer.tag = "ok" /\ answer = Listing(q)
      BY <1>7, <1>10, <3>1, TrueAnswers
    <3>3. KindIn(tree, q) # "file" /\ tree[p] = "none"
      BY <1>1, <1>6, <1>8, <3>1, Kinds
    <3>4. Listing(q).entries \in {{}, Children(q)}
      BY <3>3 DEF Listing, Listed, Failed
    <3>5. \A e \in Listing(q).entries : e.path # p
      BY <3>3, <3>4 DEF Children, Entry
    <3> QED
      BY <3>2, <3>5
  <2> HIDE DEF v
  <2>3. PICK f \in FrameType : f = Top
    BY <1>1, TopFacts
  <2>4. f.at \notin StatLabels \cup ListLabels
    BY <1>1, <2>3 DEF StatLabels, ListLabels
  <2>6. \A k \in Nat : k > 1 => k # 1
    OBVIOUS
  <2>5. n # 1
    BY <1>1, <2>6
  <2> QED
    BY <1>1, <1>2, <1>8, <2>1, <2>2, <2>3, <2>4, <2>5, ReturnSays
<1> QED
  BY <1>9, <1>10

(* A probe only gives up on what is too deep to be proved.                 *)
LEMMA AncestorGivesUpSays ==
    ASSUME IInv, AnswersInv, AncestorGivesUp
    PROVE  AnswersInv'
<1> DEFINE p == Top.path
           n == Len(stack)
<1>1. /\ stack # <<>> /\ Top.at = "ancestor" /\ p \in Paths
      /\ p = Root \/ Top.tries = MaxAncestors
      /\ Return("unproved") /\ LocalStep /\ n > 1 /\ n \in Nat
  BY TopFacts, AncestorIsCalled DEF AncestorGivesUp, At, FrameType
<1>2. PICK b \in FrameType : b = stack[n - 1]
  <2>1. n - 1 \in 1..n
    BY <1>1
  <2> QED
    BY <2>1, ElementOfSeq DEF IInv, StackInv
<1>3. /\ Len(p) <= Len(b.path) /\ p = SubSeq(b.path, 1, Len(p))
      /\ Top.tries <= Len(b.path) - Len(p)
      /\ Provable(b) => \A i \in Len(p)..Len(b.path) :
                           KindIn(tree, SubSeq(b.path, 1, i)) = "none"
  BY <1>1, <1>2, TopKnows DEF AnswersInv, Climbs
<1>4. Len(p) \in Nat /\ Len(b.path) \in Nat /\ b.path \in Paths
  BY <1>1, <1>2, PathLengths DEF FrameType, Paths
<1>5. ~Provable(b)
  <2> SUFFICES ASSUME Provable(b) PROVE FALSE
    OBVIOUS
  <2>1. tree \in Trees
    BY <1>1, TopKnows DEF AnswersInv
  <2>2. p # Root
    <3>1. Len(p) \in Len(p)..Len(b.path)
      BY <1>3, <1>4
    <3>2. KindIn(tree, p) = "none"
      BY <1>3, <3>1
    <3> QED
      BY <2>1, <3>2, RootFacts DEF IsDir
  <2>3. p \in Nodes /\ Len(p) \in 1..Len(b.path) /\ Len(b.path) # 0
    BY <1>1, <1>3, <1>4, <2>2, PathLengths DEF Paths
  <2>4. b.path \in Nodes
    BY <1>4, <2>3, PathLengths DEF Paths
  <2>5. Len(b.path) - Len(p) < MaxAncestors
    BY <1>3, <2>3, <2>4, ClearReach DEF Provable
  <2>8. \A l, m \in Nat : l - m \in Int
    OBVIOUS
  <2>6. Len(b.path) - Len(p) \in Int /\ Top.tries <= Len(b.path) - Len(p)
    BY <1>3, <1>4, <2>8
  <2>7. \A x \in Int : \A m \in Nat : m <= x => ~(x < m)
    OBVIOUS
  <2> QED
    BY <1>1, <2>2, <2>5, <2>6, <2>7, PathProbeAssumption
<1>6. Steady
  BY <1>1, LocalSteady
<1>7. ~Provable(b)'
  BY <1>5, <1>6, ClimbsKept
<1>8. PICK f \in FrameType : f = Top
  BY <1>1, TopFacts
<1>9. f.at \notin StatLabels \cup ListLabels
  BY <1>1, <1>8 DEF StatLabels, ListLabels
<1>10. n # 1
  <2>1. \A k \in Nat : k > 1 => k # 1
    OBVIOUS
  <2> QED
    BY <1>1, <2>1
<1> QED
  BY <1>1, <1>2, <1>6, <1>7, <1>8, <1>9, <1>10, ReturnSays

(* An ambiguous refusal stays one only where something is in the way.      *)
LEMMA RefusalResolvedSays ==
    ASSUME IInv, AnswersInv, IInv', RefusalResolved
    PROVE  AnswersInv'
<1>0. PICK v : v = IF ret = "absent" THEN "NoSuchFileOrDirectory" ELSE "PermissionDenied"
  OBVIOUS
<1>1. /\ stack # <<>> /\ Top.at \in {"stat_absent", "list_absent"} /\ Return(v) /\ Steady
  BY <1>0, LocalSteady DEF RefusalResolved, At
<1>2. PICK f \in FrameType : f = Top
  BY <1>1, TopFacts
<1>3. Knows(f) /\ Heard(f) /\ Told(f) /\ tree \in Trees
  BY <1>1, <1>2, TopKnows, TopFacts DEF AnswersInv, Running
<1>4. v \in StatAnswers /\ v \in ListAnswers
  BY <1>0 DEF StatAnswers, ListAnswers, FileKinds
<1>5. CASE f.at = "stat_absent"
  <2>1. v = "PermissionDenied" => \E t \in past : Refusing(t, Parent(f.path))
    BY <1>0, <1>3, <1>5 DEF Knows
  <2>2. Calm /\ Clear(f.path) => v = SeenAt(f.path)
    BY <1>0, <1>3, <1>5 DEF Knows, Heard, Provable, SeenAt
  <2>3. StatSays(f.path, v)
    BY <1>0, <2>1, <2>2 DEF StatSays
  <2>4. StatSays(f.path, v)'
    BY <1>1, <2>3, StatSaysKept
  <2> QED
    BY <1>1, <1>2, <1>4, <1>5, <2>4, StatReturnSays DEF StatLabels
<1>6. CASE f.at = "list_absent"
  <2>1. Calm /\ Clear(f.path) => v = SeenIn(f.path)
    <3> SUFFICES ASSUME Calm, Clear(f.path) PROVE v = SeenIn(f.path)
      OBVIOUS
    <3>1. Refusing(tree, f.path)
      BY <1>3, <1>6 DEF Knows
    <3>2. ret = "absent" <=> KindIn(tree, f.path) = "none"
      BY <1>3, <1>6 DEF Heard, Provable, Told, Absent, Calm
    <3> QED
      BY <1>0, <3>1, <3>2 DEF SeenIn
  <2>3. ListSays(f.path, v)
    BY <1>0, <2>1 DEF ListSays
  <2>4. ListSays(f.path, v)'
    BY <1>1, <2>3, ListSaysKept
  <2> QED
    BY <1>1, <1>2, <1>4, <1>6, <2>4, ListReturnSays DEF ListLabels
<1> QED
  BY <1>1, <1>2, <1>5, <1>6

(* A connection that is lost excuses every answer.                         *)
LEMMA ErrorsSay ==
    ASSUME disturbed, NEW p, NEW v \in {"PermissionDenied", "Broken"}
    PROVE  StatSays(p, v) /\ ListSays(p, v)
BY DEF StatSays, ListSays, Calm

(* The same, of the state a step leads to.                                 *)
LEMMA ErrorsSayNext ==
    ASSUME disturbed', NEW p, NEW v \in {"PermissionDenied", "Broken"}
    PROVE  StatSays(p, v)' /\ ListSays(p, v)'
BY DEF StatSays, ListSays, Calm

(* What is there now can be said.                                          *)
LEMMA NowSays ==
    ASSUME tree \in past, tree \in Trees, NEW p
    PROVE  StatSays(p, SeenAt(p)) /\ SeenAt(p) \in StatAnswers
<1>1. KindIn(tree, p) \in {"none", "file", "dir", "locked", "link"}
  BY Kinds
<1>2. CASE KindIn(tree, p) = "none"
  BY <1>2 DEF SeenAt, StatSays, StatAnswers
<1>3. CASE KindIn(tree, p) = "file"
  BY <1>3 DEF SeenAt, StatSays, StatAnswers, FileTypeOf, FileKinds, FileSeen
<1>4. CASE KindIn(tree, p) \in {"dir", "locked"}
  BY <1>4 DEF SeenAt, StatSays, StatAnswers, FileTypeOf, FileKinds, IsDir
<1>5. CASE KindIn(tree, p) = "link"
  BY <1>5 DEF SeenAt, StatSays, StatAnswers, FileTypeOf, FileKinds
<1> QED
  BY <1>1, <1>2, <1>3, <1>4, <1>5

(* The root is a directory.                                                *)
LEMMA StatRootSays ==
    ASSUME IInv, AnswersInv, IInv', StatRoot
    PROVE  AnswersInv'
<1>1. stack # <<>> /\ Top.at = "stat" /\ Top.path = Root
  BY DEF StatRoot, At
<1>2. PICK f \in FrameType : f = Top
  BY <1>1, TopFacts
<1>3. Steady
  BY DEF StatRoot, Steady, Calm, world
<1>4. tree \in Trees /\ tree \in past
  BY <1>1, TopKnows DEF AnswersInv
<1>5. CASE Return("dir")
  <2>1. SeenAt(Root) = "dir"
    BY <1>4, RootFacts DEF SeenAt, FileTypeOf, IsDir
  <2>2. StatSays(Root, "dir")
    BY <1>4, <2>1, NowSays
  <2>3. StatSays(Root, "dir")' /\ "dir" \in StatAnswers
    BY <1>3, <2>2, StatSaysKept DEF StatAnswers, FileKinds
  <2> QED
    BY <1>1, <1>2, <1>3, <1>5, <2>3, StatReturnSays DEF StatLabels
<1>6. CASE Return("Broken") /\ disturbed'
  <2>1. StatSays(Root, "Broken")' /\ "Broken" \in StatAnswers
    BY <1>6, ErrorsSayNext DEF StatAnswers
  <2> QED
    BY <1>1, <1>2, <1>3, <1>6, <2>1, StatReturnSays DEF StatLabels
<1> QED
  BY <1>5, <1>6 DEF StatRoot

(* The listing of the parent shows what is there, or is looked into.       *)
LEMMA StatStepSays ==
    ASSUME IInv, AnswersInv, IInv', Stat
    PROVE  AnswersInv'
<1>0. PICK p \in Paths : p = Top.path
  BY TopFacts DEF Stat, At, FrameType
<1> DEFINE q == Parent(p)
<1>1. /\ stack # <<>> /\ Top.at = "stat"
      /\ p \in Nodes /\ q \in Paths /\ p # Root
  <2>1. stack # <<>> /\ Top.at = "stat" /\ p # Root
    BY <1>0 DEF Stat, At
  <2>2. p \in Nodes
    BY <1>0, <2>1 DEF Paths
  <2> QED
    BY <2>1, <2>2, ParentIsAPath DEF Paths
<1>2. PICK answer \in ListDirRaw(q) :
         /\ ListStep(answer)
         /\ \/ /\ answer.tag = "ok"
               /\ IF LooksLikeFile(q, answer.entries)
                  THEN CallStat(Frame("stat_parent", p, Lookup(p, answer.entries)), q)
                  ELSE Return(Lookup(p, answer.entries))
            \/ /\ answer.tag = "refused"
               /\ CallAncestor(Frame("stat_absent", p, "none"), q)
            \/ /\ answer.tag \in {"denied", "broken"}
               /\ Return(ErrorOf(answer))
  BY <1>0 DEF Stat
<1>3. /\ Steady /\ tree \in Trees /\ style \in Styles
      /\ tree \in past /\ KindIn(tree, p) = tree[p]
  BY <1>1, <1>2, ListSteady, TopKnows, Kinds DEF AnswersInv
<1>4. PICK g \in FrameType : g = Top /\ g.path = p /\ g.at = "stat"
  BY <1>0, <1>1, TopFacts
<1>5. /\ Len(p) \in Nat \ {0} /\ Len(q) = Len(p) - 1
      /\ q = SubSeq(p, 1, Len(q)) /\ p = SubSeq(p, 1, Len(p))
  BY <1>1, PathLengths, PathPrefixes DEF Paths
<1>6. CASE answer.tag = "ok"
  <2> DEFINE found == Lookup(p, answer.entries)
  <2>1. answer = Listing(q)
    BY <1>2, <1>6, TrueAnswers
  <2>2. \/ found = SeenAt(p) /\ KindIn(tree, q) # "file"
        \/ found = SeenAt(p) /\ answer.entries = {}
        \/ /\ LooksLikeFile(q, answer.entries) /\ q # Root
           /\ KindIn(tree, q) = "file" /\ style = "entry"
           /\ found \in {"file", "NoSuchFileOrDirectory"}
           /\ found = "file" => Last(p) = Last(q)
    BY <1>1, <1>3, <1>6, <2>1, LookupSays
  <2>3. CASE LooksLikeFile(q, answer.entries)
    <3> DEFINE c == Frame("stat_parent", p, found)
               f == Frame("stat", q, "none")
    <3>1. found \in {"file", "NoSuchFileOrDirectory"}
      <4>1. \A e \in answer.entries : e.kind = "file"
        BY <2>3 DEF LooksLikeFile, Entry, FileTypeOf
      <4> QED
        BY <4>1 DEF Lookup
    <3>11. {"file", "NoSuchFileOrDirectory"} \subseteq Answers
      BY DEF Answers, FileKinds
    <3>10. found \in Answers
      BY <3>1, <3>11
    <3>2. c \in FrameType /\ c.at = "stat_parent" /\ c.path = p /\ c.keep = found
      BY <1>1, <3>10, FrameFacts, Places
    <3>3. f \in FrameType /\ f.at = "stat" /\ f.path = q
      BY <1>1, NewProbes
    <3>4. Call(c, f)
      BY <1>2, <1>6, <2>3 DEF CallStat
    <3>5. answer.entries # {}
      BY <2>3 DEF LooksLikeFile
    <3> HIDE DEF c, f, found
    <3>6. found = "file" => KindIn(tree, p) = "file" \/ Mirrored(tree, p)
      <4>1. CASE found = SeenAt(p)
        BY <1>3, <4>1, Kinds DEF SeenAt, FileTypeOf
      <4>2. CASE found = "file" /\ q # Root /\ KindIn(tree, q) = "file"
                 /\ style = "entry" /\ Last(p) = Last(q)
        <5>1. Len(q) \in Nat \ {0}
          BY <1>1, <4>2, PathLengths DEF Paths
        <5>2. \A m \in Nat \ {0} : \A k \in Nat \ {0} : k = m - 1 => m > 1
          OBVIOUS
        <5>3. Len(p) > 1
          BY <1>5, <5>1, <5>2
        <5> QED
          BY <4>2, <5>3 DEF Mirrored
      <4> QED
        BY <2>2, <4>1, <4>2
    <3>7. Calm /\ Clear(p) => found = SeenAt(p) /\ KindIn(tree, q) = "dir"
      <4> SUFFICES ASSUME Clear(p) PROVE found = SeenAt(p) /\ KindIn(tree, q) = "dir"
        OBVIOUS
      <4>1. KindIn(tree, q) \notin {"file", "locked"}
        BY <1>1, ClearParent
      <4>2. found = SeenAt(p)
        BY <2>2, <4>1
      <4>3. KindIn(tree, q) = "dir"
        BY <2>1, <3>5, <4>1 DEF Listing, Listed, Failed
      <4> QED
        BY <4>2, <4>3
    <3>8. Knows(c)
      BY <1>3, <3>1, <3>2, <3>6, <3>7 DEF Knows
    <3>9. Knows(f) /\ Climbs(c, f) /\ f.at \in Running /\ c.at # "ancestor"
      BY <3>2, <3>3 DEF Knows, Climbs, Running
    <3> QED
      BY <1>1, <1>3, <3>2, <3>3, <3>4, <3>8, <3>9, CallSays
  <2>4. CASE ~LooksLikeFile(q, answer.entries)
    <3>1. Return(found) /\ found = SeenAt(p)
      BY <1>2, <1>6, <2>2, <2>4
    <3> HIDE DEF found
    <3>2. StatSays(p, found) /\ found \in StatAnswers
      BY <1>3, <3>1, NowSays
    <3>3. StatSays(p, found)'
      BY <1>3, <3>2, StatSaysKept
    <3> QED
      BY <1>1, <1>3, <1>4, <3>1, <3>2, <3>3, StatReturnSays DEF StatLabels
  <2> QED
    BY <2>3, <2>4
<1>7. CASE answer.tag = "refused"
  <2> DEFINE c == Frame("stat_absent", p, "none")
             f == Ancestor(q, 0)
  <2>1. c \in FrameType /\ c.at = "stat_absent" /\ c.path = p
    BY <1>1, FrameFacts, Places
  <2>2. f \in FrameType /\ f.at = "ancestor" /\ f.path = q /\ f.tries = 0
    BY <1>1, AncestorFacts, PathProbeAssumption
  <2>3. Call(c, f)
    BY <1>2, <1>7 DEF CallAncestor
  <2> HIDE DEF c, f
  <2>4. Refusing(tree, q)
    BY <1>2, <1>3, <1>7, TrueAnswers, ListingComes
  <2>5. Clear(p) => KindIn(tree, q) = "none" /\ KindIn(tree, p) = "none"
    <3>1. Clear(p) => KindIn(tree, q) = "none"
      BY <1>1, <2>4, ClearParent DEF Refusing
    <3> QED
      BY <1>1, <1>3, <3>1, NothingBelowNothing DEF IsDir
  <2>6. Knows(c)
    BY <1>3, <2>1, <2>4, <2>5 DEF Knows
  <2>7. Climbs(c, f)
    <3>1. \A m \in Nat \ {0} :
             /\ m - 1 <= m /\ 0 <= m - (m - 1)
             /\ \A i \in (m - 1)..m : i = m - 1 \/ i = m
      OBVIOUS
    <3>2. /\ Len(q) <= Len(p) /\ 0 <= Len(p) - Len(q)
          /\ \A i \in Len(q)..Len(p) : i = Len(q) \/ i = Len(p)
      BY <1>5, <3>1
    <3>3. Provable(c) => \A i \in Len(q)..Len(p) : KindIn(tree, SubSeq(p, 1, i)) = "none"
      BY <1>5, <2>1, <2>5, <3>2 DEF Provable
    <3> QED
      BY <1>5, <2>1, <2>2, <3>2, <3>3 DEF Climbs
  <2>8. Knows(f) /\ f.at \in Running /\ c.at # "ancestor"
    BY <2>1, <2>2 DEF Knows, Running
  <2> QED
    BY <1>1, <1>3, <2>1, <2>2, <2>3, <2>6, <2>7, <2>8, CallSays
<1>8. CASE answer.tag \in {"denied", "broken"}
  <2>1. PICK v \in {"PermissionDenied", "Broken"} : v = ErrorOf(answer)
    BY DEF ErrorOf
  <2>2. disturbed'
    BY <1>2, <1>8, TrueAnswers
  <2>3. StatSays(p, v)' /\ v \in StatAnswers
    BY <2>2, ErrorsSayNext DEF StatAnswers
  <2>4. Return(v)
    BY <1>2, <1>8, <2>1
  <2> QED
    BY <1>1, <1>3, <1>4, <2>3, <2>4, StatReturnSays DEF StatLabels
<1> QED
  BY <1>2, <1>6, <1>7, <1>8

(* A kind other than a file, or a connection lost, or a parent that cannot *)
(* be listed: what stat may say of a file that nobody can tell from a      *)
(* directory with a file in it.                                            *)
LEMMA DoubtRemains ==
    ASSUME IInv, stack # <<>>, NEW q, NEW v \in StatAnswers, v # "file",
           StatSays(q, v), v = "NoSuchFileOrDirectory" => Absent(q),
           NEW t \in past, KindIn(t, q) = "file", style # "refused"
    PROVE  Undecidable(t, q)
<1>1. CASE v \in {"dir", "link", "NoSuchFileOrDirectory", "BadFile"}
  <2>1. \E u \in past : KindIn(u, q) # "file"
    BY <1>1 DEF StatSays, Absent, IsDir
  <2> QED
    BY <2>1 DEF Undecidable
<1>2. CASE v \in {"PermissionDenied", "Broken"}
  <2>1. disturbed \/ \E u \in past : Refusing(u, Parent(q))
    BY <1>2 DEF StatSays
  <2>2. \A u : Refusing(u, Parent(q)) => ~(KindIn(u, Parent(q)) \in {"dir", "file"})
    BY DEF Refusing
  <2> QED
    BY <2>1, <2>2 DEF Undecidable
<1> QED
  BY <1>1, <1>2 DEF StatAnswers, FileKinds

(* A parent that is a file, in whatever way stat says so, has nothing below*)
(* it.                                                                     *)
LEMMA FileAbove ==
    ASSUME past \subseteq Trees, NEW p \in Nodes, FileSeen(Parent(p))
    PROVE  \E t \in past : /\ KindIn(t, p) = "none"
                           /\ \E i \in 1..(Len(p) - 1) : KindIn(t, SubSeq(p, 1, i)) = "file"
<1> DEFINE q == Parent(p)
<1>1. PICK t \in past : KindIn(t, q) = "file" \/ Mirrored(t, q)
  BY DEF FileSeen
<1>2. /\ t \in Trees /\ q # Root => q \in Nodes
      /\ Len(p) \in Nat \ {0} /\ Len(q) = Len(p) - 1
      /\ q = SubSeq(p, 1, Len(q))
  BY <1>1, ParentIsAPath, PathLengths, PathPrefixes DEF Paths
<1>3. CASE KindIn(t, q) = "file"
  <2>1. KindIn(t, p) = "none" /\ q # Root
    BY <1>2, <1>3, NothingBelowNothing, RootFacts DEF IsDir
  <2>2. Len(q) \in 1..(Len(p) - 1)
    <3>1. Len(q) \in Nat /\ Len(q) >= 1
      BY <1>2, <2>1, PathLengths DEF Paths
    <3> QED
      BY <1>2, <3>1
  <2> QED
    BY <1>2, <1>3, <2>1, <2>2
<1>4. CASE Mirrored(t, q)
  <2>1. KindIn(t, Parent(q)) = "file" /\ Len(q) > 1
    BY <1>4 DEF Mirrored
  <2>2. q \in Nodes
    BY <1>2, <2>1, PathLengths
  <2>3. KindIn(t, q) = "none"
    BY <1>2, <2>1, <2>2, NothingBelowNothing DEF IsDir
  <2>4. KindIn(t, p) = "none"
    BY <1>2, <2>3, NothingBelowNothing DEF IsDir
  <2>5. Len(q) - 1 \in 1..(Len(p) - 1)
    BY <1>2, <2>1
  <2>6. Parent(q) = SubSeq(p, 1, Len(q) - 1)
    <3>1. Parent(q) = SubSeq(q, 1, Len(q) - 1)
      BY <2>2, PathPrefixes
    <3> QED
      BY <2>5, <3>1, PathPrefixes
  <2> QED
    BY <2>1, <2>4, <2>5, <2>6
<1> QED
  BY <1>1, <1>3, <1>4

(* What a path below a file inherits.                                      *)
LEMMA BadFileBelow ==
    ASSUME past \subseteq Trees, NEW p \in Nodes, StatSays(Parent(p), "BadFile")
    PROVE  \E t \in past : /\ KindIn(t, p) = "none"
                           /\ \E i \in 1..(Len(p) - 1) : KindIn(t, SubSeq(p, 1, i)) = "file"
<1> DEFINE q == Parent(p)
<1>1. PICK t \in past : /\ KindIn(t, q) = "none"
                        /\ \E i \in 1..(Len(q) - 1) : KindIn(t, SubSeq(q, 1, i)) = "file"
  BY DEF StatSays
<1>2. PICK i \in 1..(Len(q) - 1) : KindIn(t, SubSeq(q, 1, i)) = "file"
  BY <1>1
<1>3. KindIn(t, p) = "none"
  BY <1>1, NothingBelowNothing DEF IsDir
<1>4. Len(p) \in Nat \ {0} /\ Len(q) = Len(p) - 1
  BY PathLengths DEF Paths
<1>5. i \in 1..(Len(p) - 1)
  BY <1>4
<1>6. SubSeq(q, 1, i) = SubSeq(p, 1, i)
  BY <1>5, PathPrefixes
<1> QED
  BY <1>2, <1>3, <1>5, <1>6

(* What was kept is answered, unless the parent turns out to be a file.    *)
LEMMA StatParentSays ==
    ASSUME IInv, AnswersInv, IInv', StatParent
    PROVE  AnswersInv'
<1>1. stack # <<>> /\ Top.at = "stat_parent" /\ Steady
  BY LocalSteady DEF StatParent, At
<1>2. PICK f, r, v :
         /\ f \in FrameType
         /\ f = Top /\ r = ret
         /\ v = IF r = "file" THEN "BadFile"
                ELSE IF r \in {"dir", "link", "PermissionDenied"} THEN f.keep ELSE r
  BY <1>1, TopFacts
<1>3. Return(v)
  BY <1>2 DEF StatParent
<1> DEFINE p == f.path
           q == Parent(p)
<1>4. /\ p \in Nodes /\ Knows(f) /\ StatSays(q, r) /\ r \in StatAnswers
      /\ r = "NoSuchFileOrDirectory" => Absent(q)
      /\ past \subseteq Trees /\ tree \in Trees
  <2>1. Knows(f) /\ Heard(f) /\ Told(f) /\ Kept(f) /\ past \subseteq Trees /\ tree \in Trees
    BY <1>1, <1>2, TopKnows, TopFacts DEF AnswersInv, Running
  <2>2. p \in Nodes
    BY <1>1, <1>2, <2>1 DEF Kept, FrameType, Paths
  <2> QED
    BY <1>1, <1>2, <2>1, <2>2 DEF Heard, Told
<1>5. /\ f.keep \in {"file", "NoSuchFileOrDirectory"}
      /\ f.keep = "file" => \E t \in past : KindIn(t, p) = "file" \/ Mirrored(t, p)
      /\ Calm /\ Clear(p) => f.keep = SeenAt(p) /\ KindIn(tree, q) = "dir"
  BY <1>1, <1>2, <1>4 DEF Knows
<1>6. Calm /\ Clear(p) => r = "dir"
  BY <1>4, <1>5, ClearParent DEF StatSays, SeenAt, FileTypeOf
<1>7. v \in StatAnswers
  BY <1>2, <1>4, <1>5 DEF StatAnswers, FileKinds
<1>8. v = "file" => FileSeen(p)
  <2> SUFFICES ASSUME v = "file" PROVE FileSeen(p)
    OBVIOUS
  <2>1. r # "file" /\ f.keep = "file"
    BY <1>2
  <2>2. PICK t \in past : KindIn(t, p) = "file" \/ Mirrored(t, p)
    BY <1>5, <2>1
  <2>3. CASE KindIn(t, p) = "file"
    BY <2>3 DEF FileSeen
  <2>4. CASE Mirrored(t, p)
    <3>1. KindIn(t, q) = "file" /\ style # "refused"
      BY <2>4 DEF Mirrored
    <3>2. Undecidable(t, q)
      BY <1>1, <1>4, <2>1, <3>1, DoubtRemains
    <3> QED
      BY <2>4, <3>2 DEF FileSeen
  <2> QED
    BY <2>2, <2>3, <2>4
<1>9. v = "BadFile" =>
         \E t \in past : /\ KindIn(t, p) = "none"
                         /\ \E i \in 1..(Len(p) - 1) : KindIn(t, SubSeq(p, 1, i)) = "file"
  <2>1. CASE r = "file"
    <3>1. FileSeen(q)
      BY <1>4, <2>1 DEF StatSays
    <3> QED
      BY <1>4, <3>1, FileAbove
  <2>2. CASE r = "BadFile"
    BY <1>4, <2>2, BadFileBelow
  <2>3. CASE r \notin {"file", "BadFile"}
    BY <1>2, <1>5, <2>3
  <2> QED
    BY <2>1, <2>2, <2>3
<1>10. /\ v \notin {"dir", "link", "PermissionDenied"}
       /\ v = "Broken" => disturbed
  BY <1>2, <1>4, <1>5 DEF StatSays
<1>11. Calm /\ Clear(p) => v = SeenAt(p)
  BY <1>2, <1>5, <1>6
<1>12. StatSays(p, v)
  BY <1>8, <1>9, <1>10, <1>11 DEF StatSays
<1>13. StatSays(p, v)'
  BY <1>1, <1>12, StatSaysKept
<1> QED
  BY <1>1, <1>2, <1>3, <1>7, <1>13, StatReturnSays DEF StatLabels

(* A listing is what is there, or is looked into.                          *)
LEMMA ListDirSays ==
    ASSUME IInv, AnswersInv, IInv', ListDir
    PROVE  AnswersInv'
<1>0. PICK p \in Paths : p = Top.path
  BY TopFacts DEF ListDir, At, FrameType
<1> DEFINE Result(answer) == IF answer.entries = {} THEN "empty" ELSE "entries"
<1>1. stack # <<>> /\ Top.at = "list_dir"
  BY DEF ListDir, At
<1>2. PICK answer \in ListDirRaw(p) :
         /\ ListStep(answer)
         /\ \/ /\ answer.tag = "ok"
               /\ IF p # Root /\ (LooksLikeFile(p, answer.entries) \/ answer.entries = {})
                  THEN CallStat(Frame("list_confirm", p, Result(answer)), p)
                  ELSE Return(Result(answer))
            \/ /\ answer.tag = "refused"
               /\ CallAncestor(Frame("list_absent", p, "none"), p)
            \/ /\ answer.tag \in {"denied", "broken"}
               /\ Return(ErrorOf(answer))
  BY <1>0 DEF ListDir
<1>3. Steady /\ tree \in Trees /\ style \in Styles /\ tree \in past
  BY <1>1, <1>2, ListSteady, TopKnows DEF AnswersInv
<1>4. PICK g \in FrameType : g = Top /\ g.path = p /\ g.at = "list_dir"
  BY <1>0, <1>1, TopFacts
<1>5. CASE answer.tag = "ok"
  <2>1. PICK result \in {"empty", "entries"} : result = Result(answer)
    OBVIOUS
  <2>2. answer = Listing(p)
    BY <1>2, <1>5, TrueAnswers
  <2>3. /\ ~Refusing(tree, p)
        /\ \/ /\ KindIn(tree, p) = "file" /\ style # "refused" /\ p # Root
              /\ LooksLikeFile(p, answer.entries) \/ answer.entries = {}
           \/ /\ KindIn(tree, p) # "file"
              /\ result = Contents(p) /\ Shown(tree, p, result)
    BY <1>3, <1>5, <2>1, <2>2, ListingSays
  <2>4. CASE p # Root /\ (LooksLikeFile(p, answer.entries) \/ answer.entries = {})
    <3> DEFINE c == Frame("list_confirm", p, result)
               f == Frame("stat", p, "none")
    <3>1. result \in Answers
      BY DEF Answers
    <3>2. /\ c \in FrameType /\ c.at = "list_confirm" /\ c.path = p /\ c.keep = result
          /\ f \in FrameType /\ f.at = "stat" /\ f.path = p
      BY <3>1, FrameFacts, Places
    <3>3. Call(c, f)
      BY <1>2, <1>5, <2>1, <2>4 DEF CallStat
    <3> HIDE DEF c, f
    <3>4. Knows(c)
      BY <1>3, <2>3, <2>4, <3>2 DEF Knows
    <3>5. Knows(f) /\ Climbs(c, f) /\ f.at \in Running /\ c.at # "ancestor"
      BY <3>2 DEF Knows, Climbs, Running
    <3> QED
      BY <1>1, <1>3, <3>2, <3>3, <3>4, <3>5, CallSays
  <2>5. CASE ~(p # Root /\ (LooksLikeFile(p, answer.entries) \/ answer.entries = {}))
    <3>1. Return(result)
      BY <1>2, <1>5, <2>1, <2>5
    <3>2. result = Contents(p) /\ Shown(tree, p, result) /\ KindIn(tree, p) # "file"
      BY <2>3, <2>5
    <3>3. result = SeenIn(p)
      BY <2>3, <3>2 DEF SeenIn, Refusing
    <3>4. ListSays(p, result) /\ result \in ListAnswers
      BY <1>3, <3>2, <3>3 DEF ListSays, ListAnswers
    <3>5. ListSays(p, result)'
      BY <1>3, <3>4, ListSaysKept
    <3> QED
      BY <1>1, <1>3, <1>4, <3>1, <3>4, <3>5, ListReturnSays DEF ListLabels
  <2> QED
    BY <2>4, <2>5
<1>6. CASE answer.tag = "refused"
  <2> DEFINE c == Frame("list_absent", p, "none")
             f == Ancestor(p, 0)
  <2>1. c \in FrameType /\ c.at = "list_absent" /\ c.path = p
    BY FrameFacts, Places
  <2>2. f \in FrameType /\ f.at = "ancestor" /\ f.path = p /\ f.tries = 0
    BY AncestorFacts, PathProbeAssumption
  <2>3. Call(c, f)
    BY <1>2, <1>6 DEF CallAncestor
  <2> HIDE DEF c, f
  <2>4. Refusing(tree, p)
    BY <1>2, <1>3, <1>6, TrueAnswers, ListingComes
  <2>5. Knows(c)
    BY <2>1, <2>4 DEF Knows
  <2>6. Climbs(c, f)
    <3>1. Len(p) \in Nat /\ p = SubSeq(p, 1, Len(p))
      <4>1. CASE p \in Nodes
        BY <4>1, PathLengths, PathPrefixes DEF Paths
      <4>2. CASE p = Root
        <5>1. SubSeq(Root, 1, 0) = <<>>
          BY SubSeqEmpty
        <5> QED
          BY <4>2, <5>1, PathLengths DEF Root
      <4> QED
        BY <4>1, <4>2 DEF Paths
    <3>2. \A m \in Nat : m <= m /\ 0 <= m - m /\ \A i \in m..m : i = m
      OBVIOUS
    <3> QED
      BY <2>1, <2>2, <3>1, <3>2 DEF Climbs, Provable
  <2>7. Knows(f) /\ f.at \in Running /\ c.at # "ancestor"
    BY <2>1, <2>2 DEF Knows, Running
  <2> QED
    BY <1>1, <1>3, <2>1, <2>2, <2>3, <2>5, <2>6, <2>7, CallSays
<1>7. CASE answer.tag \in {"denied", "broken"}
  <2>1. PICK v \in {"PermissionDenied", "Broken"} : v = ErrorOf(answer)
    BY DEF ErrorOf
  <2>2. disturbed'
    BY <1>2, <1>7, TrueAnswers
  <2>3. ListSays(p, v)' /\ v \in ListAnswers
    BY <2>2, ErrorsSayNext DEF ListAnswers, StatAnswers, FileKinds
  <2>4. Return(v)
    BY <1>2, <1>7, <2>1
  <2> QED
    BY <1>1, <1>3, <1>4, <2>3, <2>4, ListReturnSays DEF ListLabels
<1> QED
  BY <1>2, <1>5, <1>6, <1>7

(* The second look takes back only the listing of a file.                  *)
LEMMA ListConfirmSays ==
    ASSUME IInv, AnswersInv, IInv', ListConfirm
    PROVE  AnswersInv'
<1>1. stack # <<>> /\ Top.at = "list_confirm" /\ Steady
  BY LocalSteady DEF ListConfirm, At
<1>2. PICK f, r, v :
         /\ f \in FrameType
         /\ f = Top /\ r = ret
         /\ v = IF r = "file" THEN "BadFile" ELSE f.keep
  BY <1>1, TopFacts
<1>3. Return(v)
  BY <1>2 DEF ListConfirm
<1> DEFINE p == f.path
<1>4. /\ Knows(f) /\ StatSays(p, r) /\ r \in StatAnswers
      /\ r = "NoSuchFileOrDirectory" => Absent(p)
      /\ f.keep \in {"empty", "entries"}
  <2>1. Knows(f) /\ Heard(f) /\ Told(f) /\ Kept(f)
    BY <1>1, <1>2, TopKnows, TopFacts DEF AnswersInv, Running
  <2> QED
    BY <1>1, <1>2, <2>1 DEF Heard, Told, Kept
<1>5. /\ p # Root
      /\ \E t \in past : \/ Shown(t, p, f.keep)
                         \/ KindIn(t, p) = "file" /\ style # "refused"
      /\ Calm => ~Refusing(tree, p) /\ (KindIn(tree, p) # "file" => f.keep = Contents(p))
  BY <1>1, <1>2, <1>4 DEF Knows
<1>6. v \in ListAnswers /\ v \in {"BadFile", "empty", "entries"}
  BY <1>2, <1>4 DEF ListAnswers, StatAnswers, FileKinds
<1>7. v = "BadFile" => FileSeen(p)
  BY <1>2, <1>4 DEF StatSays
<1>8. v \in {"entries", "empty"} =>
         \E t \in past : \/ Shown(t, p, v)
                         \/ p # Root /\ style # "refused" /\ Undecidable(t, p)
  <2> SUFFICES ASSUME v \in {"entries", "empty"}
               PROVE  \E t \in past : \/ Shown(t, p, v)
                                      \/ p # Root /\ style # "refused" /\ Undecidable(t, p)
    OBVIOUS
  <2>1. r # "file" /\ v = f.keep
    BY <1>2
  <2>2. PICK t \in past : \/ Shown(t, p, f.keep)
                          \/ KindIn(t, p) = "file" /\ style # "refused"
    BY <1>5
  <2>3. CASE Shown(t, p, f.keep)
    BY <2>1, <2>3
  <2>4. CASE KindIn(t, p) = "file" /\ style # "refused"
    <3>1. Undecidable(t, p)
      BY <1>1, <1>4, <2>1, <2>4, DoubtRemains
    <3> QED
      BY <1>5, <2>4, <3>1
  <2> QED
    BY <2>2, <2>3, <2>4
<1>9. Calm /\ Clear(p) => v = SeenIn(p)
  <2> SUFFICES ASSUME Calm, Clear(p) PROVE v = SeenIn(p)
    OBVIOUS
  <2>1. r = SeenAt(p) /\ ~Refusing(tree, p)
    BY <1>4, <1>5 DEF StatSays
  <2>2. r = "file" <=> KindIn(tree, p) = "file"
    BY <2>1 DEF SeenAt, FileTypeOf, Refusing
  <2> QED
    BY <1>2, <1>5, <2>1, <2>2 DEF SeenIn, Refusing
<1>10. ListSays(p, v)
  BY <1>7, <1>8, <1>9 DEF ListSays
<1>11. ListSays(p, v)'
  BY <1>1, <1>10, ListSaysKept
<1> QED
  BY <1>1, <1>2, <1>3, <1>6, <1>11, ListReturnSays DEF ListLabels

(* What the frames of exists and of the classification have heard.         *)
LEMMA OuterHeard ==
    ASSUME IInv, AnswersInv, stack # <<>>, Top.at \in Classified \cup {"exists"}
    PROVE  /\ StatSays(path, ret) /\ ret \in StatAnswers
           /\ op = Top.at /\ Top.path = path
<1>1. Top.at \notin Running
  BY DEF Classified, Running
<1>2. Heard(Top)
  BY <1>1, TopKnows DEF AnswersInv
<1> QED
  BY <1>2, OuterTold DEF Heard

(* An operation that ends on the answer of stat.                           *)
LEMMA OuterSays ==
    ASSUME IInv, AnswersInv, IInv', stack # <<>>, Top.at \in Classified \cup {"exists"},
           NEW w, w = ret, NEW v, Return(v), LocalStep, StatOutcome(w)'
    PROVE  AnswersInv'
<1>1. Steady
  BY LocalSteady
<1>2. PICK p : p = path
  OBVIOUS
<1>3. StatSays(p, w) /\ w \in StatAnswers
  BY <1>2, OuterHeard
<1>4. StatSays(p, w)' /\ path' = p
  BY <1>1, <1>2, <1>3, StatSaysKept DEF Steady
<1>5. StatEnds'
  BY <1>3, <1>4 DEF StatEnds
<1> QED
  BY <1>1, <1>5, OuterReturnSays DEF OuterLabels, Ended


(* exists reads off the answer of stat what there is.                      *)
LEMMA ExistsSays ==
    ASSUME IInv, AnswersInv, IInv', Exists
    PROVE  AnswersInv'
<1>1. PICK w, v :
         /\ w = ret
         /\ v = IF w \in FileKinds THEN "true"
                ELSE IF w = "NoSuchFileOrDirectory" THEN "false" ELSE w
  OBVIOUS
<1>2. stack # <<>> /\ Top.at = "exists" /\ Return(v) /\ LocalStep
  BY <1>1 DEF Exists, At
<1>3. op' = "exists" /\ ret' = v
  BY <1>2, OuterHeard DEF LocalStep, Return
<1>4. StatOutcome(w)'
  BY <1>1, <1>3 DEF StatOutcome
<1> QED
  BY <1>1, <1>2, <1>4, OuterSays

(* So do remove_file and open, of what has been refused with 550.          *)
LEMMA ClassifyFileRefusalSays ==
    ASSUME IInv, AnswersInv, IInv', ClassifyFileRefusal
    PROVE  AnswersInv'
<1>1. PICK w, v : w = ret /\ v = IF w = "dir" THEN "BadFile" ELSE "NoSuchFileOrDirectory"
  OBVIOUS
<1>2. StatusKinds["r550"] = "NoSuchFileOrDirectory"
  BY DEF StatusKinds, ReplyCodes
<1>3. stack # <<>> /\ Top.at = "file_refusal" /\ Return(v) /\ LocalStep
  BY <1>1, <1>2 DEF ClassifyFileRefusal, At
<1>4. op' = "file_refusal" /\ ret' = v
  BY <1>3, OuterHeard DEF LocalStep, Return, Classified
<1>5. StatOutcome(w)'
  BY <1>1, <1>4 DEF StatOutcome
<1> QED
  BY <1>1, <1>3, <1>5, OuterSays DEF Classified

(* The parent of a destination is asked about only if that decides.        *)
LEMMA DestinationSays ==
    ASSUME IInv, AnswersInv, stack # <<>>, LocalStep, NEW q \in Nodes,
           CallStat(Frame("destination_parent", q, "none"), Parent(q)),
           Calm /\ Clear(path) =>
              (op = "rename_refusal" <=> SeenAt(path) # "NoSuchFileOrDirectory")
    PROVE  AnswersInv'
<1> DEFINE c == Frame("destination_parent", q, "none")
           f == Frame("stat", Parent(q), "none")
<1>1. q \in Paths /\ Parent(q) \in Paths
  BY ParentIsAPath DEF Paths
<1>2. /\ c \in FrameType /\ c.at = "destination_parent" /\ c.path = q
      /\ f \in FrameType /\ f.at = "stat" /\ f.path = Parent(q)
  BY <1>1, FrameFacts, Places
<1>3. Call(c, f)
  BY DEF CallStat
<1> HIDE DEF c, f
<1>4. Knows(c)
  BY <1>2 DEF Knows
<1>5. Knows(f) /\ Climbs(c, f) /\ f.at \in Running /\ c.at # "ancestor"
  BY <1>2 DEF Knows, Climbs, Running
<1> QED
  BY <1>2, <1>3, <1>4, <1>5, LocalSteady, CallSays

(* A refused creation of a file or a directory.                            *)
LEMMA ClassifyCreateSays ==
    ASSUME IInv, AnswersInv, IInv', ClassifyCreateRefusal \/ ClassifyCreateDirRefusal
    PROVE  AnswersInv'
<1>1. /\ stack # <<>> /\ Top.at \in {"create_refusal", "create_dir_refusal"} /\ LocalStep
      /\ op = Top.at /\ Top.path = path /\ StatSays(path, ret) /\ path \in Paths
  <2>1. stack # <<>> /\ Top.at \in {"create_refusal", "create_dir_refusal"} /\ LocalStep
    BY DEF ClassifyCreateRefusal, ClassifyCreateDirRefusal, At
  <2>2. path \in Paths
    BY DEF IInv, TypeOK, Paths
  <2> QED
    BY <2>1, <2>2, OuterHeard DEF Classified
<1>2. CASE /\ ret = "NoSuchFileOrDirectory" /\ path # Root
           /\ CallStat(Frame("destination_parent", path, "none"), Parent(path))
  <2>1. PICK q \in Nodes : q = path
    BY <1>1, <1>2 DEF Paths
  <2>2. CallStat(Frame("destination_parent", q, "none"), Parent(q))
    BY <1>2, <2>1
  <2>3. Calm /\ Clear(path) =>
           (op = "rename_refusal" <=> SeenAt(path) # "NoSuchFileOrDirectory")
    BY <1>1, <1>2 DEF StatSays
  <2> QED
    BY <1>1, <2>2, <2>3, DestinationSays
<1>3. CASE /\ ret # "NoSuchFileOrDirectory" \/ path = Root
           /\ op = "create_refusal"
           /\ Return(IF ret = "dir" THEN "AlreadyExists" ELSE "PermissionDenied")
  <2>1. PICK w, v : w = ret /\ v = IF w = "dir" THEN "AlreadyExists" ELSE "PermissionDenied"
    OBVIOUS
  <2>2. Return(v) /\ op' = op /\ path' = path /\ ret' = v
    BY <1>1, <1>3, <2>1 DEF LocalStep, Return
  <2>3. StatOutcome(w)'
    BY <1>3, <2>1, <2>2 DEF StatOutcome
  <2> QED
    BY <1>1, <2>1, <2>2, <2>3, OuterSays DEF Classified
<1>4. CASE /\ ret # "NoSuchFileOrDirectory" \/ path = Root
           /\ op = "create_dir_refusal"
           /\ Return(IF ret \in FileKinds THEN "AlreadyExists" ELSE "PermissionDenied")
  <2>1. PICK w, v :
           w = ret /\ v = IF w \in FileKinds THEN "AlreadyExists" ELSE "PermissionDenied"
    OBVIOUS
  <2>2. Return(v) /\ op' = op /\ path' = path /\ ret' = v
    BY <1>1, <1>4, <2>1 DEF LocalStep, Return
  <2>3. StatOutcome(w)'
    BY <1>4, <2>1, <2>2 DEF StatOutcome
  <2> QED
    BY <1>1, <2>1, <2>2, <2>3, OuterSays DEF Classified
<1>5. CASE ClassifyCreateRefusal
  BY <1>1, <1>2, <1>3, <1>5 DEF ClassifyCreateRefusal, At
<1>6. CASE ClassifyCreateDirRefusal
  BY <1>1, <1>2, <1>4, <1>6 DEF ClassifyCreateDirRefusal, At
<1> QED
  BY <1>5, <1>6

(* A refused rename: a source that is there leaves the destination.        *)
LEMMA ClassifyRenameSays ==
    ASSUME IInv, AnswersInv, IInv', ClassifyRenameRefusal
    PROVE  AnswersInv'
<1>1. /\ stack # <<>> /\ Top.at = "rename_refusal" /\ LocalStep
      /\ op = "rename_refusal" /\ StatSays(path, ret) /\ dest \in Paths
  <2>1. stack # <<>> /\ Top.at = "rename_refusal" /\ LocalStep
    BY DEF ClassifyRenameRefusal, At
  <2>2. dest \in Paths
    BY DEF IInv, TypeOK, Paths
  <2> QED
    BY <2>1, <2>2, OuterHeard DEF Classified
<1>2. CASE /\ ret \in FileKinds /\ dest # Root
           /\ CallStat(Frame("destination_parent", dest, "none"), Parent(dest))
  <2>1. PICK q \in Nodes : q = dest
    BY <1>1, <1>2 DEF Paths
  <2>2. CallStat(Frame("destination_parent", q, "none"), Parent(q))
    BY <1>2, <2>1
  <2>3. Calm /\ Clear(path) =>
           (op = "rename_refusal" <=> SeenAt(path) # "NoSuchFileOrDirectory")
    BY <1>1, <1>2 DEF StatSays, FileKinds
  <2> QED
    BY <1>1, <2>2, <2>3, DestinationSays
<1>3. CASE /\ ret \notin FileKinds \/ dest = Root
           /\ Return(IF ret = "NoSuchFileOrDirectory" THEN ret ELSE "PermissionDenied")
  <2>1. PICK w, v :
           w = ret /\ v = IF w = "NoSuchFileOrDirectory" THEN w ELSE "PermissionDenied"
    OBVIOUS
  <2>2. Return(v) /\ op' = op /\ dest' = dest /\ ret' = v
    BY <1>1, <1>3, <2>1 DEF LocalStep, Return
  <2>3. StatOutcome(w)'
    BY <1>1, <1>3, <2>1, <2>2 DEF StatOutcome
  <2> QED
    BY <1>1, <2>1, <2>2, <2>3, OuterSays DEF Classified
<1> QED
  BY <1>2, <1>3 DEF ClassifyRenameRefusal

(* What the parent of a destination decides.                               *)
LEMMA DestinationParentIsMissingSays ==
    ASSUME IInv, AnswersInv, IInv', DestinationParentIsMissing
    PROVE  AnswersInv'
<1>1. PICK u, v :
         u = ret /\ v = IF u = "NoSuchFileOrDirectory" THEN u ELSE "PermissionDenied"
  OBVIOUS
<1>2. stack # <<>> /\ Top.at = "destination_parent" /\ Return(v) /\ LocalStep
  BY <1>1 DEF DestinationParentIsMissing, At
<1>3. PICK f \in FrameType : f = Top
  BY <1>2, TopFacts
<1>4. Bottom(f) /\ Told(f) /\ Kept(f) /\ op \in Ops /\ Heard(f) /\ Knows(f)
  BY <1>2, <1>3, OuterIsBottom, TopKnows DEF OuterLabels, AnswersInv, Running
<1>5. PICK q \in Nodes : q = f.path
  BY <1>2, <1>3, <1>4 DEF Kept, FrameType, Paths
<1>6. StatSays(Parent(q), u) /\ u \in StatAnswers
  BY <1>1, <1>2, <1>3, <1>4, <1>5 DEF Heard, Told
<1>7. /\ \/ op \in {"create_refusal", "create_dir_refusal"} /\ q = path
         \/ op = "rename_refusal" /\ q = dest
      /\ Calm /\ Clear(path) =>
            (op = "rename_refusal" <=> SeenAt(path) # "NoSuchFileOrDirectory")
  BY <1>2, <1>3, <1>4, <1>5 DEF Bottom, Knows, Ops, Classified, StatLabels, ListLabels
<1>8. Steady /\ StatSays(Parent(q), u)' /\ ret' = v
  BY <1>2, <1>6, LocalSteady, StatSaysKept DEF Return
<1>9. (Calm /\ Clear(path) =>
         (op = "rename_refusal" <=> SeenAt(path) # "NoSuchFileOrDirectory"))'
  BY <1>7, <1>8, PartsKept DEF Steady
<1>10. ParentEnds'
  BY <1>1, <1>6, <1>7, <1>8, <1>9 DEF ParentEnds, Steady
<1> QED
  BY <1>2, <1>8, <1>10, OuterReturnSays DEF OuterLabels, Ended

(* A refused removal of a directory: what is there, or what is in it.      *)
LEMMA ClassifyRemoveDirSays ==
    ASSUME IInv, AnswersInv, IInv', ClassifyRemoveDirRefusal
    PROVE  AnswersInv'
<1>1. /\ stack # <<>> /\ Top.at = "remove_dir_refusal" /\ LocalStep
      /\ op = "remove_dir_refusal" /\ Top.path = path /\ StatSays(path, ret) /\ path \in Paths
  <2>1. stack # <<>> /\ Top.at = "remove_dir_refusal" /\ LocalStep
    BY DEF ClassifyRemoveDirRefusal, At
  <2>2. path \in Paths
    BY DEF IInv, TypeOK, Paths
  <2> QED
    BY <2>1, <2>2, OuterHeard DEF Classified
<1>2. CASE /\ ret = "dir"
           /\ Call(Frame("remove_dir_contents", path, "none"), Frame("list_dir", path, "none"))
  <2>1. PICK p \in Paths : p = path
    BY <1>1
  <2> DEFINE c == Frame("remove_dir_contents", p, "none")
             f == Frame("list_dir", p, "none")
  <2>2. /\ c \in FrameType /\ c.at = "remove_dir_contents" /\ c.path = p
        /\ f \in FrameType /\ f.at = "list_dir" /\ f.path = p
    BY FrameFacts, Places
  <2>3. Call(c, f)
    BY <1>2, <2>1
  <2> HIDE DEF c, f
  <2>4. Knows(c)
    BY <1>1, <1>2, <2>1, <2>2 DEF Knows, StatSays
  <2>5. Knows(f) /\ Climbs(c, f) /\ f.at \in Running /\ c.at # "ancestor"
    BY <2>2 DEF Knows, Climbs, Running
  <2> QED
    BY <1>1, <2>2, <2>3, <2>4, <2>5, LocalSteady, CallSays
<1>3. CASE /\ ret # "dir"
           /\ Return(IF ret \in FileKinds THEN "BadFile"
                     ELSE IF ret = "NoSuchFileOrDirectory" THEN ret ELSE "PermissionDenied")
  <2>1. PICK w, v :
           /\ w = ret
           /\ v = IF w \in FileKinds THEN "BadFile"
                  ELSE IF w = "NoSuchFileOrDirectory" THEN w ELSE "PermissionDenied"
    OBVIOUS
  <2>2. Return(v) /\ op' = op /\ ret' = v
    BY <1>1, <1>3, <2>1 DEF LocalStep, Return
  <2>3. StatOutcome(w)'
    BY <1>1, <1>3, <2>1, <2>2 DEF StatOutcome
  <2> QED
    BY <1>1, <2>1, <2>2, <2>3, OuterSays DEF Classified
<1> QED
  BY <1>1, <1>2, <1>3 DEF ClassifyRemoveDirRefusal

(* A directory is not empty if its listing has entries.                    *)
LEMMA RemoveDirContentsSays ==
    ASSUME IInv, AnswersInv, IInv', RemoveDirContents
    PROVE  AnswersInv'
<1>1. PICK w, v, p :
         /\ w = ret /\ p = path
         /\ v = IF w = "entries" THEN "DirectoryNotEmpty" ELSE "PermissionDenied"
  OBVIOUS
<1>2. stack # <<>> /\ Top.at = "remove_dir_contents" /\ Return(v) /\ LocalStep
  BY <1>1 DEF RemoveDirContents, At
<1>3. PICK f \in FrameType : f = Top
  BY <1>2, TopFacts
<1>4. Bottom(f) /\ op \in Ops /\ Heard(f) /\ Knows(f)
  BY <1>2, <1>3, OuterIsBottom, TopKnows DEF OuterLabels, AnswersInv, Running
<1>5. op = "remove_dir_refusal" /\ f.path = p
  BY <1>1, <1>2, <1>3, <1>4 DEF Bottom, Ops, Classified, StatLabels, ListLabels
<1>6. ListSays(p, w)
  BY <1>1, <1>2, <1>3, <1>4, <1>5 DEF Heard
<1>7. Steady /\ ListSays(p, w)' /\ ret' = v /\ op' = op /\ path' = p
  BY <1>1, <1>2, <1>6, LocalSteady, ListSaysKept DEF Return, Steady
<1>8. (Calm /\ Clear(path) => SeenAt(path) = "dir")'
  <2>1. Calm /\ Clear(p) => SeenAt(p) = "dir"
    BY <1>2, <1>3, <1>4, <1>5 DEF Knows
  <2>2. Calm' /\ Clear(p)' => SeenAt(p)' = "dir"
    BY <1>7, <2>1, PartsKept
  <2> QED
    BY <1>7, <2>2
<1>9. ListEnds'
  BY <1>1, <1>5, <1>7, <1>8 DEF ListEnds
<1> QED
  BY <1>2, <1>7, <1>9, OuterReturnSays DEF OuterLabels, Ended

(* An operation begins with frames that know nothing yet.                  *)
LEMMA BeginSays == IInv /\ Begin => AnswersInv'
<1> SUFFICES ASSUME IInv, Begin PROVE AnswersInv'
  OBVIOUS
<1>1. op' \in Ops /\ path' \in Paths
  BY DEF Begin, Paths
<1>2. PICK f \in FrameType, g \in FrameType :
         /\ f = Frame(op', path', "none") /\ f.at = op' /\ f.path = path'
         /\ g = Frame("stat", path', "none") /\ g.at = "stat" /\ g.path = path'
  BY <1>1, FrameFacts, Places
<1>3. stack' = IF op' \in {"list_dir", "stat"} THEN <<f>> ELSE <<f, g>>
  BY <1>2 DEF Begin
<1>4. Knows(f)' /\ Knows(g)' /\ Climbs(f, g)'
  BY <1>1, <1>2 DEF Knows, Climbs, Ops, Classified
<1>5. FramesInv' /\ stack' # <<>>
  <2>1. CASE op' \in {"list_dir", "stat"}
    <3>1. Len(stack') = 1 /\ stack'[1] = f /\ Top' = f /\ stack' # <<>>
      BY <1>3, <2>1 DEF Top, Last
    <3>2. \A i \in 1..Len(stack') : i = 1
      BY <3>1
    <3>3. \A i \in 1..(Len(stack') - 1) : FALSE
      BY <3>1
    <3> QED
      BY <1>2, <1>4, <2>1, <3>1, <3>2, <3>3 DEF FramesInv, Running
  <2>2. CASE op' \notin {"list_dir", "stat"}
    <3>1. /\ Len(stack') = 2 /\ stack'[1] = f /\ stack'[2] = g
          /\ Top' = g /\ stack' # <<>>
      BY <1>3, <2>2 DEF Top, Last
    <3>2. \A i \in 1..Len(stack') : i = 1 \/ i = 2
      BY <3>1
    <3>3. \A i \in 1..(Len(stack') - 1) : i = 1 /\ i + 1 = 2
      BY <3>1
    <3> QED
      BY <1>2, <1>4, <3>1, <3>2, <3>3 DEF FramesInv, Running
  <2> QED
    BY <2>1, <2>2
<1> QED
  BY <1>5 DEF AnswersInv, ClaimsAreReal, ExactWhenListable, Done

(* Nothing runs.                                                           *)
LEMMA NothingSaid == stack = <<>> /\ op = "none" => AnswersInv
<1>1. Len(<<>>) = 0
  OBVIOUS
<1>2. \A i \in 1..0 : FALSE
  OBVIOUS
<1>3. \A i \in 1..(0 - 1) : FALSE
  OBVIOUS
<1> QED
  BY <1>1, <1>2, <1>3 DEF AnswersInv, FramesInv, ClaimsAreReal, ExactWhenListable, Done, Idle

(* A step that leaves the frames alone: what they know is about the past.  *)
LEMMA FramesKept ==
    ASSUME FramesInv, Steady, UNCHANGED <<stack, ret>>
    PROVE  FramesInv'
<1>1. \A i \in 1..Len(stack') : Knows(stack[i])'
  <2> SUFFICES ASSUME NEW i \in 1..Len(stack') PROVE Knows(stack[i])'
    OBVIOUS
  <2>1. PICK g : g = stack[i]
    OBVIOUS
  <2>2. Knows(g)'
    BY <2>1, KnowsKept DEF FramesInv
  <2> QED
    BY <2>1, <2>2
<1>2. \A i \in 1..(Len(stack') - 1) : Climbs(stack[i], stack[i + 1])'
  <2> SUFFICES ASSUME NEW i \in 1..(Len(stack') - 1) PROVE Climbs(stack[i], stack[i + 1])'
    OBVIOUS
  <2>1. PICK g, h : g = stack[i] /\ h = stack[i + 1]
    OBVIOUS
  <2>2. Climbs(g, h)'
    BY <2>1, ClimbsKept DEF FramesInv
  <2> QED
    BY <2>1, <2>2
<1>3. stack' # <<>> => Top'.at \in Running \/ Heard(Top)'
  <2> SUFFICES ASSUME stack' # <<>> PROVE Top'.at \in Running \/ Heard(Top)'
    OBVIOUS
  <2>1. PICK c, r : c = Top /\ r = ret
    OBVIOUS
  <2>2. c.at \in Running \/ Heard(c)
    BY <2>1 DEF FramesInv
  <2>3. Heard(c) => Heard(c)'
    <3>1. ret' = r /\ (Provable(c)' => Provable(c))
      BY <2>1, ClimbsKept
    <3>2. \A p : StatSays(p, r) => StatSays(p, r)'
      BY StatSaysKept
    <3>3. \A p : ListSays(p, r) => ListSays(p, r)'
      BY ListSaysKept
    <3> QED
      BY <2>1, <3>1, <3>2, <3>3 DEF Heard
  <2>4. Top' = c
    BY <2>1 DEF Top
  <2> QED
    BY <2>2, <2>3, <2>4
<1> QED
  BY <1>1, <1>2, <1>3 DEF FramesInv

(* Others may change the tree.                                             *)
LEMMA ChangeSays == IInv /\ AnswersInv /\ Change => AnswersInv'
<1> SUFFICES ASSUME IInv, AnswersInv, Change PROVE AnswersInv'
  OBVIOUS
<1>1. Steady /\ UNCHANGED <<stack, ret>> /\ stack # <<>>
  BY ChangeSteady DEF Change, probe, Done
<1>2. FramesInv'
  BY <1>1, FramesKept DEF AnswersInv
<1> QED
  BY <1>1, <1>2 DEF AnswersInv, ClaimsAreReal, ExactWhenListable, Done

-----------------------------------------------------------------------------
(* The invariant.                                                          *)

(* It holds before the first operation.                                    *)
LEMMA AnswersInvInit == Init => AnswersInv
BY NothingSaid DEF Init

(* It is inductive, beside IInv.                                           *)
LEMMA AnswersInvStep == IInv /\ AnswersInv /\ [Next]_vars => AnswersInv'
<1> SUFFICES ASSUME IInv, AnswersInv, [Next]_vars PROVE AnswersInv'
  OBVIOUS
<1>1. IInv'
  BY IInvStep
<1>2. CASE Begin
  BY <1>2, BeginSays
<1>3. CASE ProbeStep
  BY <1>1, <1>3, AncestorProvesAbsentSays, AncestorGivesUpSays, RefusalResolvedSays,
     StatRootSays, StatStepSays, StatParentSays, ListDirSays, ListConfirmSays, ExistsSays,
     ClassifyFileRefusalSays, ClassifyCreateSays, ClassifyRenameSays,
     DestinationParentIsMissingSays, ClassifyRemoveDirSays, RemoveDirContentsSays
     DEF ProbeStep
<1>4. CASE Change
  BY <1>4, ChangeSays
<1>5. CASE End
  <2>1. (stack = <<>> /\ op = "none" => AnswersInv)'
    BY NothingSaid, PTL
  <2>2. stack' = <<>> /\ op' = "none"
    BY <1>5 DEF End, Done
  <2> QED
    BY <2>1, <2>2
<1>6. CASE UNCHANGED vars
  <2>1. UNCHANGED <<tree, style, changes, op, path, dest, stack, ret, lists, past, disturbed>>
    BY <1>6 DEF vars, world, probe
  <2>2. Steady
    BY <2>1 DEF Steady, Calm
  <2>3. FramesInv'
    BY <2>1, <2>2, FramesKept DEF AnswersInv
  <2>4. ClaimsAreReal'
    BY <2>1 DEF AnswersInv, ClaimsAreReal, Done, Idle, Supports, Deceptive, Undecidable
  <2>5. ExactWhenListable'
    BY <2>1 DEF AnswersInv, ExactWhenListable, Done, Idle, Clear, Expected, SeenAt, MissingParent
  <2> QED
    BY <2>3, <2>4, <2>5 DEF AnswersInv
<1> QED
  BY <1>2, <1>3, <1>4, <1>5, <1>6 DEF Next

(* The inductive invariant holds of every reachable state.                 *)
THEOREM AnswersInvCorrect == Spec => []AnswersInv
BY AnswersInvInit, AnswersInvStep, IInvCorrect, PTL DEF Spec

(* Every definite answer -- it is there and of this kind, it is a file or a *)
(* directory where the other was wanted, it is not empty -- was true of the *)
(* server at some moment of the operation, except for the one ambiguity of *)
(* LIST that stat accepts knowingly (sync.rs:418-890).                     *)
THEOREM ClaimsReal == Spec => []ClaimsAreReal
<1>1. AnswersInv => ClaimsAreReal
  BY DEF AnswersInv
<1> QED
  BY <1>1, AnswersInvCorrect, PTL

(* When nobody interferes and the directories above can be listed, stat,   *)
(* list_dir, exists and the classification of a refused command answer as   *)
(* somebody would who sees the tree.                                       *)
THEOREM ExactAnswers == Spec => []ExactWhenListable
<1>1. AnswersInv => ExactWhenListable
  BY DEF AnswersInv
<1> QED
  BY <1>1, AnswersInvCorrect, PTL

=============================================================================
