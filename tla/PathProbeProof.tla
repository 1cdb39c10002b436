--------------------------- MODULE PathProbeProof ---------------------------
(***************************************************************************)
(* An absence that is reported is real, and the LISTs of one operation are *)
(* bounded by the depth of its paths: for trees of every shape and depth.  *)
(*                                                                         *)
(* Frames wait for each other in few ways (Calls).  Each kind of frame     *)
(* promises something of its answer (Means), which is what its caller      *)
(* goes on to rely on (Told), and a frame keeps an absence only where it   *)
(* has seen one (Kept).  Whatever has been absent at some moment of the    *)
(* operation stays so, as the past only grows; and what is absent above a  *)
(* path is absent at the path.  The step of each action is then the        *)
(* promise of the frame on top, and one of three lemmas about the stack:   *)
(* a return, a call, a turn of the ancestor loop.                          *)
(*                                                                         *)
(* The bound is an account: Cost says what a frame may still send, and no  *)
(* step makes what has been sent and what is due exceed the allowance.     *)
(***************************************************************************)
EXTENDS PathProbe, SequenceTheorems, TLAPS

Paths == Nodes \cup {Root}

StatLabels == {"stat", "stat_absent", "stat_parent"}
ListLabels == {"list_dir", "list_confirm", "list_absent"}
Running == {"stat", "list_dir", "ancestor"}
Labels == StatLabels \cup ListLabels \cup Classified
          \cup {"ancestor", "exists", "destination_parent", "remove_dir_contents"}

FrameType == [at : Labels, path : Paths, keep : Answers, tries : 0..MaxAncestors]

(* Some tree there has been since the operation began has nothing at p.     *)
Absent(p) == \E t \in past : KindIn(t, p) = "none"

(* Where nothing is at q, nothing is at p: p is q or below it.             *)
Above(q, p) == \A t \in Trees : KindIn(t, q) = "none" => KindIn(t, p) = "none"

StatAnswers == FileKinds \cup {"NoSuchFileOrDirectory", "BadFile", "PermissionDenied", "Broken"}
ListAnswers == {"empty", "entries"} \cup (StatAnswers \ FileKinds)

(* What a callee f may tell its caller.                                    *)
Means(f, v) ==
    /\ f.at \in StatLabels => v \in StatAnswers
    /\ f.at \in ListLabels => v \in ListAnswers
    /\ f.at \in StatLabels \cup ListLabels =>
          (v = "NoSuchFileOrDirectory" => Absent(f.path))
    /\ f.at = "ancestor" => v \in {"absent", "unproved"} /\ (v = "absent" => Absent(f.path))

(* Frame c waits for the frame above it, f.                                *)
Calls(c, f) ==
    \/ c.at \in {"stat_absent", "list_absent"} /\ f.at = "ancestor" /\ Above(f.path, c.path)
    \/ /\ c.at \in {"stat_parent", "destination_parent"}
       /\ f.at \in StatLabels /\ f.path = Parent(c.path)
    \/ c.at \in {"list_confirm", "exists"} \cup Classified /\ f.at \in StatLabels /\ f.path = c.path
    \/ c.at = "remove_dir_contents" /\ f.at \in ListLabels /\ f.path = c.path

(* What ret tells the frame that the last call has returned to.            *)
Told(c) ==
    /\ c.at \in {"stat_absent", "list_absent"} =>
          (ret = "absent" => Absent(c.path))
    /\ c.at \in {"stat_parent", "destination_parent"} =>
          ret \in StatAnswers /\ (ret = "NoSuchFileOrDirectory" => Absent(Parent(c.path)))
    /\ c.at \in {"list_confirm", "exists"} \cup Classified =>
          ret \in StatAnswers /\ (ret = "NoSuchFileOrDirectory" => Absent(c.path))

(* What a frame keeps while it waits.                                      *)
Kept(f) ==
    /\ f.at \in {"stat_absent", "stat_parent", "destination_parent"} => f.path # Root
    /\ f.at = "stat_parent" =>
          /\ f.keep \in FileKinds \cup {"NoSuchFileOrDirectory"}
          /\ f.keep = "NoSuchFileOrDirectory" => Absent(f.path)
    /\ f.at = "list_confirm" => f.keep \in {"empty", "entries"}

(* The frame at the bottom belongs to the operation.                       *)
Bottom(f) ==
    \/ f.at = op /\ f.path = path
    \/ op = "stat" /\ f.at \in StatLabels /\ f.path = path
    \/ op = "list_dir" /\ f.at \in ListLabels /\ f.path = path
    \/ /\ op \in {"create_refusal", "create_dir_refusal"}
       /\ f.at = "destination_parent" /\ f.path = path
    \/ op = "rename_refusal" /\ f.at = "destination_parent" /\ f.path = dest
    \/ op = "remove_dir_refusal" /\ f.at = "remove_dir_contents" /\ f.path = path

StackInv ==
    /\ stack \in Seq(FrameType)
    /\ stack # <<>> => op \in Ops /\ Bottom(stack[1])
    /\ \A i \in 1..(Len(stack) - 1) : Calls(stack[i], stack[i + 1])
    /\ \A i \in 1..Len(stack) : Kept(stack[i])
    /\ stack # <<>> => Top.at \in Running \/ Told(Top)

PastInv == op # "none" => tree \in past

(* The inductive invariant.  StackInv says which frames wait for which, and *)
(* that what each has been told, or keeps, is an absence only if it is one. *)
IInv == TypeOK /\ PastInv /\ StackInv /\ AbsenceIsReal

(* How many LISTs a frame may still cause before it returns.               *)
Cost(f) ==
    CASE f.at \in {"stat", "ancestor"} -> Len(f.path)
      [] f.at \in {"list_dir", "remove_dir_refusal"} -> Len(f.path) + 1
      [] f.at \in {"create_refusal", "create_dir_refusal"} ->
            IF f.path = Root THEN 0 ELSE Len(f.path) - 1
      [] f.at = "rename_refusal" -> IF dest = Root THEN 0 ELSE Len(dest) - 1
      [] OTHER -> 0

(* Of the frames that wait, only the one at the bottom may cause more.     *)
Due ==
    CASE Len(stack) = 0 -> 0
      [] Len(stack) = 1 -> Cost(Top)
      [] OTHER -> Cost(stack[1]) + Cost(Top)

Allowance ==
    CASE op = "list_dir" -> Len(path) + 1
      [] op \in {"create_refusal", "create_dir_refusal"} -> 2 * Len(path)
      [] op = "remove_dir_refusal" -> 2 * Len(path) + 1
      [] op = "rename_refusal" -> Len(path) + Len(dest) - 1
      [] OTHER -> Len(path)

BoundInv ==
    /\ lists + Due <= Allowance
    /\ op = "none" => lists = 0
    /\ op = "rename_refusal" => dest # Root

-----------------------------------------------------------------------------
(* Paths and trees.                                                        *)

(* What the assumption says of the paths: each is the child of another.    *)
LEMMA ParentIsAPath == \A p \in Nodes : p # Root /\ Parent(p) \in Paths
BY PathProbeAssumption DEF Paths

(* Where there is no directory there is nothing below it.                  *)
LEMMA NothingBelowNothing ==
    ASSUME NEW t \in Trees, NEW p \in Nodes, ~IsDir(KindIn(t, Parent(p)))
    PROVE  KindIn(t, p) = "none"
<1>1. p # Root /\ Parent(p) \in Nodes \cup {Root}
  BY PathProbeAssumption
<1>2. KindIn(t, Parent(p)) = t[Parent(p)]
  BY <1>1 DEF KindIn
<1> QED
  BY <1>1, <1>2 DEF Trees, KindIn

(* An absence further up the path is one further down too.                 *)
LEMMA AboveParent ==
    ASSUME NEW q \in Nodes, NEW p, Above(q, p)
    PROVE  Above(Parent(q), p)
BY NothingBelowNothing DEF Above, IsDir

(* A listing that comes shows everything that is there.                    *)
LEMMA ListingShowsAll ==
    ASSUME tree \in Trees, NEW q \in Nodes, Listing(Parent(q)).tag = "ok",
           \A e \in Listing(Parent(q)).entries : e.path # q
    PROVE  KindIn(tree, q) = "none"
<1> DEFINE p == Parent(q)
<1>1. CASE IsDir(KindIn(tree, p))
  <2>1. KindIn(tree, p) = "dir"
    BY <1>1 DEF Listing, IsDir, Failed
  <2>2. Listing(p) = Listed(Children(p))
    BY <2>1 DEF Listing
  <2>3. tree[q] # "none" => Entry(q, tree[q]) \in Children(p)
    BY DEF Children
  <2>4. Entry(q, tree[q]).path = q
    BY DEF Entry
  <2>5. Listing(p).entries = Children(p)
    BY <2>2 DEF Listed
  <2> QED
    BY <2>3, <2>4, <2>5, ParentIsAPath DEF KindIn
<1>2. CASE ~IsDir(KindIn(tree, p))
  BY <1>2, NothingBelowNothing
<1> QED
  BY <1>1, <1>2

(* A listing names files, directories and links, nothing else.             *)
LEMMA ListedKinds ==
    ASSUME tree \in Trees, NEW p \in Paths, NEW e \in Listing(p).entries
    PROVE  e.kind \in FileKinds
<1>1. CASE KindIn(tree, p) = "dir"
  <2>1. Listing(p).entries = Children(p)
    BY <1>1 DEF Listing, Listed
  <2>2. PICK q \in Nodes : tree[q] # "none" /\ e = Entry(q, tree[q])
    BY <2>1 DEF Children
  <2>3. tree[q] \in {"file", "dir", "locked", "link"}
    BY <2>2 DEF Trees
  <2>4. e.kind = FileTypeOf(tree[q])
    BY <2>2 DEF Entry
  <2> QED
    BY <2>3, <2>4 DEF FileTypeOf, FileKinds
<1>2. CASE KindIn(tree, p) # "dir"
  <2>1. Listing(p).entries \in {{}, {Entry(Child(p, Last(p)), "file")}}
    BY <1>2 DEF Listing, Listed, Failed
  <2>2. e.kind = "file"
    BY <2>1 DEF Entry, FileTypeOf
  <2> QED
    BY <2>2 DEF FileKinds
<1> QED
  BY <1>1, <1>2

(* What stat makes of the listing of the parent is a kind, or that the     *)
(* path is absent now.                                                     *)
LEMMA LookupFinds ==
    ASSUME tree \in Trees, NEW q \in Nodes, Listing(Parent(q)).tag = "ok"
    PROVE  LET found == Lookup(q, Listing(Parent(q)).entries)
           IN  /\ found \in FileKinds \cup {"NoSuchFileOrDirectory"}
               /\ found = "NoSuchFileOrDirectory" => KindIn(tree, q) = "none"
<1> DEFINE entries == Listing(Parent(q)).entries
<1>1. Parent(q) \in Paths
  BY ParentIsAPath
<1>2. CASE \E e \in entries : e.path = q
  <2>1. (CHOOSE e \in entries : e.path = q) \in entries
    BY <1>2
  <2>2. (CHOOSE e \in entries : e.path = q).kind \in FileKinds
    BY <1>1, <2>1, ListedKinds
  <2> QED
    BY <1>2, <2>2 DEF Lookup, FileKinds
<1>3. CASE \A e \in entries : e.path # q
  BY <1>3, ListingShowsAll DEF Lookup
<1> QED
  BY <1>2, <1>3

(* A LIST that comes back is the listing of the tree as it is now.         *)
LEMMA AnswersOfList ==
    ASSUME NEW p, NEW answer \in ListDirRaw(p)
    PROVE  /\ answer.tag \in {"ok", "refused", "denied", "broken"}
           /\ answer.tag = "ok" => answer = Listing(p)
BY DEF ListDirRaw, Listing, Listed, Failed

-----------------------------------------------------------------------------
(* The stack.                                                              *)

(* Removing the top of the stack leaves the rest of it.                    *)
LEMMA FrontFacts ==
    ASSUME NEW S, NEW s \in Seq(S), s # <<>>
    PROVE  /\ Front(s) \in Seq(S)
           /\ Len(s) \in Nat \ {0}
           /\ Len(Front(s)) = Len(s) - 1
           /\ \A i \in 1..(Len(s) - 1) : Front(s)[i] = s[i]
           /\ Last(s) = s[Len(s)] /\ Last(s) \in S
<1>1. Len(s) \in Nat \ {0}
  BY EmptySeq
<1>2. \A i \in 1..(Len(s) - 1) : s[i] \in S
  BY <1>1, ElementOfSeq
<1>3. /\ Front(s) \in Seq(S)
      /\ Len(Front(s)) = IF 1 <= Len(s) - 1 THEN Len(s) - 1 - 1 + 1 ELSE 0
      /\ \A i \in 1..(Len(s) - 1 - 1 + 1) : Front(s)[i] = s[1 + i - 1]
  BY <1>1, <1>2, SubSeqProperties DEF Front
<1>4. Last(s) = s[Len(s)] /\ Last(s) \in S
  BY <1>1, ElementOfSeq DEF Last
<1>5. Len(Front(s)) = Len(s) - 1
  <2>1. \A n \in Nat \ {0} : (IF 1 <= n - 1 THEN n - 1 - 1 + 1 ELSE 0) = n - 1
    OBVIOUS
  <2> QED
    BY <1>1, <1>3, <2>1
<1>6. ASSUME NEW i \in 1..(Len(s) - 1) PROVE Front(s)[i] = s[i]
  <2>1. i \in 1..(Len(s) - 1 - 1 + 1) /\ 1 + i - 1 = i
    BY <1>1
  <2> QED
    BY <1>3, <2>1
<1> QED
  BY <1>1, <1>3, <1>4, <1>5, <1>6

(* Replacing the top of the stack leaves the rest of it.                   *)
LEMMA BecomeFacts ==
    ASSUME NEW S, NEW s \in Seq(S), s # <<>>, NEW f \in S
    PROVE  /\ Append(Front(s), f) \in Seq(S)
           /\ Len(Append(Front(s), f)) = Len(s)
           /\ \A i \in 1..(Len(s) - 1) : Append(Front(s), f)[i] = s[i]
           /\ Append(Front(s), f)[Len(s)] = f
           /\ Last(Append(Front(s), f)) = f
BY FrontFacts DEF Last

(* A call puts two frames in the place of the top one.                     *)
LEMMA CallFacts ==
    ASSUME NEW S, NEW s \in Seq(S), s # <<>>, NEW f \in S, NEW g \in S
    PROVE  /\ Front(s) \o <<f, g>> \in Seq(S)
           /\ Len(Front(s) \o <<f, g>>) = Len(s) + 1
           /\ \A i \in 1..(Len(s) - 1) : (Front(s) \o <<f, g>>)[i] = s[i]
           /\ (Front(s) \o <<f, g>>)[Len(s)] = f
           /\ (Front(s) \o <<f, g>>)[Len(s) + 1] = g
           /\ Last(Front(s) \o <<f, g>>) = g
<1>1. <<f, g>> \in Seq(S) /\ Len(<<f, g>>) = 2
  OBVIOUS
<1>2. /\ Front(s) \o <<f, g>> \in Seq(S)
      /\ Len(Front(s) \o <<f, g>>) = Len(s) - 1 + 2
      /\ \A i \in 1..(Len(s) - 1 + 2) : (Front(s) \o <<f, g>>)[i] =
            IF i <= Len(s) - 1 THEN Front(s)[i] ELSE <<f, g>>[i - (Len(s) - 1)]
  BY <1>1, FrontFacts, ConcatProperties
<1>3. Len(s) \in Nat \ {0} /\ \A i \in 1..(Len(s) - 1) : Front(s)[i] = s[i]
  BY FrontFacts
<1>4. Len(Front(s) \o <<f, g>>) = Len(s) + 1
  BY <1>2, <1>3
<1>5. ASSUME NEW i \in 1..(Len(s) - 1) PROVE (Front(s) \o <<f, g>>)[i] = s[i]
  BY <1>2, <1>3
<1>6. /\ (Front(s) \o <<f, g>>)[Len(s)] = <<f, g>>[1]
      /\ (Front(s) \o <<f, g>>)[Len(s) + 1] = <<f, g>>[2]
  BY <1>2, <1>3
<1> QED
  BY <1>2, <1>4, <1>5, <1>6 DEF Last

(* The fields of a new frame.                                              *)
LEMMA FrameFacts ==
    ASSUME NEW at \in Labels, NEW p \in Paths, NEW keep \in Answers
    PROVE  /\ Frame(at, p, keep) \in FrameType
           /\ Frame(at, p, keep).at = at
           /\ Frame(at, p, keep).path = p
           /\ Frame(at, p, keep).keep = keep
BY PathProbeAssumption DEF Frame, FrameType

(* The places a frame can be at, and what it keeps at first.               *)
LEMMA Places ==
    /\ StatLabels \cup ListLabels \cup Classified \subseteq Labels
    /\ {"stat", "list_dir", "exists", "destination_parent", "remove_dir_contents"} \subseteq Labels
    /\ {"stat_absent", "stat_parent", "list_absent", "list_confirm"} \subseteq Labels
    /\ Ops \subseteq Labels
    /\ "none" \in Answers
BY DEF Labels, StatLabels, ListLabels, Ops, Answers

(* The fields of a turn of the ancestor loop.                              *)
LEMMA AncestorFacts ==
    ASSUME NEW p \in Paths, NEW n \in 0..MaxAncestors
    PROVE  /\ Ancestor(p, n) \in FrameType
           /\ Ancestor(p, n).at = "ancestor"
           /\ Ancestor(p, n).path = p
           /\ Ancestor(p, n).tries = n
BY DEF Ancestor, FrameType, Labels, Answers

(* The frames that a probe begins with.                                    *)
LEMMA NewProbes ==
    ASSUME NEW p \in Paths
    PROVE  /\ Frame("stat", p, "none") \in FrameType
           /\ Frame("stat", p, "none").at = "stat" /\ Frame("stat", p, "none").path = p
           /\ Ancestor(p, 0) \in FrameType
           /\ Ancestor(p, 0).at = "ancestor" /\ Ancestor(p, 0).path = p
BY FrameFacts, Places, AncestorFacts, PathProbeAssumption

(* What a step of a probe leaves alone.                                    *)
ProbeOnly ==
    /\ UNCHANGED <<world, op, path, dest, past>>
    /\ disturbed' \in BOOLEAN
    /\ lists' \in 0..(MaxLists - 1)

(* The count of LISTs stays in its range and grows by at most one.         *)
LEMMA CountedLists ==
    ASSUME NEW n \in Nat
    PROVE  (n + 1) % MaxLists \in 0..(MaxLists - 1) /\ (n + 1) % MaxLists <= n + 1
BY PathProbeAssumption

(* A step without a LIST leaves alone what a probe leaves alone.           *)
LEMMA LocalOnly == TypeOK /\ LocalStep => ProbeOnly
BY DEF TypeOK, LocalStep, ProbeOnly

(* So does a step with one.                                                *)
LEMMA ListOnly ==
    ASSUME TypeOK, NEW answer, ListStep(answer)
    PROVE  ProbeOnly
<1>1. lists \in Nat
  BY PathProbeAssumption DEF TypeOK
<1>2. lists' \in 0..(MaxLists - 1)
  BY <1>1, CountedLists DEF ListStep
<1>3. UNCHANGED <<world, op, path, dest, past>> /\ disturbed' \in BOOLEAN
  BY DEF TypeOK, ListStep
<1> QED
  BY <1>2, <1>3 DEF ProbeOnly

(* Arithmetic on the height of the stack.                                  *)
LEMMA OneOrMore == \A n \in Nat \ {0} : n = 1 \/ n > 1
OBVIOUS

(* What the invariant says of the frame on top: what it has been told, what*)
(* it keeps, who waits for it.  Only the frames of stat, list_dir and the  *)
(* ancestor probe have a caller.                                           *)
LEMMA TopFacts ==
    ASSUME IInv, stack # <<>>
    PROVE  /\ Len(stack) \in Nat \ {0} /\ Top = stack[Len(stack)] /\ Top \in FrameType
           /\ Kept(Top)
           /\ Top.at \in Running \/ Told(Top)
           /\ op \in Ops
           /\ Len(stack) = 1 => Bottom(Top)
           /\ Len(stack) > 1 => Calls(stack[Len(stack) - 1], Top)
           /\ Top.at \notin StatLabels \cup ListLabels \cup {"ancestor"} => Len(stack) = 1
<1>1. Len(stack) \in Nat \ {0} /\ Top = stack[Len(stack)] /\ Top \in FrameType
  BY FrontFacts DEF IInv, StackInv, Top
<1>2. Len(stack) > 1 => Calls(stack[Len(stack) - 1], Top)
  BY <1>1 DEF IInv, StackInv
<1>3. Kept(Top) /\ (Len(stack) = 1 => Bottom(Top)) /\ op \in Ops
  BY <1>1 DEF IInv, StackInv
<1>4. Top.at \in Running \/ Told(Top)
  BY DEF IInv, StackInv
<1>5. Top.at \notin StatLabels \cup ListLabels \cup {"ancestor"} => ~(Len(stack) > 1)
  BY <1>2 DEF Calls
<1>6. Top.at \notin StatLabels \cup ListLabels \cup {"ancestor"} => Len(stack) = 1
  BY <1>1, <1>5, OneOrMore
<1> QED
  BY <1>1, <1>2, <1>3, <1>4, <1>6

(* What a callee may answer is what its caller expects to be told.         *)
LEMMA Retold ==
    ASSUME TypeOK, NEW c \in FrameType, NEW f \in FrameType, Calls(c, f), NEW v, Means(f, v),
           ret' = v, UNCHANGED past
    PROVE  Told(c)'
<1>1. \A p : Absent(p)' <=> Absent(p)
  BY DEF Absent
<1>2. CASE c.at \in {"stat_absent", "list_absent"} /\ f.at = "ancestor" /\ Above(f.path, c.path)
  <2>1. Absent(f.path) => Absent(c.path)
    BY <1>2 DEF Absent, Above, TypeOK
  <2> QED
    BY <1>1, <1>2, <2>1 DEF Told, Means, Classified
<1>3. CASE c.at \in {"stat_parent", "destination_parent"} /\ f.at \in StatLabels
           /\ f.path = Parent(c.path)
  BY <1>1, <1>3 DEF Told, Means, Classified
<1>4. CASE c.at \in {"list_confirm", "exists"} \cup Classified /\ f.at \in StatLabels
           /\ f.path = c.path
  BY <1>1, <1>4 DEF Told, Means, Classified
<1>5. CASE c.at = "remove_dir_contents"
  BY <1>5 DEF Told, Classified
<1> QED
  BY <1>2, <1>3, <1>4, <1>5 DEF Calls

(* A stack of frames keeps the fields of each typed.                       *)
LEMMA FramesAreTyped ==
    ASSUME NEW s \in Seq(FrameType), NEW i \in DOMAIN s
    PROVE  s[i].keep \in Answers /\ s[i].tries \in 0..MaxAncestors
<1>1. s[i] \in FrameType
  BY LenProperties, ElementOfSeq
<1> QED
  BY <1>1 DEF FrameType

(* Types are kept by whatever keeps the stack and the answer typed.        *)
LEMMA ProbeTypes ==
    ASSUME TypeOK, ProbeOnly, stack' \in Seq(FrameType), ret' \in Answers
    PROVE  TypeOK'
<1>1. \A i \in DOMAIN stack' :
         stack'[i].keep \in Answers /\ stack'[i].tries \in 0..MaxAncestors
  BY FramesAreTyped
<1> QED
  BY <1>1 DEF TypeOK, ProbeOnly, world

(* A call returns to the frame below, or the operation is done.            *)
LEMMA ReturnStep ==
    ASSUME IInv, stack # <<>>, NEW v \in Answers, Return(v), ProbeOnly,
           Len(stack) > 1 => Means(Top, v),
           Len(stack) = 1 /\ op # "file_refusal" /\ v \in {"NoSuchFileOrDirectory", "false"}
              => \E p \in Subjects : Absent(p)
    PROVE  IInv'
<1> DEFINE n == Len(stack)
<1>1. /\ n \in Nat \ {0} /\ Top = stack[n] /\ Top \in FrameType
      /\ stack' = Front(stack) /\ stack' \in Seq(FrameType) /\ Len(stack') = n - 1
      /\ \A i \in 1..(n - 1) : stack'[i] = stack[i]
      /\ stack \in Seq(FrameType)
  BY TopFacts, FrontFacts DEF IInv, StackInv, Return
<1>2. ret' = v /\ UNCHANGED <<op, path, dest, past>>
  BY DEF Return, ProbeOnly
<1>3. stack' # <<>> => n > 1
  BY <1>1
<1>4. stack' # <<>> => op' \in Ops /\ Bottom(stack[1])'
  <2>1. op \in Ops /\ Bottom(stack[1])
    BY DEF IInv, StackInv
  <2> QED
    BY <1>1, <1>2, <1>3, <2>1 DEF Bottom
<1>5. \A i \in 1..(Len(stack') - 1) : Calls(stack'[i], stack'[i + 1])
  BY <1>1 DEF IInv, StackInv
<1>6. ASSUME NEW i \in 1..Len(stack') PROVE Kept(stack[i])'
  <2>1. Kept(stack[i]) /\ stack'[i] = stack[i]
    BY <1>1 DEF IInv, StackInv
  <2> QED
    BY <1>2, <2>1 DEF Kept, Absent
<1>7. stack' # <<>> => Told(Top)'
  <2> SUFFICES ASSUME stack' # <<>> PROVE Told(Top)'
    OBVIOUS
  <2>1. n > 1 /\ stack'[n - 1] = stack[n - 1] /\ stack'[n - 1] \in FrameType
    BY <1>1, <1>3
  <2>3. Top' = stack[n - 1] /\ stack[n - 1] \in FrameType
    BY <1>1, <2>1 DEF Top, Last
  <2>2. Calls(stack[n - 1], Top) /\ Means(Top, v)
    BY <2>1, TopFacts
  <2>4. PICK c \in FrameType : c = stack[n - 1]
    BY <2>3
  <2>5. Told(c)'
    BY <1>1, <1>2, <2>2, <2>4, Retold DEF IInv
  <2> QED
    BY <2>3, <2>4, <2>5 DEF Told, Absent
<1>8. StackInv'
  BY <1>1, <1>4, <1>5, <1>6, <1>7 DEF StackInv, Calls
<1>9. AbsenceIsReal'
  <2>1. stack' = <<>> => n = 1
    BY <1>1
  <2>2. \A p : Absent(p)' <=> Absent(p)
    BY <1>2 DEF Absent
  <2> QED
    BY <1>2, <2>1, <2>2 DEF AbsenceIsReal, Done, Idle, Absent, Subjects
<1>10. TypeOK'
  <2>1. stack' \in Seq(FrameType) /\ ret' \in Answers
    BY <1>1, <1>2 DEF IInv, TypeOK
  <2> QED
    BY <2>1, ProbeTypes DEF IInv
<1> QED
  BY <1>10, <1>8, <1>9 DEF IInv, PastInv, ProbeOnly, world

(* The top frame goes on to wait for a new one.                            *)
LEMMA CallStep ==
    ASSUME IInv, stack # <<>>, NEW c \in FrameType, NEW f \in FrameType, Call(c, f), ProbeOnly,
           f.at \in Running, Calls(c, f), Kept(c), Kept(f),
           \A b : Calls(b, Top) => Calls(b, c),
           Bottom(Top) => Bottom(c)
    PROVE  IInv'
<1> DEFINE n == Len(stack)
<1>1. /\ n \in Nat \ {0} /\ Top = stack[n]
      /\ stack' \in Seq(FrameType) /\ Len(stack') = n + 1
      /\ \A i \in 1..(n - 1) : stack'[i] = stack[i]
      /\ stack'[n] = c /\ stack'[n + 1] = f /\ Top' = f
  <2>1. stack \in Seq(FrameType) /\ stack' = Front(stack) \o <<c, f>>
    BY DEF IInv, StackInv, Call
  <2> QED
    BY <2>1, TopFacts, CallFacts DEF Top
<1>2. ret' = ret /\ UNCHANGED <<op, path, dest, past>>
  BY DEF Call, ProbeOnly
<1>3. op' \in Ops /\ Bottom(stack[1])'
  <2>1. op \in Ops /\ Bottom(stack[1])
    BY DEF IInv, StackInv
  <2>2. CASE n = 1
    <3>1. Bottom(c) /\ stack'[1] = c
      BY <1>1, <2>1, <2>2
    <3> QED
      BY <1>2, <2>1, <3>1 DEF Bottom
  <2>3. CASE n > 1
    <3>1. stack'[1] = stack[1]
      BY <1>1, <2>3
    <3> QED
      BY <1>2, <2>1, <3>1 DEF Bottom
  <2> QED
    BY <1>1, <2>2, <2>3, OneOrMore
<1>4. ASSUME NEW i \in 1..(Len(stack') - 1) PROVE Calls(stack'[i], stack'[i + 1])
  <2>1. CASE i < n - 1
    BY <1>1, <2>1 DEF IInv, StackInv
  <2>2. CASE i = n - 1
    BY <1>1, <2>2 DEF IInv, StackInv
  <2>3. CASE i = n
    BY <1>1, <2>3
  <2> QED
    BY <1>1, <2>1, <2>2, <2>3
<1>5. ASSUME NEW i \in 1..Len(stack') PROVE Kept(stack[i])'
  <2>1. Kept(stack'[i])
    <3>1. CASE i <= n - 1
      BY <1>1, <3>1 DEF IInv, StackInv
    <3>2. CASE i \in {n, n + 1}
      BY <1>1, <3>2
    <3> QED
      BY <1>1, <3>1, <3>2
  <2> QED
    BY <1>2, <2>1 DEF Kept, Absent
<1>6. StackInv'
  BY <1>1, <1>3, <1>4, <1>5 DEF StackInv, Calls
<1>7. AbsenceIsReal'
  BY <1>1 DEF AbsenceIsReal, Done
<1>8. TypeOK'
  <2>1. stack' \in Seq(FrameType) /\ ret' \in Answers
    BY <1>1, <1>2 DEF IInv, TypeOK
  <2> QED
    BY <2>1, ProbeTypes DEF IInv
<1> QED
  BY <1>8, <1>6, <1>7 DEF IInv, PastInv, ProbeOnly, world

(* Whatever a call may answer is one of the answers.                       *)
LEMMA ValuesAreAnswers ==
    /\ StatAnswers \cup ListAnswers \cup {"absent", "unproved", "true", "false",
          "AlreadyExists", "DirectoryNotEmpty"} \subseteq Answers
    /\ FileKinds \subseteq StatAnswers
    /\ "false" \notin StatAnswers \cup ListAnswers
BY DEF StatAnswers, ListAnswers, Answers, FileKinds

(* stat answers its caller, or the operation: NoSuchFileOrDirectory only of*)
(* what has been absent.                                                   *)
LEMMA StatReturns ==
    ASSUME IInv, stack # <<>>, Top.at \in StatLabels, NEW v \in StatAnswers,
           v = "NoSuchFileOrDirectory" => Absent(Top.path), Return(v), ProbeOnly
    PROVE  IInv'
<1>1. Means(Top, v)
  BY DEF Means, StatLabels, ListLabels
<1>2. ASSUME Len(stack) = 1 PROVE path = Top.path /\ Subjects = {path}
  <2>1. Bottom(Top) /\ op \in Ops
    BY <1>2, TopFacts
  <2>2. op = "stat" /\ path = Top.path
    BY <2>1 DEF Bottom, Ops, Classified, StatLabels, ListLabels
  <2> QED
    BY <2>2 DEF Subjects
<1> QED
  BY <1>1, <1>2, ValuesAreAnswers, ReturnStep

(* list_dir answers, likewise.                                             *)
LEMMA ListReturns ==
    ASSUME IInv, stack # <<>>, Top.at \in ListLabels, NEW v \in ListAnswers,
           v = "NoSuchFileOrDirectory" => Absent(Top.path), Return(v), ProbeOnly
    PROVE  IInv'
<1>1. Means(Top, v)
  BY DEF Means, StatLabels, ListLabels
<1>2. ASSUME Len(stack) = 1 PROVE path = Top.path /\ Subjects = {path}
  <2>1. Bottom(Top) /\ op \in Ops
    BY <1>2, TopFacts
  <2>2. op = "list_dir" /\ path = Top.path
    BY <2>1 DEF Bottom, Ops, Classified, StatLabels, ListLabels
  <2> QED
    BY <2>2 DEF Subjects
<1> QED
  BY <1>1, <1>2, ValuesAreAnswers, ReturnStep

OuterLabels == Classified \cup {"exists", "destination_parent", "remove_dir_contents"}

(* The frames of exists and of the classification have no caller.          *)
LEMMA OuterIsBottom ==
    ASSUME IInv, stack # <<>>, Top.at \in OuterLabels
    PROVE  Len(stack) = 1 /\ Bottom(Top) /\ Told(Top) /\ Kept(Top) /\ op \in Ops
           /\ Top.path \in Paths
<1>1. Top.at \notin StatLabels \cup ListLabels \cup {"ancestor"} /\ Top.at \notin Running
  BY DEF OuterLabels, Classified, StatLabels, ListLabels, Running
<1> QED
  BY <1>1, TopFacts DEF FrameType

(* They answer the operation.                                              *)
LEMMA OuterReturns ==
    ASSUME IInv, stack # <<>>, Top.at \in OuterLabels, NEW v \in Answers,
           v \in {"NoSuchFileOrDirectory", "false"} /\ op # "file_refusal" =>
              \E p \in Subjects : Absent(p),
           Return(v), ProbeOnly
    PROVE  IInv'
<1>1. Len(stack) = 1
  BY OuterIsBottom
<1>2. ~(Len(stack) > 1)
  BY <1>1
<1> QED
  BY <1>1, <1>2, ReturnStep

(* The ancestor probe always has a caller.                                 *)
LEMMA AncestorIsCalled ==
    ASSUME IInv, stack # <<>>, Top.at = "ancestor"
    PROVE  Len(stack) > 1
<1>1. ~Bottom(Top)
  BY TopFacts DEF Bottom, Ops, Classified, StatLabels, ListLabels
<1> QED
  BY <1>1, TopFacts, OneOrMore

(* It answers absent only of what has been absent.                         *)
LEMMA AncestorReturns ==
    ASSUME IInv, stack # <<>>, Top.at = "ancestor", NEW v \in {"absent", "unproved"},
           v = "absent" => Absent(Top.path), Return(v), ProbeOnly
    PROVE  IInv'
<1>1. Means(Top, v)
  BY DEF Means, StatLabels, ListLabels
<1>2. Len(stack) # 1
  <2>1. \A n \in Nat \ {0} : n > 1 => n # 1
    OBVIOUS
  <2> QED
    BY <2>1, TopFacts, AncestorIsCalled
<1> QED
  BY <1>1, <1>2, ValuesAreAnswers, ReturnStep

(* It moves to the parent: what is absent there is absent below.           *)
LEMMA AncestorMoves ==
    ASSUME IInv, stack # <<>>, Top.at = "ancestor", Top.path \in Nodes, NEW k \in 0..MaxAncestors,
           Become(Ancestor(Parent(Top.path), k)), ProbeOnly
    PROVE  IInv'
<1> DEFINE n == Len(stack)
           f == Ancestor(Parent(Top.path), k)
<1>1. f \in FrameType /\ f.at = "ancestor" /\ f.path = Parent(Top.path)
  BY AncestorFacts, ParentIsAPath
<1>2. Top = stack[n] /\ n \in Nat \ {0} /\ n > 1
  BY TopFacts, AncestorIsCalled
<1> HIDE DEF f
<1>3. /\ stack' \in Seq(FrameType) /\ Len(stack') = n
      /\ \A i \in 1..(n - 1) : stack'[i] = stack[i]
      /\ stack'[n] = f /\ Top' = f
  BY <1>1, BecomeFacts DEF IInv, StackInv, Become, Top, f
<1>4. ret' = ret /\ UNCHANGED <<op, path, dest, past>>
  BY DEF Become, ProbeOnly
<1>5. op' \in Ops /\ Bottom(stack[1])'
  <2>1. op \in Ops /\ Bottom(stack[1]) /\ stack'[1] = stack[1]
    BY <1>2, <1>3 DEF IInv, StackInv
  <2> QED
    BY <1>4, <2>1 DEF Bottom
<1>6. ASSUME NEW i \in 1..(Len(stack') - 1) PROVE Calls(stack'[i], stack'[i + 1])
  <2>1. CASE i < n - 1
    BY <1>3, <2>1 DEF IInv, StackInv
  <2>2. CASE i = n - 1
    <3>1. Calls(stack[i], Top) /\ stack'[i] = stack[i]
      BY <1>2, <1>3, <2>2 DEF IInv, StackInv
    <3>2. stack[i].at \in {"stat_absent", "list_absent"} /\ Above(Top.path, stack[i].path)
      BY <3>1 DEF Calls, StatLabels, ListLabels
    <3>3. Above(f.path, stack[i].path)
      BY <1>1, <3>2, AboveParent
    <3> QED
      BY <1>1, <1>3, <2>2, <3>1, <3>2, <3>3 DEF Calls
  <2> QED
    BY <1>2, <1>3, <2>1, <2>2
<1>7. ASSUME NEW i \in 1..Len(stack') PROVE Kept(stack[i])'
  <2>1. Kept(stack'[i])
    <3>1. CASE i <= n - 1
      BY <1>3, <3>1 DEF IInv, StackInv
    <3>2. CASE i = n
      BY <1>1, <1>3, <3>2 DEF Kept
    <3> QED
      BY <1>3, <3>1, <3>2
  <2> QED
    BY <1>4, <2>1 DEF Kept, Absent
<1>8. StackInv'
  BY <1>1, <1>3, <1>5, <1>6, <1>7 DEF StackInv, Calls, Running
<1>9. AbsenceIsReal'
  BY <1>2, <1>3 DEF AbsenceIsReal, Done
<1>10. TypeOK'
  <2>1. stack' \in Seq(FrameType) /\ ret' \in Answers
    BY <1>3, <1>4 DEF IInv, TypeOK
  <2> QED
    BY <2>1, ProbeTypes DEF IInv
<1> QED
  BY <1>8, <1>9, <1>10 DEF IInv, PastInv, ProbeOnly, world

(* An absence seen now is one of the moments of the operation.             *)
LEMMA NowIsPast ==
    ASSUME IInv, stack # <<>>, NEW p, KindIn(tree, p) = "none"
    PROVE  Absent(p)
BY TopFacts DEF IInv, PastInv, Absent, Ops, Classified

-----------------------------------------------------------------------------
(* Steps.                                                                  *)

(* One lemma per action.  A listing that comes and does not show the path  *)
(* proves absence; one that is refused moves the probe up.                 *)
LEMMA AncestorProvesAbsentStep == IInv /\ AncestorProvesAbsent => IInv'
<1> SUFFICES ASSUME IInv, AncestorProvesAbsent PROVE IInv'
  OBVIOUS
<1>1. /\ stack # <<>> /\ Top.at = "ancestor" /\ Top.path # Root
      /\ Top.tries < MaxAncestors
  BY DEF AncestorProvesAbsent, At
<1>2. Top.path \in Nodes /\ Top.tries \in 0..MaxAncestors
  BY <1>1, TopFacts DEF FrameType, Paths
<1>3. PICK answer \in ListDirRaw(Parent(Top.path)) :
         /\ ListStep(answer)
         /\ IF answer.tag = "refused"
            THEN Become(Ancestor(Parent(Top.path), Top.tries + 1))
            ELSE Return(IF answer.tag = "ok" /\ \A e \in answer.entries : e.path # Top.path
                        THEN "absent" ELSE "unproved")
  BY DEF AncestorProvesAbsent
<1>4. ProbeOnly
  BY <1>3, ListOnly DEF IInv
<1>5. CASE answer.tag = "refused"
  <2>1. Top.tries + 1 \in 0..MaxAncestors
    BY <1>1, <1>2, PathProbeAssumption
  <2> QED
    BY <1>1, <1>2, <1>3, <1>4, <1>5, <2>1, AncestorMoves
<1>6. CASE answer.tag # "refused"
  <2> DEFINE v == IF answer.tag = "ok" /\ \A e \in answer.entries : e.path # Top.path
                  THEN "absent" ELSE "unproved"
  <2>1. v = "absent" => Absent(Top.path)
    <3>1. answer.tag = "ok" => answer = Listing(Parent(Top.path))
      BY <1>3, AnswersOfList
    <3>2. v = "absent" => KindIn(tree, Top.path) = "none"
      BY <1>2, <3>1, ListingShowsAll DEF IInv, TypeOK
    <3> QED
      BY <1>1, <3>2, NowIsPast
  <2>2. v \in {"absent", "unproved"} /\ Return(v)
    BY <1>3, <1>6
  <2> HIDE DEF v
  <2> QED
    BY <1>1, <1>4, <2>1, <2>2, AncestorReturns
<1> QED
  BY <1>5, <1>6

(* Beyond its limit the probe claims nothing.                              *)
LEMMA AncestorGivesUpStep == IInv /\ AncestorGivesUp => IInv'
<1> SUFFICES ASSUME IInv, AncestorGivesUp PROVE IInv'
  OBVIOUS
<1>1. stack # <<>> /\ Top.at = "ancestor" /\ Return("unproved") /\ LocalStep
  BY DEF AncestorGivesUp, At
<1> QED
  BY <1>1, LocalOnly, AncestorReturns DEF IInv

(* A refusal becomes an absence only by the proof of one.                  *)
LEMMA RefusalResolvedStep == IInv /\ RefusalResolved => IInv'
<1> SUFFICES ASSUME IInv, RefusalResolved PROVE IInv'
  OBVIOUS
<1> DEFINE v == IF ret = "absent" THEN "NoSuchFileOrDirectory" ELSE "PermissionDenied"
<1>1. stack # <<>> /\ Top.at \in {"stat_absent", "list_absent"} /\ Return(v) /\ ProbeOnly
  BY LocalOnly DEF RefusalResolved, At, IInv
<1>2. v = "NoSuchFileOrDirectory" => Absent(Top.path)
  BY <1>1, TopFacts DEF Told, Running
<1>3. v \in StatAnswers /\ v \in ListAnswers
  BY DEF StatAnswers, ListAnswers, FileKinds
<1> HIDE DEF v
<1> QED
  BY <1>1, <1>2, <1>3, StatReturns, ListReturns DEF StatLabels, ListLabels

(* The root is never reported absent.                                      *)
LEMMA StatRootStep == IInv /\ StatRoot => IInv'
<1> SUFFICES ASSUME IInv, StatRoot PROVE IInv'
  OBVIOUS
<1>1. PICK v \in {"dir", "Broken"} : Return(v)
  BY DEF StatRoot
<1>2. stack # <<>> /\ Top.at = "stat" /\ ProbeOnly
  BY DEF StatRoot, At, ProbeOnly, IInv, TypeOK
<1> QED
  BY <1>1, <1>2, StatReturns DEF StatAnswers, FileKinds, StatLabels
(* A frame of stat that goes on to ask something else.                     *)
LEMMA StatCalls ==
    ASSUME IInv, stack # <<>>, Top.at = "stat", Top.path \in Nodes,
           NEW c \in FrameType, c.at \in {"stat_absent", "stat_parent"}, c.path = Top.path,
           Kept(c), NEW f \in FrameType, f.at \in Running, Kept(f), Calls(c, f),
           Call(c, f), ProbeOnly
    PROVE  IInv'
<1>1. \A b : Calls(b, Top) => Calls(b, c)
  BY DEF Calls, StatLabels, ListLabels
<1>2. Bottom(Top) => Bottom(c)
  BY DEF Bottom, StatLabels, ListLabels
<1> QED
  BY <1>1, <1>2, CallStep

(* A path is above itself.                                                 *)
LEMMA AboveItself == \A p : Above(p, p)
BY DEF Above

(* What the listing of the parent does not show is absent now; what it shows*)
(* in a suspicious way is kept until the parent has been looked at.        *)
LEMMA StatStep == IInv /\ Stat => IInv'
<1> SUFFICES ASSUME IInv, Stat PROVE IInv'
  OBVIOUS
<1> DEFINE p == Top.path
<1>1. /\ stack # <<>> /\ Top.at = "stat"
      /\ p \in Nodes /\ p \in Paths /\ Parent(p) \in Paths /\ p # Root
  <2>1. stack # <<>> /\ Top.at = "stat" /\ p # Root
    BY DEF Stat, At
  <2>2. p \in Nodes
    BY <2>1, TopFacts DEF FrameType, Paths
  <2> QED
    BY <2>1, <2>2, ParentIsAPath DEF Paths
<1>2. PICK answer \in ListDirRaw(Parent(p)) :
         /\ ListStep(answer)
         /\ \/ /\ answer.tag = "ok"
               /\ IF LooksLikeFile(Parent(p), answer.entries)
                  THEN CallStat(Frame("stat_parent", p, Lookup(p, answer.entries)), Parent(p))
                  ELSE Return(Lookup(p, answer.entries))
            \/ /\ answer.tag = "refused"
               /\ CallAncestor(Frame("stat_absent", p, "none"), Parent(p))
            \/ /\ answer.tag \in {"denied", "broken"}
               /\ Return(ErrorOf(answer))
  BY DEF Stat
<1>3. ProbeOnly
  BY <1>2, ListOnly DEF IInv
<1>4. CASE answer.tag = "ok"
  <2> DEFINE found == Lookup(p, answer.entries)
  <2>1. answer = Listing(Parent(p))
    BY <1>2, <1>4, AnswersOfList
  <2>2. /\ found \in FileKinds \cup {"NoSuchFileOrDirectory"}
        /\ found = "NoSuchFileOrDirectory" => Absent(p)
    <3>1. /\ found \in FileKinds \cup {"NoSuchFileOrDirectory"}
          /\ found = "NoSuchFileOrDirectory" => KindIn(tree, p) = "none"
      BY <1>1, <1>4, <2>1, LookupFinds DEF IInv, TypeOK
    <3> QED
      BY <1>1, <3>1, NowIsPast
  <2>3. found \in StatAnswers /\ found \in Answers
    BY <2>2 DEF StatAnswers, Answers
  <2>4. CASE LooksLikeFile(Parent(p), answer.entries)
    <3> DEFINE c == Frame("stat_parent", p, found)
               f == Frame("stat", Parent(p), "none")
    <3>1. c \in FrameType /\ c.at = "stat_parent" /\ c.path = p /\ c.keep = found
      BY <1>1, <2>3, FrameFacts, Places
    <3>4. f \in FrameType /\ f.at = "stat" /\ f.path = Parent(p)
      BY <1>1, NewProbes
    <3>2. Call(c, f)
      BY <1>2, <1>4, <2>4 DEF CallStat
    <3> HIDE DEF c, f, found
    <3>3. Kept(c) /\ Kept(f) /\ Calls(c, f) /\ f.at \in Running
      BY <1>1, <2>2, <3>1, <3>4 DEF Kept, Calls, StatLabels, Running
    <3> QED
      BY <1>1, <1>3, <3>1, <3>2, <3>3, <3>4, StatCalls
  <2>5. CASE ~LooksLikeFile(Parent(p), answer.entries)
    <3>1. Return(found)
      BY <1>2, <1>4, <2>5
    <3> HIDE DEF found
    <3> QED
      BY <1>1, <1>3, <2>2, <2>3, <3>1, StatReturns DEF StatLabels
  <2> QED
    BY <2>4, <2>5
<1>5. CASE answer.tag = "refused"
  <2> DEFINE c == Frame("stat_absent", p, "none")
             f == Ancestor(Parent(p), 0)
  <2>1. c \in FrameType /\ c.at = "stat_absent" /\ c.path = p
    BY <1>1, FrameFacts, Places
  <2>4. f \in FrameType /\ f.at = "ancestor" /\ f.path = Parent(p)
    BY <1>1, NewProbes
  <2>2. Call(c, f)
    BY <1>2, <1>5 DEF CallAncestor
  <2> HIDE DEF c, f
  <2>3. Kept(c) /\ Kept(f) /\ Calls(c, f) /\ f.at \in Running
    BY <1>1, <2>1, <2>4, AboveItself, AboveParent DEF Kept, Calls, Running
  <2> QED
    BY <1>1, <1>3, <2>1, <2>2, <2>3, <2>4, StatCalls
<1>6. CASE answer.tag \in {"denied", "broken"}
  <2>1. ErrorOf(answer) \in {"PermissionDenied", "Broken"} /\ Return(ErrorOf(answer))
    BY <1>2, <1>6 DEF ErrorOf
  <2> QED
    BY <1>1, <1>3, <2>1, StatReturns DEF StatLabels, StatAnswers
<1> QED
  BY <1>2, <1>4, <1>5, <1>6

(* An absent parent is an absent path; otherwise what was kept is answered.*)
LEMMA StatParentStep == IInv /\ StatParent => IInv'
<1> SUFFICES ASSUME IInv, StatParent PROVE IInv'
  OBVIOUS
<1> DEFINE v == IF ret = "file" THEN "BadFile"
                ELSE IF ret \in {"dir", "link", "PermissionDenied"} THEN Top.keep ELSE ret
<1>1. stack # <<>> /\ Top.at = "stat_parent" /\ Return(v) /\ ProbeOnly
  BY LocalOnly DEF StatParent, At, IInv
<1>2. /\ ret \in StatAnswers
      /\ ret = "NoSuchFileOrDirectory" => Absent(Parent(Top.path))
      /\ Top.keep \in FileKinds \cup {"NoSuchFileOrDirectory"}
      /\ Top.keep = "NoSuchFileOrDirectory" => Absent(Top.path)
      /\ Top.path \in Nodes
  BY <1>1, TopFacts DEF Told, Kept, Running, FrameType, Paths
<1>3. Absent(Parent(Top.path)) => Absent(Top.path)
  BY <1>2, NothingBelowNothing DEF Absent, IsDir, IInv, TypeOK
<1>4. v \in StatAnswers /\ (v = "NoSuchFileOrDirectory" => Absent(Top.path))
  BY <1>2, <1>3 DEF StatAnswers, FileKinds
<1> HIDE DEF v
<1> QED
  BY <1>1, <1>4, StatReturns DEF StatLabels

(* A frame of list_dir that goes on to ask something else.                 *)
LEMMA ListCalls ==
    ASSUME IInv, stack # <<>>, Top.at = "list_dir",
           NEW c \in FrameType, c.at \in {"list_absent", "list_confirm"}, c.path = Top.path,
           Kept(c), NEW f \in FrameType, f.at \in Running, Kept(f), Calls(c, f),
           Call(c, f), ProbeOnly
    PROVE  IInv'
<1>1. \A b : Calls(b, Top) => Calls(b, c)
  BY DEF Calls, StatLabels, ListLabels
<1>2. Bottom(Top) => Bottom(c)
  BY DEF Bottom, ListLabels, StatLabels
<1> QED
  BY <1>1, <1>2, CallStep

(* list_dir never reads an absence out of a listing of its own.            *)
LEMMA ListDirStep == IInv /\ ListDir => IInv'
<1> SUFFICES ASSUME IInv, ListDir PROVE IInv'
  OBVIOUS
<1> DEFINE p == Top.path
           Result(answer) == IF answer.entries = {} THEN "empty" ELSE "entries"
<1>1. stack # <<>> /\ Top.at = "list_dir" /\ p \in Paths
  BY TopFacts DEF ListDir, At, FrameType
<1>2. PICK answer \in ListDirRaw(p) :
         /\ ListStep(answer)
         /\ \/ /\ answer.tag = "ok"
               /\ \/ CallStat(Frame("list_confirm", p, Result(answer)), p)
                  \/ Return(Result(answer))
            \/ /\ answer.tag = "refused"
               /\ CallAncestor(Frame("list_absent", p, "none"), p)
            \/ /\ answer.tag \in {"denied", "broken"}
               /\ Return(ErrorOf(answer))
  BY DEF ListDir
<1>3. ProbeOnly
  BY <1>2, ListOnly DEF IInv
<1> DEFINE result == Result(answer)
<1>4. result \in {"empty", "entries"} /\ result \in ListAnswers /\ result \in Answers
  BY DEF ListAnswers, Answers
<1>5. ASSUME CallStat(Frame("list_confirm", p, result), p) PROVE IInv'
  <2> DEFINE c == Frame("list_confirm", p, result)
             f == Frame("stat", p, "none")
  <2> HIDE DEF result
  <2>1. /\ c \in FrameType /\ c.at = "list_confirm" /\ c.path = p /\ c.keep = result
        /\ f \in FrameType /\ f.at = "stat" /\ f.path = p
    BY <1>1, <1>4, FrameFacts, Places
  <2>2. Call(c, f)
    BY <1>5 DEF CallStat
  <2> HIDE DEF c, f
  <2>3. Kept(c) /\ Kept(f) /\ Calls(c, f) /\ f.at \in Running
    BY <1>1, <1>4, <2>1 DEF Kept, Calls, StatLabels, Running
  <2> QED
    BY <1>1, <1>3, <2>1, <2>2, <2>3, ListCalls
<1>6. ASSUME Return(result) PROVE IInv'
  <2> HIDE DEF result
  <2> QED
    BY <1>1, <1>3, <1>4, <1>6, ListReturns DEF ListLabels
<1>7. CASE answer.tag = "refused" /\ CallAncestor(Frame("list_absent", p, "none"), p)
  <2> DEFINE c == Frame("list_absent", p, "none")
             f == Ancestor(p, 0)
  <2>1. c \in FrameType /\ c.at = "list_absent" /\ c.path = p
    BY <1>1, FrameFacts, Places
  <2>4. f \in FrameType /\ f.at = "ancestor" /\ f.path = p
    BY <1>1, NewProbes
  <2>2. Call(c, f)
    BY <1>7 DEF CallAncestor
  <2> HIDE DEF c, f
  <2>3. Kept(c) /\ Kept(f) /\ Calls(c, f) /\ f.at \in Running
    BY <1>1, <2>1, <2>4, AboveItself DEF Kept, Calls, Running
  <2> QED
    BY <1>1, <1>3, <2>1, <2>2, <2>3, <2>4, ListCalls
<1>8. CASE answer.tag \in {"denied", "broken"} /\ Return(ErrorOf(answer))
  <2>1. ErrorOf(answer) \in {"PermissionDenied", "Broken"}
    BY DEF ErrorOf
  <2> QED
    BY <1>1, <1>3, <1>8, <2>1, ListReturns DEF ListLabels, ListAnswers, StatAnswers, FileKinds
<1> QED
  BY <1>2, <1>5, <1>6, <1>7, <1>8

(* A listing that has come is not turned into an absence by a second look. *)
LEMMA ListConfirmStep == IInv /\ ListConfirm => IInv'
<1> SUFFICES ASSUME IInv, ListConfirm PROVE IInv'
  OBVIOUS
<1> DEFINE v == IF ret = "file" THEN "BadFile" ELSE Top.keep
<1>1. stack # <<>> /\ Top.at = "list_confirm" /\ Return(v) /\ ProbeOnly
  BY LocalOnly DEF ListConfirm, At, IInv
<1>2. Top.keep \in {"empty", "entries"}
  BY <1>1, TopFacts DEF Kept
<1>3. v \in ListAnswers /\ v # "NoSuchFileOrDirectory"
  BY <1>2 DEF ListAnswers, StatAnswers, FileKinds
<1> HIDE DEF v
<1> QED
  BY <1>1, <1>3, ListReturns DEF ListLabels

(* What the last call has told the frame at the bottom.                    *)
LEMMA OuterTold ==
    ASSUME IInv, stack # <<>>, Top.at \in Classified \cup {"exists"}
    PROVE  /\ ret \in StatAnswers
           /\ op = Top.at /\ Top.path = path
           /\ ret = "NoSuchFileOrDirectory" => Absent(path)
<1>1. Bottom(Top) /\ Told(Top) /\ op \in Ops
  BY OuterIsBottom DEF OuterLabels
<1>2. op = Top.at /\ Top.path = path
  BY <1>1 DEF Bottom, Classified, StatLabels, ListLabels
<1> QED
  BY <1>1, <1>2 DEF Told

(* exists answers false of what stat found absent.                         *)
LEMMA ExistsStep == IInv /\ Exists => IInv'
<1> SUFFICES ASSUME IInv, Exists PROVE IInv'
  OBVIOUS
<1> DEFINE v == IF ret \in FileKinds THEN "true"
                ELSE IF ret = "NoSuchFileOrDirectory" THEN "false" ELSE ret
<1>1. stack # <<>> /\ Top.at = "exists" /\ Return(v) /\ ProbeOnly
  BY LocalOnly DEF Exists, At, IInv
<1>2. ret \in StatAnswers /\ op = "exists" /\ (ret = "NoSuchFileOrDirectory" => Absent(path))
  BY <1>1, OuterTold
<1>3. /\ v \in Answers
      /\ v \in {"NoSuchFileOrDirectory", "false"} => Absent(path) /\ Subjects = {path}
  BY <1>2 DEF Answers, StatAnswers, Subjects, FileKinds
<1> HIDE DEF v
<1> QED
  BY <1>1, <1>3, OuterReturns DEF OuterLabels

(* The one answer that AbsenceIsReal leaves out.                           *)
LEMMA ClassifyFileRefusalStep == IInv /\ ClassifyFileRefusal => IInv'
<1> SUFFICES ASSUME IInv, ClassifyFileRefusal PROVE IInv'
  OBVIOUS
<1> DEFINE v == IF ret = "dir" THEN "BadFile" ELSE StatusKinds["r550"]
<1>1. stack # <<>> /\ Top.at = "file_refusal" /\ Return(v) /\ ProbeOnly
  BY LocalOnly DEF ClassifyFileRefusal, At, IInv
<1>2. op = "file_refusal"
  BY <1>1, OuterTold DEF Classified
<1>3. v \in Answers
  <2>1. "r550" \in ReplyCodes
    BY DEF ReplyCodes
  <2> QED
    BY <2>1 DEF StatusKinds, Answers
<1> HIDE DEF v
<1> QED
  BY <1>1, <1>2, <1>3, OuterReturns DEF OuterLabels, Classified

(* The classification goes on to stat the parent of what would be created. *)
LEMMA DestinationCalls ==
    ASSUME IInv, stack # <<>>,
           NEW q \in Nodes,
           \/ Top.at \in {"create_refusal", "create_dir_refusal"} /\ q = Top.path
           \/ Top.at = "rename_refusal" /\ q = dest,
           CallStat(Frame("destination_parent", q, "none"), Parent(q)), ProbeOnly
    PROVE  IInv'
<1> DEFINE c == Frame("destination_parent", q, "none")
           f == Frame("stat", Parent(q), "none")
<1>1. q # Root /\ q \in Paths /\ Parent(q) \in Paths
  BY ParentIsAPath DEF Paths
<1>2. /\ c \in FrameType /\ c.at = "destination_parent" /\ c.path = q
      /\ f \in FrameType /\ f.at = "stat" /\ f.path = Parent(q)
  BY <1>1, FrameFacts, Places
<1>3. Call(c, f)
  BY DEF CallStat
<1> HIDE DEF c, f
<1>4. Kept(c) /\ Kept(f) /\ Calls(c, f) /\ f.at \in Running
  BY <1>1, <1>2 DEF Kept, Calls, StatLabels, Running
<1>5. \A b : ~Calls(b, Top)
  BY DEF Calls, StatLabels, ListLabels
<1>6. Bottom(c)
  <2>1. Bottom(Top)
    BY OuterIsBottom DEF OuterLabels, Classified
  <2> QED
    BY <1>2, <2>1 DEF Bottom, StatLabels, ListLabels
<1> QED
  BY <1>2, <1>3, <1>4, <1>5, <1>6, CallStep

(* A creation is refused for want of a parent only after the parent has    *)
(* been looked at.                                                         *)
LEMMA ClassifyCreateRefusalStep == IInv /\ ClassifyCreateRefusal => IInv'
<1> SUFFICES ASSUME IInv, ClassifyCreateRefusal PROVE IInv'
  OBVIOUS
<1>1. stack # <<>> /\ Top.at = "create_refusal" /\ ProbeOnly /\ Top.path \in Paths
  BY LocalOnly, TopFacts DEF ClassifyCreateRefusal, At, IInv, FrameType
<1>2. CASE /\ Top.path # Root
           /\ CallStat(Frame("destination_parent", Top.path, "none"), Parent(Top.path))
  BY <1>1, <1>2, DestinationCalls DEF Paths
<1>3. ASSUME NEW v \in {"AlreadyExists", "PermissionDenied"}, Return(v) PROVE IInv'
  BY <1>1, <1>3, OuterReturns DEF OuterLabels, Classified, Answers
<1> QED
  BY <1>2, <1>3 DEF ClassifyCreateRefusal

(* The same of a directory.                                                *)
LEMMA ClassifyCreateDirRefusalStep == IInv /\ ClassifyCreateDirRefusal => IInv'
<1> SUFFICES ASSUME IInv, ClassifyCreateDirRefusal PROVE IInv'
  OBVIOUS
<1>1. stack # <<>> /\ Top.at = "create_dir_refusal" /\ ProbeOnly /\ Top.path \in Paths
  BY LocalOnly, TopFacts DEF ClassifyCreateDirRefusal, At, IInv, FrameType
<1>2. CASE /\ Top.path # Root
           /\ CallStat(Frame("destination_parent", Top.path, "none"), Parent(Top.path))
  BY <1>1, <1>2, DestinationCalls DEF Paths
<1>3. ASSUME NEW v \in {"AlreadyExists", "PermissionDenied"}, Return(v) PROVE IInv'
  BY <1>1, <1>3, OuterReturns DEF OuterLabels, Classified, Answers
<1> QED
  BY <1>2, <1>3 DEF ClassifyCreateDirRefusal

(* A rename reports its source, or asks about the parent of its destination.*)
LEMMA ClassifyRenameRefusalStep == IInv /\ ClassifyRenameRefusal => IInv'
<1> SUFFICES ASSUME IInv, ClassifyRenameRefusal PROVE IInv'
  OBVIOUS
<1>1. stack # <<>> /\ Top.at = "rename_refusal" /\ ProbeOnly /\ dest \in Paths
  BY LocalOnly DEF ClassifyRenameRefusal, At, IInv, TypeOK, Paths
<1>2. CASE dest # Root /\ CallStat(Frame("destination_parent", dest, "none"), Parent(dest))
  BY <1>1, <1>2, DestinationCalls DEF Paths
<1>3. CASE Return(IF ret = "NoSuchFileOrDirectory" THEN ret ELSE "PermissionDenied")
  <2> DEFINE v == IF ret = "NoSuchFileOrDirectory" THEN ret ELSE "PermissionDenied"
  <2>1. op = "rename_refusal" /\ (ret = "NoSuchFileOrDirectory" => Absent(path))
    BY <1>1, OuterTold DEF Classified
  <2>2. path \in Subjects
    BY <2>1 DEF Subjects
  <2>3. v \in Answers
    BY DEF Answers
  <2>4. v \in {"NoSuchFileOrDirectory", "false"} => \E p \in Subjects : Absent(p)
    BY <2>1, <2>2
  <2>5. Return(v)
    BY <1>3
  <2> HIDE DEF v
  <2> QED
    BY <1>1, <2>3, <2>4, <2>5, OuterReturns DEF OuterLabels, Classified
<1> QED
  BY <1>2, <1>3 DEF ClassifyRenameRefusal

(* That parent is reported missing only if stat has found it so.           *)
LEMMA DestinationParentIsMissingStep == IInv /\ DestinationParentIsMissing => IInv'
<1> SUFFICES ASSUME IInv, DestinationParentIsMissing PROVE IInv'
  OBVIOUS
<1> DEFINE v == IF ret = "NoSuchFileOrDirectory" THEN ret ELSE "PermissionDenied"
<1>1. stack # <<>> /\ Top.at = "destination_parent" /\ Return(v) /\ ProbeOnly
  BY LocalOnly DEF DestinationParentIsMissing, At, IInv
<1>2. Bottom(Top) /\ Told(Top)
  BY <1>1, OuterIsBottom DEF OuterLabels
<1>3. ret = "NoSuchFileOrDirectory" => Absent(Parent(Top.path))
  BY <1>1, <1>2 DEF Told
<1>4. Parent(Top.path) \in Subjects
  BY <1>1, <1>2, OuterIsBottom DEF Bottom, Subjects, StatLabels, ListLabels,
     OuterLabels, Ops, Classified
<1>5. v \in Answers /\ (v \in {"NoSuchFileOrDirectory", "false"} => Absent(Parent(Top.path)))
  BY <1>3 DEF Answers
<1> HIDE DEF v
<1> QED
  BY <1>1, <1>4, <1>5, OuterReturns DEF OuterLabels

(* A refused removal reports what stat found, or lists the directory.      *)
LEMMA ClassifyRemoveDirRefusalStep == IInv /\ ClassifyRemoveDirRefusal => IInv'
<1> SUFFICES ASSUME IInv, ClassifyRemoveDirRefusal PROVE IInv'
  OBVIOUS
<1> DEFINE c == Frame("remove_dir_contents", Top.path, "none")
           f == Frame("list_dir", Top.path, "none")
           v == IF ret \in FileKinds THEN "BadFile"
                ELSE IF ret = "NoSuchFileOrDirectory" THEN ret ELSE "PermissionDenied"
<1>1. stack # <<>> /\ Top.at = "remove_dir_refusal" /\ ProbeOnly /\ Top.path \in Paths
  BY LocalOnly, TopFacts DEF ClassifyRemoveDirRefusal, At, IInv, FrameType
<1>2. /\ op = "remove_dir_refusal" /\ Top.path = path
      /\ ret = "NoSuchFileOrDirectory" => Absent(path)
  BY <1>1, OuterTold DEF Classified
<1>3. CASE Call(c, f)
  <2>1. /\ c \in FrameType /\ c.at = "remove_dir_contents" /\ c.path = Top.path
        /\ f \in FrameType /\ f.at = "list_dir" /\ f.path = Top.path
    BY <1>1, FrameFacts, Places
  <2> HIDE DEF c, f
  <2>2. Kept(c) /\ Kept(f) /\ Calls(c, f) /\ f.at \in Running
    BY <2>1 DEF Kept, Calls, ListLabels, Running
  <2>3. \A b : ~Calls(b, Top)
    BY <1>1, <1>2, OuterIsBottom DEF Calls, StatLabels, ListLabels
  <2>4. Bottom(c)
    BY <1>2, <2>1 DEF Bottom
  <2> QED
    BY <1>1, <1>3, <2>1, <2>2, <2>3, <2>4, CallStep
<1>4. CASE Return(v)
  <2>1. Subjects = {path}
    BY <1>2 DEF Subjects
  <2>2. v \in Answers /\ (v \in {"NoSuchFileOrDirectory", "false"} => Absent(path))
    BY <1>2 DEF Answers
  <2> HIDE DEF v
  <2> QED
    BY <1>1, <1>4, <2>1, <2>2, OuterReturns DEF OuterLabels, Classified
<1> QED
  BY <1>3, <1>4 DEF ClassifyRemoveDirRefusal

(* What that listing shows is never an absence.                            *)
LEMMA RemoveDirContentsStep == IInv /\ RemoveDirContents => IInv'
<1> SUFFICES ASSUME IInv, RemoveDirContents PROVE IInv'
  OBVIOUS
<1>1. PICK v \in {"DirectoryNotEmpty", "PermissionDenied"} : Return(v)
  BY DEF RemoveDirContents
<1>2. stack # <<>> /\ Top.at = "remove_dir_contents" /\ ProbeOnly
  BY LocalOnly DEF RemoveDirContents, At, IInv
<1> QED
  BY <1>1, <1>2, OuterReturns DEF OuterLabels, Answers
(* An operation begins with the tree as it is, and with frames of its own. *)
LEMMA BeginStep == IInv /\ Begin => IInv'
<1> SUFFICES ASSUME IInv, Begin PROVE IInv'
  OBVIOUS
<1>1. op' \in Ops /\ path' \in Paths /\ dest' \in Paths
  BY DEF Begin, Paths
<1>2. PICK f \in FrameType, g \in FrameType :
         /\ f = Frame(op', path', "none") /\ f.at = op' /\ f.path = path'
         /\ g = Frame("stat", path', "none") /\ g.at = "stat" /\ g.path = path'
  BY <1>1, FrameFacts, Places
<1>3. stack' = IF op' \in {"list_dir", "stat"} THEN <<f>> ELSE <<f, g>>
  BY <1>2 DEF Begin
<1>4. Bottom(f)' /\ Kept(f)' /\ Kept(g)'
  BY <1>1, <1>2 DEF Bottom, Kept, Ops, Classified
<1>5. StackInv' /\ stack' # <<>>
  <2>1. CASE op' \in {"list_dir", "stat"}
    <3>1. /\ stack' \in Seq(FrameType) /\ Len(stack') = 1 /\ stack'[1] = f /\ Top' = f
          /\ stack' # <<>>
      BY <1>2, <1>3, <2>1 DEF Top, Last
    <3> QED
      BY <1>1, <1>2, <1>4, <2>1, <3>1 DEF StackInv, Running, Bottom, Kept, Absent
  <2>2. CASE op' \notin {"list_dir", "stat"}
    <3>1. /\ stack' \in Seq(FrameType) /\ Len(stack') = 2 /\ stack'[1] = f /\ stack'[2] = g
          /\ Top' = g /\ stack' # <<>>
      BY <1>2, <1>3, <2>2 DEF Top, Last
    <3>2. Calls(f, g)
      BY <1>1, <1>2, <2>2 DEF Calls, Ops, StatLabels
    <3>3. \A i \in 1..Len(stack') : i = 1 \/ i = 2
      BY <3>1
    <3>4. \A i \in 1..(Len(stack') - 1) : i = 1
      BY <3>1
    <3> QED
      BY <1>1, <1>2, <1>4, <3>1, <3>2, <3>3, <3>4
         DEF StackInv, Running, Bottom, Kept, Absent, Calls
  <2> QED
    BY <2>1, <2>2
<1>6. TypeOK'
  <2>1. \A i \in DOMAIN stack' :
           stack'[i].keep \in Answers /\ stack'[i].tries \in 0..MaxAncestors
    BY <1>5, FramesAreTyped DEF StackInv
  <2> QED
    BY <1>1, <2>1 DEF Begin, IInv, TypeOK, world, Paths
<1> QED
  BY <1>5, <1>6 DEF IInv, PastInv, AbsenceIsReal, Done, Begin, world

(* Another client adds a tree to the past and takes none away: whatever has*)
(* been absent stays so.                                                   *)
LEMMA ChangeStep == IInv /\ Change => IInv'
<1> SUFFICES ASSUME IInv, Change PROVE IInv'
  OBVIOUS
<1>1. /\ UNCHANGED <<op, path, dest, stack, ret, lists, disturbed, style>>
      /\ past' = past \cup {tree'} /\ tree' \in Trees /\ changes' \in 0..MaxChanges
      /\ stack # <<>>
  BY PathProbeAssumption DEF Change, probe, IInv, TypeOK, Done
<1>2. TypeOK'
  BY <1>1 DEF IInv, TypeOK
<1>3. Bottom(stack[1])' /\ op' \in Ops
  BY <1>1 DEF IInv, StackInv, Bottom
<1>4. \A i \in 1..Len(stack) : Kept(stack[i])'
  BY <1>1 DEF IInv, StackInv, Kept, Absent
<1>5. Top' = Top /\ (Top.at \in Running \/ Told(Top)')
  BY <1>1, TopFacts DEF Top, Told, Absent
<1>6. Top'.at \in Running \/ Told(Top)'
  BY <1>5
<1>7. StackInv'
  BY <1>1, <1>3, <1>4, <1>6 DEF StackInv, IInv, Calls
<1> QED
  BY <1>1, <1>2, <1>7 DEF IInv, PastInv, AbsenceIsReal, Done

(* The values the variables have when no operation runs.                   *)
LEMMA NothingYet ==
    /\ \A i \in DOMAIN <<>> :
          <<>>[i].keep \in Answers /\ <<>>[i].tries \in 0..MaxAncestors
    /\ "none" \in Answers
    /\ 0 \in 0..MaxChanges /\ 0 \in 0..(MaxLists - 1)
BY PathProbeAssumption DEF Answers

(* When an operation is over everything is forgotten.                      *)
LEMMA EndStep == IInv /\ End => IInv'
<1> SUFFICES ASSUME IInv, End PROVE IInv'
  OBVIOUS
<1>1. stack' = <<>> /\ stack = <<>> /\ op' = "none"
  BY DEF End, Done
<1>2. TypeOK'
  BY <1>1, NothingYet DEF End, IInv, TypeOK
<1>3. StackInv'
  <2>1. <<>> \in Seq(FrameType) /\ Len(<<>>) = 0
    OBVIOUS
  <2> QED
    BY <1>1, <2>1 DEF StackInv
<1> QED
  BY <1>1, <1>2, <1>3 DEF IInv, PastInv, AbsenceIsReal, Done, Idle

(* A stutter changes nothing the invariant speaks of.                      *)
LEMMA UnchangedStep == IInv /\ UNCHANGED vars => IInv'
<1> SUFFICES ASSUME IInv, UNCHANGED vars PROVE IInv'
  OBVIOUS
<1>1. UNCHANGED <<tree, style, changes, op, path, dest, stack, ret, lists, past, disturbed>>
  BY DEF vars, world, probe
<1>2. \A p : Absent(p)' <=> Absent(p)
  BY <1>1 DEF Absent
<1>3. TypeOK' /\ PastInv'
  BY <1>1 DEF IInv, TypeOK, PastInv
<1>4. StackInv'
  BY <1>1, <1>2 DEF IInv, StackInv, Bottom, Calls, Kept, Told, Top
<1> QED
  BY <1>1, <1>3, <1>4 DEF IInv, AbsenceIsReal, Done, Idle, Subjects

(* The invariant holds before the first operation.                         *)
LEMMA IInvInit == Init => IInv
<1> SUFFICES ASSUME Init PROVE IInv
  OBVIOUS
<1>1. TypeOK
  BY NothingYet DEF Init, TypeOK
<1>2. StackInv
  <2>1. <<>> \in Seq(FrameType) /\ Len(<<>>) = 0
    OBVIOUS
  <2> QED
    BY <2>1 DEF Init, StackInv
<1> QED
  BY <1>1, <1>2 DEF Init, IInv, PastInv, AbsenceIsReal, Done, Idle

(* The invariant is inductive.                                             *)
LEMMA IInvStep == IInv /\ [Next]_vars => IInv'
<1> SUFFICES ASSUME IInv, [Next]_vars PROVE IInv'
  OBVIOUS
<1>1. CASE Begin
  BY <1>1, BeginStep
<1>2. CASE ProbeStep
  BY <1>2, AncestorProvesAbsentStep, AncestorGivesUpStep, RefusalResolvedStep, StatRootStep,
     StatStep, StatParentStep, ListDirStep, ListConfirmStep, ExistsStep,
     ClassifyFileRefusalStep, ClassifyCreateRefusalStep, ClassifyCreateDirRefusalStep,
     ClassifyRenameRefusalStep, DestinationParentIsMissingStep,
     ClassifyRemoveDirRefusalStep, RemoveDirContentsStep
     DEF ProbeStep
<1>3. CASE Change
  BY <1>3, ChangeStep
<1>4. CASE End
  BY <1>4, EndStep
<1>5. CASE UNCHANGED vars
  BY <1>5, UnchangedStep
<1> QED
  BY <1>1, <1>2, <1>3, <1>4, <1>5 DEF Next

(* The inductive invariant holds of every reachable state, whatever the    *)
(* tree, its depth, the changes of others and the failures of LIST.        *)
THEOREM IInvCorrect == Spec => []IInv
BY IInvInit, IInvStep, PTL DEF Spec

(* Every variable keeps its type: the stack holds frames of the call graph *)
(* of list_dir, stat and exists only (sync.rs:418-890).                    *)
THEOREM TypeCorrect == Spec => []TypeOK
<1>1. IInv => TypeOK
  BY DEF IInv
<1> QED
  BY <1>1, IInvCorrect, PTL

(* NoSuchFileOrDirectory, and false of exists, are reported only of what has*)
(* really been absent at some moment of the operation (sync.rs:470, "until a*)
(* successful listing can positively prove absence"): for every tree of any*)
(* depth, any limit of the ancestor probe, any number of changes made      *)
(* meanwhile, and whichever LISTs fail.                                    *)
THEOREM AbsencesAreReal == Spec => []AbsenceIsReal
<1>1. IInv => AbsenceIsReal
  BY DEF IInv
<1> QED
  BY <1>1, IInvCorrect, PTL
-----------------------------------------------------------------------------
(* The number of LISTs.                                                    *)

(* A child is one name longer than its parent.                             *)
LEMMA PathLengths ==
    /\ \A p \in Paths : Len(p) \in Nat
    /\ \A p \in Nodes : Len(p) >= 1 /\ Len(Parent(p)) = Len(p) - 1
    /\ Len(Root) = 0
<1>1. ASSUME NEW p \in Nodes PROVE Len(p) \in Nat \ {0} /\ Len(Parent(p)) = Len(p) - 1
  <2>1. p \in Seq(Range(p)) /\ p # <<>>
    BY PathProbeAssumption DEF Root
  <2> QED
    BY <2>1, FrontFacts DEF Parent
<1>2. Len(Root) = 0
  BY DEF Root
<1> QED
  BY <1>1, <1>2 DEF Paths

(* A frame never has a negative cost.                                      *)
LEMMA CostsAreNatural == TypeOK => \A f \in FrameType : Cost(f) \in Nat
<1> SUFFICES ASSUME TypeOK, NEW f \in FrameType PROVE Cost(f) \in Nat
  OBVIOUS
<1>1. f.path \in Paths /\ dest \in Paths
  BY DEF TypeOK, FrameType, Paths
<1>2. \A p \in Paths : Len(p) \in Nat /\ (p # Root => Len(p) >= 1)
  BY PathLengths DEF Paths
<1> QED
  BY <1>1, <1>2 DEF Cost

(* A frame that waits above the bottom only passes on what it is told.     *)
LEMMA WaitingIsFree ==
    ASSUME IInv, stack # <<>>, NEW i \in 2..(Len(stack) - 1)
    PROVE  Cost(stack[i]) = 0
<1>1. Len(stack) \in Nat \ {0}
  BY TopFacts
<1>2. Calls(stack[i - 1], stack[i]) /\ Calls(stack[i], stack[i + 1])
  <2>1. i - 1 \in 1..(Len(stack) - 1) /\ i \in 1..(Len(stack) - 1) /\ (i - 1) + 1 = i
    BY <1>1
  <2>2. \A j \in 1..(Len(stack) - 1) : Calls(stack[j], stack[j + 1])
    BY DEF IInv, StackInv
  <2>3. Calls(stack[i - 1], stack[(i - 1) + 1])
    BY <2>1, <2>2
  <2> QED
    BY <2>1, <2>2, <2>3
<1>3. stack[i].at \in {"stat_absent", "list_absent", "stat_parent", "list_confirm"}
  BY <1>2 DEF Calls, Classified, StatLabels, ListLabels
<1> QED
  BY <1>3 DEF Cost

(* Once the top frame has returned, what it might still have cost is gone. *)
LEMMA DueAfterReturn ==
    ASSUME IInv, stack # <<>>, NEW v, Return(v), ProbeOnly
    PROVE  Due \in Nat /\ Due' \in Nat /\ Due = Due' + Cost(Top) /\ Cost(Top) \in Nat
<1> DEFINE n == Len(stack)
<1>1. /\ n \in Nat \ {0} /\ Top = stack[n] /\ Top \in FrameType
      /\ Len(stack') = n - 1
      /\ \A i \in 1..(n - 1) : stack'[i] = stack[i]
      /\ stack \in Seq(FrameType)
  BY TopFacts, FrontFacts DEF IInv, StackInv, Return
<1>2. \A i \in 1..n : stack[i] \in FrameType /\ Cost(stack[i]) \in Nat
  BY <1>1, CostsAreNatural, ElementOfSeq DEF IInv
<1>3. Cost(Top) \in Nat
  BY <1>1, <1>2
<1>4. dest' = dest
  BY DEF ProbeOnly
<1>5. CASE n = 1
  BY <1>1, <1>3, <1>5 DEF Due
<1>6. CASE n = 2
  <2>1. Due = Cost(stack[1]) + Cost(Top)
    BY <1>6 DEF Due
  <2>2. Len(stack') = 1 /\ stack'[1] = stack[1] /\ Top' = stack[1]
    BY <1>1, <1>6 DEF Top, Last
  <2>3. Due' = Cost(stack[1])
    BY <1>4, <2>2 DEF Due, Cost
  <2> QED
    BY <1>2, <1>3, <1>6, <2>1, <2>3
<1>7. CASE n > 2
  <2>1. Due = Cost(stack[1]) + Cost(Top)
    BY <1>1, <1>7 DEF Due
  <2>2. Len(stack') > 1 /\ stack'[1] = stack[1] /\ Top' = stack[n - 1]
    BY <1>1, <1>7 DEF Top, Last
  <2>3. n - 1 \in 2..(n - 1) /\ Cost(stack[n - 1]) = 0
    BY <1>1, <1>7, WaitingIsFree
  <2>5. Len(stack') # 0 /\ Len(stack') # 1
    BY <1>1, <1>7
  <2>4. Due' = Cost(stack[1]) + Cost(stack[n - 1])
    BY <1>4, <2>2, <2>5 DEF Due, Cost
  <2> QED
    BY <1>1, <1>2, <1>3, <1>7, <2>1, <2>3, <2>4
<1>8. \A k \in Nat \ {0} : k = 1 \/ k = 2 \/ k > 2
  OBVIOUS
<1> QED
  BY <1>1, <1>5, <1>6, <1>7, <1>8

(* A call hands on a part of what the caller might still have cost.        *)
LEMMA DueAfterCall ==
    ASSUME IInv, stack # <<>>, NEW c \in FrameType, NEW f \in FrameType, Call(c, f), ProbeOnly
    PROVE  /\ Due \in Nat /\ Due' \in Nat
           /\ Due' + Cost(Top) <= Due + Cost(c) + Cost(f)
           /\ Cost(c) \in Nat /\ Cost(f) \in Nat /\ Cost(Top) \in Nat
<1> DEFINE n == Len(stack)
<1>1. /\ n \in Nat \ {0} /\ Top = stack[n] /\ Top \in FrameType
      /\ Len(stack') = n + 1
      /\ \A i \in 1..(n - 1) : stack'[i] = stack[i]
      /\ stack'[n] = c /\ Top' = f
      /\ stack \in Seq(FrameType)
  <2>1. stack \in Seq(FrameType) /\ stack' = Front(stack) \o <<c, f>>
    BY DEF IInv, StackInv, Call
  <2> QED
    BY <2>1, TopFacts, CallFacts DEF Top
<1>2. Cost(c) \in Nat /\ Cost(f) \in Nat /\ Cost(Top) \in Nat
  BY <1>1, CostsAreNatural DEF IInv
<1>3. dest' = dest
  BY DEF ProbeOnly
<1>4. Due' = Cost(stack'[1]) + Cost(f)
  <2>1. Len(stack') # 0 /\ Len(stack') # 1
    BY <1>1
  <2> QED
    BY <1>1, <1>3, <2>1 DEF Due, Cost
<1>5. CASE n = 1
  <2>1. Due = Cost(Top)
    BY <1>5 DEF Due
  <2>2. Due' = Cost(c) + Cost(f)
    BY <1>1, <1>4, <1>5
  <2> QED
    BY <1>2, <2>1, <2>2
<1>6. CASE n > 1
  <2>1. Due = Cost(stack[1]) + Cost(Top)
    BY <1>1, <1>6 DEF Due
  <2>2. stack'[1] = stack[1]
    BY <1>1, <1>6
  <2>3. Cost(stack[1]) \in Nat
    BY <1>1, CostsAreNatural, ElementOfSeq DEF IInv
  <2> QED
    BY <1>2, <1>4, <2>1, <2>2, <2>3
<1> QED
  BY <1>1, <1>5, <1>6, OneOrMore

(* What an operation may send in all is a number.                          *)
LEMMA AllowanceIsNatural == TypeOK /\ BoundInv => Allowance \in Nat
<1> SUFFICES ASSUME TypeOK, BoundInv PROVE Allowance \in Nat
  OBVIOUS
<1>1. Len(path) \in Nat /\ Len(dest) \in Nat /\ (dest # Root => Len(dest) >= 1)
  BY PathLengths DEF TypeOK, Paths
<1> QED
  BY <1>1 DEF Allowance, BoundInv

(* The two sums that every step comes to.                                  *)
LEMMA Accounts ==
    /\ \A l, m, d, e, t, a \in Nat :
          m <= l + t /\ d = e + t /\ l + d <= a => m + e <= a
    /\ \A l, m, d, e, k, x, y, t, a \in Nat :
          m <= l + k /\ e + t <= d + x + y /\ k + x + y <= t /\ l + d <= a => m + e <= a
OBVIOUS

(* A return that has cost no more than the top frame might.                *)
LEMMA ReturnIsPaid ==
    ASSUME IInv, BoundInv, stack # <<>>, NEW v, Return(v), ProbeOnly,
           lists' <= lists + Cost(Top)
    PROVE  BoundInv'
<1>1. Due \in Nat /\ Due' \in Nat /\ Due = Due' + Cost(Top) /\ Cost(Top) \in Nat
  BY DueAfterReturn
<1>2. lists \in Nat /\ lists' \in Nat
  BY PathProbeAssumption DEF IInv, TypeOK, ProbeOnly
<1>3. UNCHANGED <<op, path, dest>> /\ op # "none"
  BY TopFacts DEF ProbeOnly, Ops, Classified
<1>4. lists + Due <= Allowance /\ Allowance \in Nat
  BY AllowanceIsNatural DEF BoundInv, IInv
<1>5. lists' + Due' <= Allowance
  BY <1>1, <1>2, <1>4, Accounts
<1> QED
  BY <1>3, <1>5 DEF BoundInv, Allowance

(* A call that, with the LIST before it, has cost no more than the top frame*)
(* might.                                                                  *)
LEMMA CallIsPaid ==
    ASSUME IInv, BoundInv, stack # <<>>, NEW c \in FrameType, NEW f \in FrameType,
           Call(c, f), ProbeOnly, NEW k \in Nat, lists' <= lists + k,
           k + Cost(c) + Cost(f) <= Cost(Top)
    PROVE  BoundInv'
<1>1. /\ Due \in Nat /\ Due' \in Nat
      /\ Due' + Cost(Top) <= Due + Cost(c) + Cost(f)
      /\ Cost(c) \in Nat /\ Cost(f) \in Nat /\ Cost(Top) \in Nat
  BY DueAfterCall
<1>2. lists \in Nat /\ lists' \in Nat
  BY PathProbeAssumption DEF IInv, TypeOK, ProbeOnly
<1>3. UNCHANGED <<op, path, dest>> /\ op # "none"
  BY TopFacts DEF ProbeOnly, Ops, Classified
<1>4. lists + Due <= Allowance /\ Allowance \in Nat
  BY AllowanceIsNatural DEF BoundInv, IInv
<1>5. lists' + Due' <= Allowance
  BY <1>1, <1>2, <1>4, Accounts
<1> QED
  BY <1>3, <1>5 DEF BoundInv, Allowance

(* The next turn of the ancestor loop.                                     *)
LEMMA TurnIsPaid ==
    ASSUME IInv, BoundInv, stack # <<>>, Top.at = "ancestor", Top.path \in Nodes,
           NEW m \in 0..MaxAncestors, Become(Ancestor(Parent(Top.path), m)), ProbeOnly,
           lists' <= lists + 1
    PROVE  BoundInv'
<1> DEFINE n == Len(stack)
           f == Ancestor(Parent(Top.path), m)
<1>1. f \in FrameType /\ f.at = "ancestor" /\ f.path = Parent(Top.path)
  BY AncestorFacts, ParentIsAPath
<1>2. Cost(f) + 1 = Cost(Top) /\ Cost(f) \in Nat
  <2>1. Len(Top.path) \in Nat /\ Len(Parent(Top.path)) = Len(Top.path) - 1
    BY PathLengths DEF Paths
  <2>2. Cost(Top) = Len(Top.path) /\ Cost(f) = Len(Parent(Top.path))
    BY <1>1 DEF Cost
  <2>3. Cost(f) \in Nat
    BY <1>1, CostsAreNatural DEF IInv
  <2> QED
    BY <2>1, <2>2, <2>3
<1>3. n \in Nat \ {0} /\ n > 1
  BY TopFacts, AncestorIsCalled
<1> HIDE DEF f
<1>4. Len(stack') = n /\ stack'[1] = stack[1] /\ Top' = f
  BY <1>1, <1>3, BecomeFacts DEF IInv, StackInv, Become, Top, f
<1>5. UNCHANGED <<op, path, dest>> /\ op # "none"
  BY TopFacts DEF ProbeOnly, Ops, Classified
<1>6. n # 0 /\ n # 1
  BY <1>3
<1>7. Due = Cost(stack[1]) + Cost(Top)
  BY <1>6 DEF Due
<1>8. Due' = Cost(stack[1]) + Cost(f)
  BY <1>4, <1>5, <1>6 DEF Due, Cost
<1>9. Cost(stack[1]) \in Nat /\ lists \in Nat /\ lists' \in Nat
  <2>1. stack[1] \in FrameType
    BY <1>3, ElementOfSeq DEF IInv, StackInv
  <2> QED
    BY <2>1, CostsAreNatural, PathProbeAssumption DEF IInv, TypeOK, ProbeOnly
<1>10. lists + Due <= Allowance /\ Allowance \in Nat
  BY AllowanceIsNatural DEF BoundInv, IInv
<1>11. lists' + Due' <= Allowance
  BY <1>2, <1>7, <1>8, <1>9, <1>10
<1> QED
  BY <1>5, <1>11 DEF BoundInv, Allowance

(* A step without a LIST that returns.                                     *)
LEMMA LocalReturn ==
    ASSUME IInv, BoundInv, stack # <<>>, NEW v, Return(v), ProbeOnly, lists' = lists
    PROVE  BoundInv'
<1>1. Cost(Top) \in Nat
  BY TopFacts, CostsAreNatural DEF IInv
<1>2. lists' <= lists + Cost(Top)
  BY <1>1, PathProbeAssumption DEF IInv, TypeOK
<1> QED
  BY <1>2, ReturnIsPaid

(* A LIST counts for one at most.                                          *)
LEMMA ListIsCounted ==
    ASSUME TypeOK, NEW answer, ListStep(answer)
    PROVE  lists' <= lists + 1 /\ lists \in Nat /\ lists' \in Nat
<1>1. lists \in Nat /\ lists' = (lists + 1) % MaxLists
  BY PathProbeAssumption DEF TypeOK, ListStep
<1>2. (lists + 1) % MaxLists \in 0..(MaxLists - 1) /\ (lists + 1) % MaxLists <= lists + 1
  BY <1>1, CountedLists
<1> QED
  BY <1>1, <1>2, PathProbeAssumption

(* Each turn of the ancestor loop goes up by one name.                     *)
LEMMA AncestorProvesAbsentPaid == IInv /\ BoundInv /\ AncestorProvesAbsent => BoundInv'
<1> SUFFICES ASSUME IInv, BoundInv, AncestorProvesAbsent PROVE BoundInv'
  OBVIOUS
<1>1. /\ stack # <<>> /\ Top.at = "ancestor" /\ Top.path # Root
      /\ Top.tries < MaxAncestors
  BY DEF AncestorProvesAbsent, At
<1>2. Top.path \in Nodes /\ Top.tries \in 0..MaxAncestors
  BY <1>1, TopFacts DEF FrameType, Paths
<1>3. PICK answer \in ListDirRaw(Parent(Top.path)) :
         /\ ListStep(answer)
         /\ \/ Become(Ancestor(Parent(Top.path), Top.tries + 1))
            \/ \E v : Return(v)
  BY DEF AncestorProvesAbsent
<1>4. ProbeOnly /\ lists' <= lists + 1 /\ lists \in Nat /\ lists' \in Nat
  BY <1>3, ListOnly, ListIsCounted DEF IInv
<1>5. Top.tries + 1 \in 0..MaxAncestors
  BY <1>1, <1>2, PathProbeAssumption
<1>6. CASE Become(Ancestor(Parent(Top.path), Top.tries + 1))
  BY <1>1, <1>2, <1>4, <1>5, <1>6, TurnIsPaid
<1>7. CASE \E v : Return(v)
  <2>1. Cost(Top) = Len(Top.path) /\ Len(Top.path) >= 1 /\ Len(Top.path) \in Nat
    BY <1>1, <1>2, PathLengths DEF Cost, Paths
  <2>2. lists' <= lists + Cost(Top)
    BY <1>4, <2>1
  <2> QED
    BY <1>1, <1>4, <1>7, <2>2, ReturnIsPaid
<1> QED
  BY <1>3, <1>6, <1>7

(* stat asks about the parent, and then only about what is above it.       *)
LEMMA StatPaid == IInv /\ BoundInv /\ Stat => BoundInv'
<1> SUFFICES ASSUME IInv, BoundInv, Stat PROVE BoundInv'
  OBVIOUS
<1> DEFINE p == Top.path
<1>1. stack # <<>> /\ Top.at = "stat" /\ p \in Nodes /\ Parent(p) \in Paths /\ p \in Paths
  <2>1. stack # <<>> /\ Top.at = "stat" /\ p # Root
    BY DEF Stat, At
  <2>2. p \in Nodes
    BY <2>1, TopFacts DEF FrameType, Paths
  <2> QED
    BY <2>1, <2>2, ParentIsAPath DEF Paths
<1>2. PICK answer \in ListDirRaw(Parent(p)) :
         /\ ListStep(answer)
         /\ \/ /\ answer.tag = "ok"
               /\ CallStat(Frame("stat_parent", p, Lookup(p, answer.entries)), Parent(p))
            \/ CallAncestor(Frame("stat_absent", p, "none"), Parent(p))
            \/ \E v : Return(v)
  BY DEF Stat
<1>3. ProbeOnly /\ lists' <= lists + 1 /\ lists \in Nat /\ lists' \in Nat
  BY <1>2, ListOnly, ListIsCounted DEF IInv
<1>4. /\ Cost(Top) = Len(p) /\ Len(p) >= 1 /\ Len(p) \in Nat
      /\ Len(Parent(p)) = Len(p) - 1
  BY <1>1, PathLengths DEF Cost
<1>5. ASSUME NEW c \in FrameType, c.at \in {"stat_parent", "stat_absent"},
             NEW f \in FrameType, f.at \in {"stat", "ancestor"}, f.path = Parent(p), Call(c, f)
      PROVE  BoundInv'
  <2>1. Cost(c) = 0 /\ Cost(f) = Len(Parent(p))
    BY <1>5 DEF Cost
  <2>2. 1 + Cost(c) + Cost(f) <= Cost(Top)
    BY <1>4, <2>1
  <2> QED
    BY <1>1, <1>3, <1>5, <2>2, CallIsPaid
<1>6. CASE /\ answer.tag = "ok"
           /\ CallStat(Frame("stat_parent", p, Lookup(p, answer.entries)), Parent(p))
  <2> DEFINE found == Lookup(p, answer.entries)
             c == Frame("stat_parent", p, found)
             f == Frame("stat", Parent(p), "none")
  <2>1. answer = Listing(Parent(p))
    BY <1>2, <1>6, AnswersOfList
  <2>2. found \in FileKinds \cup {"NoSuchFileOrDirectory"}
    BY <1>1, <1>6, <2>1, LookupFinds DEF IInv, TypeOK
  <2>3. found \in Answers
    BY <2>2 DEF Answers
  <2> HIDE DEF found
  <2>4. /\ c \in FrameType /\ c.at = "stat_parent"
        /\ f \in FrameType /\ f.at = "stat" /\ f.path = Parent(p)
    BY <1>1, <2>3, FrameFacts, Places
  <2>5. Call(c, f)
    BY <1>6 DEF CallStat, found
  <2> HIDE DEF c, f
  <2> QED
    BY <1>5, <2>4, <2>5
<1>7. CASE CallAncestor(Frame("stat_absent", p, "none"), Parent(p))
  <2> DEFINE c == Frame("stat_absent", p, "none")
             f == Ancestor(Parent(p), 0)
  <2>1. c \in FrameType /\ c.at = "stat_absent"
    BY <1>1, FrameFacts, Places
  <2>2. f \in FrameType /\ f.at = "ancestor" /\ f.path = Parent(p)
    BY <1>1, NewProbes
  <2>3. Call(c, f)
    BY <1>7 DEF CallAncestor
  <2> HIDE DEF c, f
  <2> QED
    BY <1>5, <2>1, <2>2, <2>3
<1>8. CASE \E v : Return(v)
  <2>1. lists' <= lists + Cost(Top)
    BY <1>3, <1>4
  <2> QED
    BY <1>1, <1>3, <1>8, <2>1, ReturnIsPaid
<1> QED
  BY <1>2, <1>6, <1>7, <1>8

(* list_dir asks about the path, and then once more what is above it.      *)
LEMMA ListDirPaid == IInv /\ BoundInv /\ ListDir => BoundInv'
<1> SUFFICES ASSUME IInv, BoundInv, ListDir PROVE BoundInv'
  OBVIOUS
<1> DEFINE p == Top.path
<1>1. stack # <<>> /\ Top.at = "list_dir" /\ p \in Paths
  BY TopFacts DEF ListDir, At, FrameType
<1>2. PICK answer \in ListDirRaw(p), result \in {"empty", "entries"} :
         /\ ListStep(answer)
         /\ \/ CallStat(Frame("list_confirm", p, result), p)
            \/ CallAncestor(Frame("list_absent", p, "none"), p)
            \/ \E v : Return(v)
  BY DEF ListDir
<1>3. ProbeOnly /\ lists' <= lists + 1 /\ lists \in Nat /\ lists' \in Nat
  BY <1>2, ListOnly, ListIsCounted DEF IInv
<1>4. Cost(Top) = Len(p) + 1 /\ Len(p) \in Nat
  BY <1>1, PathLengths DEF Cost
<1>5. ASSUME NEW c \in FrameType, c.at \in {"list_confirm", "list_absent"},
             NEW f \in FrameType, f.at \in {"stat", "ancestor"}, f.path = p, Call(c, f)
      PROVE  BoundInv'
  <2>1. Cost(c) = 0 /\ Cost(f) = Len(p)
    BY <1>5 DEF Cost
  <2>2. 1 + Cost(c) + Cost(f) <= Cost(Top)
    BY <1>4, <2>1
  <2> QED
    BY <1>1, <1>3, <1>5, <2>2, CallIsPaid
<1>6. CASE CallStat(Frame("list_confirm", p, result), p)
  <2> DEFINE c == Frame("list_confirm", p, result)
             f == Frame("stat", p, "none")
  <2>3. result \in Answers
    BY DEF Answers
  <2>1. /\ c \in FrameType /\ c.at = "list_confirm"
        /\ f \in FrameType /\ f.at = "stat" /\ f.path = p
    BY <1>1, <2>3, FrameFacts, Places
  <2>2. Call(c, f)
    BY <1>6 DEF CallStat
  <2> HIDE DEF c, f
  <2> QED
    BY <1>5, <2>1, <2>2
<1>7. CASE CallAncestor(Frame("list_absent", p, "none"), p)
  <2> DEFINE c == Frame("list_absent", p, "none")
             f == Ancestor(p, 0)
  <2>1. c \in FrameType /\ c.at = "list_absent"
    BY <1>1, FrameFacts, Places
  <2>2. f \in FrameType /\ f.at = "ancestor" /\ f.path = p
    BY <1>1, NewProbes
  <2>3. Call(c, f)
    BY <1>7 DEF CallAncestor
  <2> HIDE DEF c, f
  <2> QED
    BY <1>5, <2>1, <2>2, <2>3
<1>8. CASE \E v : Return(v)
  <2>1. lists' <= lists + Cost(Top)
    BY <1>3, <1>4
  <2> QED
    BY <1>1, <1>3, <1>8, <2>1, ReturnIsPaid
<1> QED
  BY <1>2, <1>6, <1>7, <1>8

(* The parent of what would be created or renamed is looked up once.       *)
LEMMA DestinationPaid ==
    ASSUME IInv, BoundInv, stack # <<>>,
           NEW q \in Nodes,
           \/ Top.at \in {"create_refusal", "create_dir_refusal"} /\ q = Top.path
           \/ Top.at = "rename_refusal" /\ q = dest,
           CallStat(Frame("destination_parent", q, "none"), Parent(q)), ProbeOnly, lists' = lists
    PROVE  BoundInv'
<1> DEFINE c == Frame("destination_parent", q, "none")
           f == Frame("stat", Parent(q), "none")
<1>1. q # Root /\ q \in Paths /\ Parent(q) \in Paths
  BY ParentIsAPath DEF Paths
<1>2. /\ c \in FrameType /\ c.at = "destination_parent"
      /\ f \in FrameType /\ f.at = "stat" /\ f.path = Parent(q)
  BY <1>1, FrameFacts, Places
<1>3. Call(c, f)
  BY DEF CallStat
<1> HIDE DEF c, f
<1>4. Cost(c) = 0 /\ Cost(f) = Len(Parent(q))
  BY <1>2 DEF Cost
<1>5. Len(q) \in Nat /\ Len(q) >= 1 /\ Len(Parent(q)) = Len(q) - 1
  BY <1>1, PathLengths
<1>6. Cost(Top) = Len(q) - 1
  BY <1>1 DEF Cost
<1>7. 0 + Cost(c) + Cost(f) <= Cost(Top) /\ lists' <= lists + 0 /\ 0 \in Nat
  BY <1>4, <1>5, <1>6, PathProbeAssumption DEF IInv, TypeOK
<1> QED
  BY <1>2, <1>3, <1>7, CallIsPaid

(* The classification of a refused command.                                *)
LEMMA ClassificationPaid ==
    ASSUME IInv, BoundInv,
           \/ ClassifyCreateRefusal \/ ClassifyCreateDirRefusal \/ ClassifyRenameRefusal
           \/ ClassifyRemoveDirRefusal
    PROVE  BoundInv'
<1>1. stack # <<>> /\ ProbeOnly /\ lists' = lists
  BY LocalOnly DEF ClassifyCreateRefusal, ClassifyCreateDirRefusal, ClassifyRenameRefusal,
     ClassifyRemoveDirRefusal, At, LocalStep, IInv
<1>2. Top.path \in Paths /\ dest \in Paths
  BY <1>1, TopFacts DEF FrameType, IInv, TypeOK, Paths
<1>3. CASE \E v : Return(v)
  BY <1>1, <1>3, LocalReturn
<1>4. CASE /\ Top.at \in {"create_refusal", "create_dir_refusal"} /\ Top.path # Root
           /\ CallStat(Frame("destination_parent", Top.path, "none"), Parent(Top.path))
  BY <1>1, <1>2, <1>4, DestinationPaid DEF Paths
<1>5. CASE /\ Top.at = "rename_refusal" /\ dest # Root
           /\ CallStat(Frame("destination_parent", dest, "none"), Parent(dest))
  BY <1>1, <1>2, <1>5, DestinationPaid DEF Paths
<1>6. CASE /\ Top.at = "remove_dir_refusal"
           /\ Call(Frame("remove_dir_contents", Top.path, "none"),
                   Frame("list_dir", Top.path, "none"))
  <2> DEFINE c == Frame("remove_dir_contents", Top.path, "none")
             f == Frame("list_dir", Top.path, "none")
  <2>1. /\ c \in FrameType /\ c.at = "remove_dir_contents"
        /\ f \in FrameType /\ f.at = "list_dir" /\ f.path = Top.path
    BY <1>2, FrameFacts, Places
  <2>2. Call(c, f)
    BY <1>6
  <2> HIDE DEF c, f
  <2>3. Cost(c) = 0 /\ Cost(f) = Len(Top.path) + 1 /\ Cost(Top) = Len(Top.path) + 1
    BY <1>6, <2>1 DEF Cost
  <2>4. 0 + Cost(c) + Cost(f) <= Cost(Top) /\ lists' <= lists + 0 /\ 0 \in Nat
    BY <1>1, <1>2, <2>3, PathLengths, PathProbeAssumption DEF IInv, TypeOK
  <2> QED
    BY <1>1, <2>1, <2>2, <2>4, CallIsPaid
<1> QED
  BY <1>3, <1>4, <1>5, <1>6
     DEF ClassifyCreateRefusal, ClassifyCreateDirRefusal, ClassifyRenameRefusal,
         ClassifyRemoveDirRefusal, At

(* An operation begins with what it may cost.                              *)
LEMMA BeginPaid == IInv /\ BoundInv /\ Begin => BoundInv'
<1> SUFFICES ASSUME IInv, BoundInv, Begin PROVE BoundInv'
  OBVIOUS
<1>1. /\ op' \in Ops /\ path' \in Paths /\ dest' \in Paths
      /\ op' = "rename_refusal" => dest' \in Nodes
      /\ lists' = 0
  BY DEF Begin, Paths, Idle, BoundInv
<1>2. PICK f \in FrameType, g \in FrameType :
         /\ f = Frame(op', path', "none") /\ f.at = op' /\ f.path = path'
         /\ g = Frame("stat", path', "none") /\ g.at = "stat" /\ g.path = path'
  BY <1>1, FrameFacts, Places
<1>3. /\ Len(path') \in Nat /\ Len(dest') \in Nat
      /\ path' # Root => Len(path') >= 1
      /\ op' = "rename_refusal" => dest' # Root /\ Len(dest') >= 1
  BY <1>1, PathLengths, ParentIsAPath DEF Paths
<1>4. CASE op' \in {"list_dir", "stat"}
  <2>1. stack' = <<f>>
    BY <1>2, <1>4 DEF Begin
  <2>2. Len(stack') = 1 /\ Top' = f
    BY <2>1 DEF Top, Last
  <2>3. Due' = IF op' = "stat" THEN Len(path') ELSE Len(path') + 1
    BY <1>2, <1>4, <2>2 DEF Due, Cost
  <2>4. Allowance' = Due'
    BY <1>4, <2>3 DEF Allowance
  <2> QED
    BY <1>1, <1>3, <1>4, <2>3, <2>4 DEF BoundInv
<1>5. CASE op' \notin {"list_dir", "stat"}
  <2>1. stack' = <<f, g>>
    BY <1>2, <1>5 DEF Begin
  <2>2. Len(stack') = 2 /\ stack'[1] = f /\ Top' = g
    BY <2>1 DEF Top, Last
  <2>3. Due' = Cost(f)' + Cost(g)'
    BY <2>2 DEF Due, Cost
  <2>5. Cost(g)' = Len(path')
    BY <1>2 DEF Cost
  <2>6. Cost(f)' = CASE op' \in {"create_refusal", "create_dir_refusal"} ->
                           IF path' = Root THEN 0 ELSE Len(path') - 1
                     [] op' = "rename_refusal" -> Len(dest') - 1
                     [] op' = "remove_dir_refusal" -> Len(path') + 1
                     [] OTHER -> 0
    BY <1>1, <1>2, <1>3, <1>5 DEF Cost, Ops, Classified
  <2>4. 0 + Due' <= Allowance'
    BY <1>1, <1>3, <1>5, <2>3, <2>5, <2>6 DEF Allowance
  <2> QED
    BY <1>1, <1>3, <2>4 DEF BoundInv, Ops, Classified
<1> QED
  BY <1>4, <1>5

(* Nothing has been sent, and nothing is due.                              *)
LEMMA BoundInvInit == Init => BoundInv
<1> SUFFICES ASSUME Init PROVE BoundInv
  OBVIOUS
<1>1. stack = <<>> /\ lists = 0 /\ op = "none" /\ path = Root
  BY DEF Init
<1>2. Due = 0 /\ Allowance = Len(Root)
  BY <1>1 DEF Due, Allowance
<1> QED
  BY <1>1, <1>2, PathLengths DEF BoundInv

(* The account is never overdrawn.                                         *)
LEMMA BoundInvStep == IInv /\ BoundInv /\ [Next]_vars => BoundInv'
<1> SUFFICES ASSUME IInv, BoundInv, [Next]_vars PROVE BoundInv'
  OBVIOUS
<1>1. CASE Begin
  BY <1>1, BeginPaid
<1>2. CASE \/ AncestorGivesUp \/ RefusalResolved \/ StatParent \/ ListConfirm \/ Exists
           \/ ClassifyFileRefusal \/ DestinationParentIsMissing \/ RemoveDirContents
  <2>1. stack # <<>> /\ LocalStep /\ \E v : Return(v)
    BY <1>2 DEF AncestorGivesUp, RefusalResolved, StatParent, ListConfirm, Exists,
       ClassifyFileRefusal, DestinationParentIsMissing, RemoveDirContents, At
  <2> QED
    BY <2>1, LocalOnly, LocalReturn DEF IInv, LocalStep
<1>3. CASE StatRoot
  <2>1. stack # <<>> /\ ProbeOnly /\ lists' = lists /\ \E v : Return(v)
    BY <1>3 DEF StatRoot, At, ProbeOnly, IInv, TypeOK
  <2> QED
    BY <2>1, LocalReturn
<1>4. CASE AncestorProvesAbsent \/ Stat \/ ListDir
  BY <1>4, AncestorProvesAbsentPaid, StatPaid, ListDirPaid
<1>5. CASE \/ ClassifyCreateRefusal \/ ClassifyCreateDirRefusal \/ ClassifyRenameRefusal
           \/ ClassifyRemoveDirRefusal
  BY <1>5, ClassificationPaid
<1>6. CASE Change \/ UNCHANGED vars
  BY <1>6 DEF Change, vars, probe, BoundInv, Due, Cost, Allowance, Top
<1>7. CASE End
  <2>1. stack' = <<>> /\ lists' = 0 /\ op' = "none" /\ path' = Root
    BY <1>7 DEF End, Done
  <2>2. Due' = 0 /\ Allowance' = Len(Root)
    BY <2>1 DEF Due, Allowance
  <2> QED
    BY <2>1, <2>2, PathLengths DEF BoundInv
<1> QED
  BY <1>1, <1>2, <1>3, <1>4, <1>5, <1>6, <1>7 DEF Next, ProbeStep

(* An operation sends no more LISTs than its paths are deep, once for each *)
(* question it asks (test ancestor_probe_lists_each_parent_at_most_once):  *)
(* for paths of every length, and whatever changes or fails meanwhile.     *)
THEOREM ListsAreBounded == Spec => []ProbesAreBounded
<1>1. IInv /\ BoundInv => ProbesAreBounded
  <2> SUFFICES ASSUME IInv, BoundInv PROVE ProbesAreBounded
    OBVIOUS
  <2>1. Due \in Nat
    <3>1. CASE stack = <<>>
      BY <3>1 DEF Due
    <3>2. CASE stack # <<>>
      <4>1. /\ Len(stack) \in Nat \ {0} /\ Top \in FrameType /\ stack[1] \in FrameType
        BY <3>2, TopFacts, ElementOfSeq DEF IInv, StackInv
      <4>2. Cost(Top) \in Nat /\ Cost(stack[1]) \in Nat
        BY <4>1, CostsAreNatural DEF IInv
      <4> QED
        BY <4>1, <4>2 DEF Due
    <3> QED
      BY <3>1, <3>2
  <2>2. lists + Due <= Allowance /\ Allowance \in Nat /\ lists \in Nat
    BY AllowanceIsNatural, PathProbeAssumption DEF BoundInv, IInv, TypeOK
  <2>3. lists <= Allowance
    BY <2>1, <2>2
  <2> QED
    BY <2>3 DEF ProbesAreBounded, Allowance
<1> QED
  BY <1>1, BoundInvInit, BoundInvStep, IInvCorrect, PTL DEF Spec

=============================================================================
