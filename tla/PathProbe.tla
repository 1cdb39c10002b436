----------------------------- MODULE PathProbe -----------------------------
(***************************************************************************)
(* How both clients find out what is at a path, with nothing but LIST:     *)
(* list_dir, stat, exists, and the classification of a refused command.    *)
(*                                                                         *)
(* A step is one LIST and what follows it up to the next call or return.   *)
(* Between two steps another client of the server may change the tree, and *)
(* a LIST may meet a connection that is busy or lost.  Calls nest (stat    *)
(* asks itself about a suspicious parent), so a stack of frames says where *)
(* the operation is; ret is what the last call returned.                   *)
(*                                                                         *)
(* A path is the sequence of its names.  A locked directory exists and can *)
(* be passed through but not listed.                                       *)
(***************************************************************************)
EXTENDS FtpErrors, SequencesExt

CONSTANTS
    Nodes,          \* the paths below the root that may exist
    MaxAncestors,   \* listings one ancestor probe may do: 8 in the code
    MaxChanges,     \* changes other clients make during one operation
    MayFail,        \* whether a LIST may fail for a reason of its own
    MaxLists        \* the count of LISTs starts over here, beyond every bound claimed

Root == <<>>
Parent(p) == Front(p)
Child(p, name) == Append(p, name)

ASSUME PathProbeAssumption ==
    /\ \A p \in Nodes : p \in Seq(Range(p)) \ {Root} /\ Parent(p) \in Nodes \cup {Root}
    /\ MaxAncestors \in Nat \ {0}
    /\ MaxChanges \in Nat
    /\ MayFail \in BOOLEAN
    /\ MaxLists \in Nat \ {0}

VARIABLES
    tree,           \* what is at each path
    style,          \* what this server's LIST does with a file
    changes,        \* changes made since the operation began
    op, path, dest, \* the operation, its path, the destination of a rename
    stack, ret,     \* frames, innermost last; the last result
    lists,          \* LISTs this operation has sent
    past,           \* history: the trees there have been since it began
    disturbed       \* history: one of its LISTs failed for a reason of its own

world == <<tree, style, changes>>
probe == <<op, path, dest, stack, ret, lists>>
vars == <<world, probe, past, disturbed>>

FileKinds == {"file", "dir", "link"}
Styles == {"entry", "empty", "refused"}
Classified == {"file_refusal", "create_refusal", "create_dir_refusal",
               "remove_dir_refusal", "rename_refusal"}
Ops == {"list_dir", "stat", "exists"} \cup Classified

(* A child needs a directory above it; the root is one.                    *)
KindIn(t, p) ==
    IF p = Root THEN t[Root] ELSE IF p \in Nodes THEN t[p] ELSE "none"

IsDir(kind) == kind \in {"dir", "locked"}

Trees ==
    {t \in [Nodes \cup {Root} -> {"none", "file", "dir", "locked", "link"}] :
        /\ IsDir(t[Root])
        /\ \A p \in Nodes : t[p] # "none" => IsDir(t[Parent(p)])}

(* Created, removed, replaced, renamed into place: one path and below.     *)
OneChange(t, u) ==
    \E p \in Nodes : \A q \in DOMAIN t : t[q] # u[q] => IsPrefix(p, q)

FileTypeOf(kind) == IF kind = "locked" THEN "dir" ELSE kind

-----------------------------------------------------------------------------
(* LIST.                                                                   *)

Entry(p, kind) == [path |-> p, kind |-> FileTypeOf(kind)]

Children(p) ==
    {Entry(q, tree[q]) : q \in {n \in Nodes : Parent(n) = p /\ tree[n] # "none"}}

Listed(entries) == [tag |-> "ok", entries |-> entries]
Failed(tag) == [tag |-> tag, entries |-> {}]

(* parse_list_lines puts every name below the path that was listed, also    *)
(* the name of the file that was listed.  A link leads to an empty          *)
(* directory.                                                              *)
Listing(p) ==
    LET kind == KindIn(tree, p)
    IN  IF kind = "dir" THEN Listed(Children(p))
        ELSE IF kind = "link" \/ (kind = "file" /\ style = "empty") THEN Listed({})
        ELSE IF kind = "file" /\ style = "entry"
        THEN Listed({Entry(Child(p, Last(p)), "file")})
        ELSE Failed("refused")

(* list_dir_raw: denied is any refusal reported as PermissionDenied other   *)
(* than 550; broken is a busy or lost connection, or a listing that does    *)
(* not parse.                                                              *)
ListDirRaw(p) ==
    {Listing(p)} \cup IF MayFail THEN {Failed("denied"), Failed("broken")} ELSE {}

ErrorOf(answer) == IF answer.tag = "denied" THEN "PermissionDenied" ELSE "Broken"

(* One entry, a file, named like the directory that was asked for.         *)
LooksLikeFile(p, entries) ==
    p # Root /\ entries = {Entry(Child(p, Last(p)), "file")}

Lookup(p, entries) ==
    IF \E e \in entries : e.path = p
    THEN (CHOOSE e \in entries : e.path = p).kind
    ELSE "NoSuchFileOrDirectory"

-----------------------------------------------------------------------------
(* Frames.  keep is a local of the frame that outlives a call; tries counts *)
(* the turns of the ancestor loop.                                         *)

Frame(at, p, keep) == [at |-> at, path |-> p, keep |-> keep, tries |-> 0]
Ancestor(p, n) == [at |-> "ancestor", path |-> p, keep |-> "none", tries |-> n]
Top == Last(stack)
At(label) == stack # <<>> /\ Top.at = label

Return(value) ==
    /\ stack' = Front(stack)
    /\ ret' = value

Become(frame) ==
    /\ stack' = Append(Front(stack), frame)
    /\ UNCHANGED ret

Call(caller, callee) ==
    /\ stack' = Front(stack) \o <<caller, callee>>
    /\ UNCHANGED ret

CallStat(caller, p) == Call(caller, Frame("stat", p, "none"))
CallAncestor(caller, p) == Call(caller, Ancestor(p, 0))

LocalStep == UNCHANGED <<world, op, path, dest, lists, past, disturbed>>

ListStep(answer) ==
    /\ lists' = (lists + 1) % MaxLists
    /\ disturbed' = (disturbed \/ answer.tag \in {"denied", "broken"})
    /\ UNCHANGED <<world, op, path, dest, past>>

-----------------------------------------------------------------------------
(* ancestor_proves_absent                                                  *)

(* Variant: a listing that does not come proves as much as one that does.  *)
AncestorTrustsFailure ==
    /\ At("ancestor")
    /\ Top.path # Root /\ Top.tries < MaxAncestors
    /\ \E answer \in ListDirRaw(Parent(Top.path)) :
          /\ ListStep(answer)
          /\ IF answer.tag = "refused"
             THEN Become(Ancestor(Parent(Top.path), Top.tries + 1))
             ELSE Return(IF \E e \in answer.entries : e.path = Top.path
                         THEN "unproved" ELSE "absent")

(* Variant: the loop is bounded by the path only.                           *)
AncestorUnbounded ==
    /\ At("ancestor")
    /\ Top.path # Root
    /\ \E answer \in ListDirRaw(Parent(Top.path)) :
          /\ ListStep(answer)
          /\ IF answer.tag = "refused"
             THEN Become(Ancestor(Parent(Top.path), Top.tries + 1))
             ELSE Return(IF answer.tag = "ok" /\ \A e \in answer.entries : e.path # Top.path
                         THEN "absent" ELSE "unproved")

(* Variant: each refusal sends the probe back to where it started.         *)
AncestorStartsOver ==
    /\ At("ancestor")
    /\ Top.path # Root /\ Top.tries < MaxAncestors
    /\ \E answer \in ListDirRaw(Parent(Top.path)) :
          /\ ListStep(answer)
          /\ IF answer.tag = "refused"
             THEN Become(Ancestor(Top.path, Top.tries))
             ELSE Return(IF answer.tag = "ok" /\ \A e \in answer.entries : e.path # Top.path
                         THEN "absent" ELSE "unproved")

AncestorGivesUp ==
    /\ At("ancestor")
    /\ Top.path = Root \/ Top.tries = MaxAncestors
    /\ Return("unproved")
    /\ LocalStep

AncestorProvesAbsent ==
    /\ At("ancestor")
    /\ Top.path # Root /\ Top.tries < MaxAncestors
    /\ \E answer \in ListDirRaw(Parent(Top.path)) :
          /\ ListStep(answer)
          /\ IF answer.tag = "refused"
             THEN Become(Ancestor(Parent(Top.path), Top.tries + 1))
             ELSE Return(IF answer.tag = "ok" /\ \A e \in answer.entries : e.path # Top.path
                         THEN "absent" ELSE "unproved")

(* The caller of the probe: proven absence, or the refusal kept ambiguous.  *)
RefusalResolved ==
    /\ At("stat_absent") \/ At("list_absent")
    /\ Return(IF ret = "absent" THEN "NoSuchFileOrDirectory" ELSE "PermissionDenied")
    /\ LocalStep

-----------------------------------------------------------------------------
(* stat                                                                    *)

(* No LIST, but the connection is looked at.                               *)
StatRoot ==
    /\ At("stat") /\ Top.path = Root
    /\ \/ Return("dir") /\ UNCHANGED disturbed
       \/ MayFail /\ Return("Broken") /\ disturbed' = TRUE
    /\ UNCHANGED <<world, op, path, dest, lists, past>>

(* Variant: a listing of one file is taken at its word.                    *)
StatTrustsListing ==
    /\ At("stat") /\ Top.path # Root
    /\ LET p == Top.path
       IN  \E answer \in ListDirRaw(Parent(p)) :
              /\ ListStep(answer)
              /\ IF answer.tag = "ok" THEN Return(Lookup(p, answer.entries))
                 ELSE IF answer.tag = "refused"
                 THEN CallAncestor(Frame("stat_absent", p, "none"), Parent(p))
                 ELSE Return(ErrorOf(answer))

Stat ==
    /\ At("stat") /\ Top.path # Root
    /\ LET p == Top.path
       IN  \E answer \in ListDirRaw(Parent(p)) :
              /\ ListStep(answer)
              /\ \/ /\ answer.tag = "ok"
                    /\ IF LooksLikeFile(Parent(p), answer.entries)
                       THEN CallStat(Frame("stat_parent", p, Lookup(p, answer.entries)), Parent(p))
                       ELSE Return(Lookup(p, answer.entries))
                 \/ /\ answer.tag = "refused"
                    /\ CallAncestor(Frame("stat_absent", p, "none"), Parent(p))
                 \/ /\ answer.tag \in {"denied", "broken"}
                    /\ Return(ErrorOf(answer))

(* Is the parent a file?  A parent that cannot be looked up for want of     *)
(* permission is given the benefit of the doubt.                           *)
StatParent ==
    /\ At("stat_parent")
    /\ Return(IF ret = "file" THEN "BadFile"
              ELSE IF ret \in {"dir", "link", "PermissionDenied"} THEN Top.keep
              ELSE ret)
    /\ LocalStep

-----------------------------------------------------------------------------
(* list_dir                                                                *)

(* Variant: an empty listing is not doubted.                               *)
ListDirTrustsEmpty ==
    /\ At("list_dir")
    /\ LET p == Top.path
       IN  \E answer \in ListDirRaw(p) :
              /\ ListStep(answer)
              /\ \/ /\ answer.tag = "ok"
                    /\ LET result == IF answer.entries = {} THEN "empty" ELSE "entries"
                       IN  IF LooksLikeFile(p, answer.entries)
                           THEN CallStat(Frame("list_confirm", p, result), p)
                           ELSE Return(result)
                 \/ /\ answer.tag = "refused"
                    /\ CallAncestor(Frame("list_absent", p, "none"), p)
                 \/ /\ answer.tag \in {"denied", "broken"}
                    /\ Return(ErrorOf(answer))

ListDir ==
    /\ At("list_dir")
    /\ LET p == Top.path
       IN  \E answer \in ListDirRaw(p) :
              /\ ListStep(answer)
              /\ \/ /\ answer.tag = "ok"
                    /\ LET result == IF answer.entries = {} THEN "empty" ELSE "entries"
                       IN  IF p # Root /\ (LooksLikeFile(p, answer.entries) \/ answer.entries = {})
                           THEN CallStat(Frame("list_confirm", p, result), p)
                           ELSE Return(result)
                 \/ /\ answer.tag = "refused"
                    /\ CallAncestor(Frame("list_absent", p, "none"), p)
                 \/ /\ answer.tag \in {"denied", "broken"}
                    /\ Return(ErrorOf(answer))

(* A second look that fails leaves the listing as it is.                   *)
ListConfirm ==
    /\ At("list_confirm")
    /\ Return(IF ret = "file" THEN "BadFile" ELSE Top.keep)
    /\ LocalStep

-----------------------------------------------------------------------------
(* exists, and the classification of refusals after stat has answered.     *)

Exists ==
    /\ At("exists")
    /\ Return(IF ret \in FileKinds THEN "true"
              ELSE IF ret = "NoSuchFileOrDirectory" THEN "false" ELSE ret)
    /\ LocalStep

(* remove_file and open; anything inconclusive is reported as 550 is.      *)
ClassifyFileRefusal ==
    /\ At("file_refusal")
    /\ Return(IF ret = "dir" THEN "BadFile" ELSE StatusKinds["r550"])
    /\ LocalStep

(* create and append                                                       *)
ClassifyCreateRefusal ==
    /\ At("create_refusal")
    /\ \/ /\ ret = "NoSuchFileOrDirectory" /\ Top.path # Root
          /\ CallStat(Frame("destination_parent", Top.path, "none"), Parent(Top.path))
       \/ /\ ret # "NoSuchFileOrDirectory" \/ Top.path = Root
          /\ Return(IF ret = "dir" THEN "AlreadyExists" ELSE "PermissionDenied")
    /\ LocalStep

ClassifyCreateDirRefusal ==
    /\ At("create_dir_refusal")
    /\ \/ /\ ret = "NoSuchFileOrDirectory" /\ Top.path # Root
          /\ CallStat(Frame("destination_parent", Top.path, "none"), Parent(Top.path))
       \/ /\ ret # "NoSuchFileOrDirectory" \/ Top.path = Root
          /\ Return(IF ret \in FileKinds THEN "AlreadyExists" ELSE "PermissionDenied")
    /\ LocalStep

ClassifyRenameRefusal ==
    /\ At("rename_refusal")
    /\ \/ /\ ret \in FileKinds /\ dest # Root
          /\ CallStat(Frame("destination_parent", dest, "none"), Parent(dest))
       \/ /\ ret \notin FileKinds \/ dest = Root
          /\ Return(IF ret = "NoSuchFileOrDirectory" THEN ret ELSE "PermissionDenied")
    /\ LocalStep

(* destination_parent_is_missing                                           *)
DestinationParentIsMissing ==
    /\ At("destination_parent")
    /\ Return(IF ret = "NoSuchFileOrDirectory" THEN ret ELSE "PermissionDenied")
    /\ LocalStep

ClassifyRemoveDirRefusal ==
    /\ At("remove_dir_refusal")
    /\ \/ /\ ret = "dir"
          /\ Call(Frame("remove_dir_contents", Top.path, "none"),
                  Frame("list_dir", Top.path, "none"))
       \/ /\ ret # "dir"
          /\ Return(IF ret \in FileKinds THEN "BadFile"
                    ELSE IF ret = "NoSuchFileOrDirectory" THEN ret ELSE "PermissionDenied")
    /\ LocalStep

RemoveDirContents ==
    /\ At("remove_dir_contents")
    /\ Return(IF ret = "entries" THEN "DirectoryNotEmpty" ELSE "PermissionDenied")
    /\ LocalStep

-----------------------------------------------------------------------------
Idle == op = "none"
Done == ~Idle /\ stack = <<>>

Init ==
    /\ tree \in Trees
    /\ style \in Styles
    /\ changes = 0
    /\ op = "none" /\ path = Root /\ dest = Root
    /\ stack = <<>> /\ ret = "none"
    /\ lists = 0
    /\ past = {} /\ disturbed = FALSE

(* A call, or the refusal of a command this client sent: the server may     *)
(* refuse whatever is at the path, for reasons of its own.                 *)
Begin ==
    /\ Idle
    /\ op' \in Ops
    /\ path' \in Nodes \cup {Root}
    /\ IF op' = "rename_refusal" THEN dest' \in Nodes ELSE dest' = Root
    /\ stack' = IF op' \in {"list_dir", "stat"} THEN <<Frame(op', path', "none")>>
                ELSE <<Frame(op', path', "none"), Frame("stat", path', "none")>>
    /\ past' = {tree}
    /\ UNCHANGED <<world, ret, lists, disturbed>>

End ==
    /\ Done
    /\ op' = "none" /\ path' = Root /\ dest' = Root
    /\ ret' = "none"
    /\ lists' = 0
    /\ changes' = 0
    /\ past' = {} /\ disturbed' = FALSE
    /\ UNCHANGED <<tree, style, stack>>

(* Another client of the server.                                           *)
Change ==
    /\ ~Idle /\ ~Done
    /\ changes < MaxChanges
    /\ changes' = changes + 1
    /\ tree' \in Trees \ {tree}
    /\ OneChange(tree, tree')
    /\ past' = past \cup {tree'}
    /\ UNCHANGED <<style, probe, disturbed>>

ProbeStep ==
    \/ AncestorProvesAbsent \/ AncestorGivesUp \/ RefusalResolved
    \/ StatRoot \/ Stat \/ StatParent
    \/ ListDir \/ ListConfirm
    \/ Exists
    \/ ClassifyFileRefusal \/ ClassifyCreateRefusal \/ ClassifyCreateDirRefusal
    \/ ClassifyRenameRefusal \/ DestinationParentIsMissing
    \/ ClassifyRemoveDirRefusal \/ RemoveDirContents

Next == Begin \/ ProbeStep \/ Change \/ End

Spec == Init /\ [][Next]_vars

-----------------------------------------------------------------------------
(* Properties.                                                             *)

Answers == FileKinds \cup {"none", "empty", "entries", "true", "false", "absent", "unproved",
                           "NoSuchFileOrDirectory", "PermissionDenied", "BadFile",
                           "AlreadyExists", "DirectoryNotEmpty", "Broken"}

(* Every variable keeps its type.                                          *)
TypeOK ==
    /\ tree \in Trees
    /\ style \in Styles
    /\ changes \in 0..MaxChanges
    /\ op \in Ops \cup {"none"}
    /\ {path, dest} \subseteq Nodes \cup {Root}
    /\ \A i \in DOMAIN stack :
          stack[i].keep \in Answers /\ stack[i].tries \in 0..MaxAncestors
    /\ ret \in Answers
    /\ lists \in 0..(MaxLists - 1)
    /\ disturbed \in BOOLEAN
    /\ past \subseteq Trees

(* What an answer of NoSuchFileOrDirectory is about.                        *)
Subjects ==
    CASE op \in {"create_refusal", "create_dir_refusal"} -> {Parent(path)}
      [] op = "rename_refusal" -> {path, Parent(dest)}
      [] OTHER -> {path}

(* An absence is reported only if the file, or the parent a creation needs, *)
(* really was absent at some moment of the operation: refusals, lost        *)
(* listings and changes in between never add up to one (sync.rs:470 "until *)
(* a successful listing can positively prove absence").  remove_file and    *)
(* open are left out: what cannot be classified is reported there as a 550 *)
(* is, absent or not (sync.rs:427); Expected says when.                    *)
AbsenceIsReal ==
    Done /\ ret \in {"NoSuchFileOrDirectory", "false"} /\ op # "file_refusal" =>
        \E t \in past : \E p \in Subjects : KindIn(t, p) = "none"

(* The listing of a file q is that of a directory q with a file of the same *)
(* name in it, and nobody can say which if the directory above cannot be    *)
(* looked at, or if q is replaced before it is looked at.                   *)
Undecidable(t, q) ==
    /\ KindIn(t, q) = "file"
    /\ \/ disturbed
       \/ \E u \in past : ~(KindIn(u, Parent(q)) \in {"dir", "file"})
       \/ \E u \in past : KindIn(u, q) # "file"

Deceptive(t) ==
    \/ /\ Len(path) > 1 /\ Last(path) = Last(Parent(path))
       /\ style = "entry"
       /\ Undecidable(t, Parent(path))
    \/ /\ ret \in {"DirectoryNotEmpty", "entries", "empty"}
       /\ path # Root /\ style # "refused"
       /\ Undecidable(t, path)

Supports(t) ==
    LET kind == KindIn(t, path)
    IN  CASE ret = "BadFile" /\ op \in {"stat", "exists"} ->
                \E i \in 1..(Len(path) - 1) : KindIn(t, SubSeq(path, 1, i)) = "file"
          [] ret = "BadFile" /\ op = "list_dir" -> kind = "file"
          [] ret = "BadFile" /\ op = "file_refusal" -> IsDir(kind)
          [] ret = "BadFile" /\ op = "remove_dir_refusal" -> kind \in {"file", "link"}
          [] ret = "AlreadyExists" -> kind # "none" /\ (op = "create_refusal" => IsDir(kind))
          [] ret = "DirectoryNotEmpty" -> \E p \in Nodes : Parent(p) = path /\ t[p] # "none"
          [] ret = "entries" -> \E p \in Nodes : Parent(p) = path /\ t[p] # "none"
          [] ret = "empty" -> kind \in {"dir", "link"}
          [] ret = "true" -> kind # "none"
          [] ret \in FileKinds -> FileTypeOf(kind) = ret
          [] OTHER -> TRUE

(* Every other definite answer -- it exists and is of this kind, it is a    *)
(* file or a directory where the other was wanted, it is not empty -- was  *)
(* true of the server at some moment of the operation, except for the one  *)
(* ambiguity of LIST that stat accepts knowingly.                          *)
ClaimsAreReal ==
    Done => \E t \in past : Supports(t) \/ Deceptive(t)

-----------------------------------------------------------------------------
(* What a client that could see the tree would answer.  The exception is a *)
(* refused file operation on something that is there and is no directory:  *)
(* what is expected of it is what the code falls back on (sync.rs:427).    *)

SeenAt(p) ==
    IF KindIn(tree, p) = "none" THEN "NoSuchFileOrDirectory" ELSE FileTypeOf(KindIn(tree, p))

MissingParent(p) == KindIn(tree, Parent(p)) = "none"

Expected ==
    LET seen == SeenAt(path)
        kind == KindIn(tree, path)
        absent == seen = "NoSuchFileOrDirectory"
        filled == \E p \in Nodes : Parent(p) = path /\ tree[p] # "none"
    IN  CASE op = "stat" -> seen
          [] op = "exists" -> IF absent THEN "false" ELSE "true"
          [] op = "list_dir" ->
                IF absent THEN seen
                ELSE IF kind = "locked" \/ (kind = "file" /\ style = "refused") THEN "PermissionDenied"
                ELSE IF kind = "file" THEN "BadFile"
                ELSE IF filled THEN "entries" ELSE "empty"
          [] op = "file_refusal" -> IF seen = "dir" THEN "BadFile" ELSE "NoSuchFileOrDirectory"
          [] op \in {"create_refusal", "create_dir_refusal"} ->
                IF seen = "dir" \/ (op = "create_dir_refusal" /\ ~absent) THEN "AlreadyExists"
                ELSE IF absent /\ MissingParent(path) THEN "NoSuchFileOrDirectory"
                ELSE "PermissionDenied"
          [] op = "remove_dir_refusal" ->
                IF absent THEN seen
                ELSE IF seen # "dir" THEN "BadFile"
                ELSE IF kind = "dir" /\ filled THEN "DirectoryNotEmpty" ELSE "PermissionDenied"
          [] op = "rename_refusal" ->
                IF absent \/ MissingParent(dest) THEN "NoSuchFileOrDirectory"
                ELSE "PermissionDenied"

(* Nothing above p is a file or cannot be listed, and the first directory   *)
(* that exists is within reach of the ancestor probe.                      *)
Clear(p) ==
    /\ \A i \in 0..(Len(p) - 1) : KindIn(tree, SubSeq(p, 1, i)) \notin {"file", "locked"}
    /\ Cardinality({i \in 1..Len(p) : KindIn(tree, SubSeq(p, 1, i)) = "none"}) <= MaxAncestors

(* When nobody interferes and the directories above can be listed, the      *)
(* detour through LIST gives the answer of somebody who sees the tree: no   *)
(* ambiguity of a refusal or of a listing is left over, but for the refused *)
(* file operation of Expected.                                             *)
ExactWhenListable ==
    Done /\ ~disturbed /\ past = {tree} /\ Clear(path) /\ Clear(dest) => ret = Expected

(* An operation sends no more LISTs than its paths are deep, once for each  *)
(* question it asks (test ancestor_probe_lists_each_parent_at_most_once):   *)
(* neither the nesting of stat nor a tree that changes meanwhile multiplies *)
(* them.  As every other step returns or goes up, each operation ends.      *)
ProbesAreBounded ==
    LET depth == Len(path)
    IN  lists <= CASE op = "list_dir" -> depth + 1
                   [] op \in {"create_refusal", "create_dir_refusal"} -> 2 * depth
                   [] op = "remove_dir_refusal" -> 2 * depth + 1
                   [] op = "rename_refusal" -> depth + Len(dest) - 1
                   [] OTHER -> depth
=============================================================================
