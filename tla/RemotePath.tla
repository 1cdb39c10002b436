----------------------------- MODULE RemotePath -----------------------------
(***************************************************************************)
(* Paths: client/path.rs, utils/path.rs and what they use of std::path.     *)
(*                                                                         *)
(* A text is a sequence of symbols.  A symbol stands for every character    *)
(* that is treated alike: "x" any ordinary one, "C" a control character,    *)
(* "B" a byte that is not UTF-8, "SP" an ASCII blank, "U" a blank that is   *)
(* not ASCII; "/", ".", and "->" are themselves.  A path is a text.         *)
(***************************************************************************)
EXTENDS SequencesExt, FiniteSetsExt, Integers

Slash == "/"
DotDot == <<".", ".">>

IsAbsolute(p) == IsPrefix(<<Slash>>, p)

(* Path::components, without the root: empty ones and single dots are       *)
(* skipped.                                                                *)
EndPiece(at) ==
    IF at.piece \in {<<>>, <<".">>} THEN at.done ELSE Append(at.done, at.piece)

ReadSymbol(at, c) ==
    IF c = Slash THEN [done |-> EndPiece(at), piece |-> <<>>]
    ELSE [done |-> at.done, piece |-> Append(at.piece, c)]

Components(p) == EndPiece(FoldLeft(ReadSymbol, [done |-> <<>>, piece |-> <<>>], p))

(* Path::join and PathBuf::push                                            *)
Join(p, q) ==
    IF IsAbsolute(q) THEN q
    ELSE IF p # <<>> /\ Last(p) = Slash THEN p \o q
    ELSE p \o <<Slash>> \o q

(* Variant: the server is trusted to make sense of "..".                    *)
InvalidPathButParents(p) ==
    \/ ~IsAbsolute(p)
    \/ IsPrefix(<<Slash, Slash>>, p)
    \/ \E i \in DOMAIN p : p[i] \in {"B", "C"}

(* remote_path: everything else goes to the server as it is.                *)
InvalidPath(p) ==
    \/ ~IsAbsolute(p)
    \/ IsPrefix(<<Slash, Slash>>, p)
    \/ \E i \in DOMAIN p : p[i] \in {"B", "C"}
    \/ DotDot \in ToSet(Components(p))

(* absolutize                                                              *)
Absolutize(wrkdir, target) == IF IsAbsolute(target) THEN target ELSE Join(wrkdir, target)

(* The file a server finds under a path, ".." leading one level up.         *)
Follow(at, name) ==
    IF name # DotDot THEN Append(at, name)
    ELSE IF at = <<>> THEN at ELSE Front(at)

Resolved(p) == FoldLeft(Follow, <<>>, Components(p))
=============================================================================
