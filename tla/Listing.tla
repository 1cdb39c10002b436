------------------------------ MODULE Listing ------------------------------
(***************************************************************************)
(* One LIST from the path to the entries: remote_path, the rows a server    *)
(* makes of its directory, and decode_list_bytes and parse_list_lines,      *)
(* which have to find out from a row where the name begins and ends.        *)
(*                                                                         *)
(* A row is a text, with one symbol for each metadata field: the type and   *)
(* permissions by the type's letter, "m" any other field, "major" and "N"    *)
(* the numbers of a device, "date", "AM", "24h" and "<DIR>" those of a DOS   *)
(* row.  No entry has a line end in its name.                              *)
(***************************************************************************)
EXTENDS RemotePath

CONSTANTS
    Paths,          \* what a caller asks for
    Entries,        \* what a directory may hold besides a plain file
    Junk            \* lines that are no entries

VARIABLES
    pc,
    path, wire,     \* the path asked for, and as it was sent
    entries, junk,  \* what the server has, and whether it sends anything else
    lines,          \* what is left to parse
    index,          \* which line it is
    files,          \* entries found
    verdict

vars == <<pc, path, wire, entries, junk, lines, index, files, verdict>>

Blank == {"SP", "U"}
Special == {"b", "s"}           \* devices, and pipes, sockets and doors
PosixTypes == {"-", "l", "d"} \cup Special
Arrow == <<"SP", "->", "SP">>
DosTypes == {"-", "d"}

Spaces(n) == [i \in 1..n |-> "SP"]
After(text, i) == SubSeq(text, i + 1, Len(text))

-----------------------------------------------------------------------------
(* The server.                                                             *)

(* By style the name follows after one blank or is aligned; a DOS directory *)
(* whose <DIR> stands in column 24 has its name in column 39.               *)
Styles(entry) ==
    {"posix", "posix_aligned"}
    \cup IF entry.type \in DosTypes THEN {"dos", "dos_aligned", "dos_24h"} ELSE {}

Fields(type) ==
    IF type = "b" THEN <<"b", "m", "m", "m", "major", "N", "m", "m", "m">>
    ELSE <<type, "m", "m", "m", "N", "m", "m", "m">>

(* What paths, names and targets are made of, and what there is in a        *)
(* directory: nothing is called "." or "..", and a link leads somewhere.     *)
Characters == {"x", "C", "B", "SP", "U", Slash, ".", "->"}

EntryType ==
    {e \in [type : PosixTypes, name : Seq(Characters), target : Seq(Characters)] :
        e.name \notin {<<>>, <<".">>, DotDot} /\ (e.type = "l" => e.target # <<>>)}

(* Each field is followed by a blank.                                      *)
Spaced(fields) ==
    [i \in 1..(2 * Len(fields)) |-> IF i % 2 = 1 THEN fields[(i + 1) \div 2] ELSE "SP"]

Row(entry, style) ==
    LET fields == Fields(entry.type)
        name == entry.name \o IF entry.type = "l" THEN Arrow \o entry.target ELSE <<>>
        stamp == <<"date", "SP", "SP", IF style = "dos_24h" THEN "24h" ELSE "AM">>
        aligned == style = "dos_aligned"
        meta == IF entry.type = "d" THEN <<"<DIR>">> ELSE <<"N">>
    IN  IF style \in {"posix", "posix_aligned"}
        THEN Spaced(fields) \o Spaces(IF style = "posix" THEN 0 ELSE 1) \o name
        ELSE stamp \o Spaces(IF aligned THEN 7 ELSE 1) \o meta
             \o Spaces(IF aligned /\ entry.type = "d" THEN 10 ELSE 1) \o name

Total == <<"total", "SP", "N">>
Dot(name) == [type |-> "d", name |-> name, target |-> <<>>]
Plain == [type |-> "-", name |-> <<"x", "x">>, target |-> <<>>]
SelfAndParent == <<Dot(<<".">>), Dot(DotDot)>>

-----------------------------------------------------------------------------
(* Where a name begins.                                                    *)

(* field_spans: first and last position of each field between ASCII blanks, *)
(* byte by byte; start is where the present field began, if there is one.   *)
EndField(at, last) == IF at.start = 0 THEN at.spans ELSE Append(at.spans, <<at.start, last>>)

ReadByte(text, at, i) ==
    IF text[i] = "SP" THEN [spans |-> EndField(at, i - 1), start |-> 0]
    ELSE [spans |-> at.spans, start |-> IF at.start = 0 THEN i ELSE at.start]

FieldSpans(text) ==
    EndField(FoldLeftDomain(LAMBDA at, i : ReadByte(text, at, i),
                            [spans |-> <<>>, start |-> 0], text), Len(text))

(* normalize_special_posix_line: major and minor number make one field.     *)
Normalize(text) ==
    LET spans == FieldSpans(text)
    IN  IF /\ text # <<>> /\ text[1] = "b" /\ Len(spans) > 5
           /\ spans[5][1] = spans[5][2] /\ text[spans[5][1]] = "major"
           /\ spans[6][1] = spans[6][2] /\ text[spans[6][1]] = "N"
        THEN SubSeq(text, 1, spans[5][1] - 1) \o <<"N">> \o After(text, spans[6][2])
        ELSE text

PosixText(row) == IF row[1] \in Special THEN Normalize(row) ELSE row

(* has_unicode_whitespace_after_ascii_padding                              *)
UnicodeAfterPadding(text) ==
    \E i \in DOMAIN text : text[i] = "U" /\ \A j \in 1..(i - 1) : text[j] = "SP"

AllBlank(text) == text # <<>> /\ ToSet(text) \subseteq Blank

(* reject_ambiguous_posix_name_boundary                                    *)
AmbiguousPosix(row) ==
    LET text == PosixText(row)
        spans == FieldSpans(text)
        suffix == After(text, spans[8][2])
    IN  /\ row[1] \in PosixTypes
        /\ Len(spans) >= 8
        /\ \/ Len(spans) >= 9 /\ spans[8][2] + 2 < spans[9][1]
           \/ "U" \in ToSet(SubSeq(text, 1, spans[8][2]))
           \/ AllBlank(suffix)
           \/ UnicodeAfterPadding(suffix)

(* str::matches counts separators that do not overlap.                      *)
ReadArrow(text, found, i) ==
    IF i > found.last /\ SubSeq(text, i, i + 2) = Arrow
    THEN [last |-> i + 2, count |-> found.count + 1] ELSE found

Separators(text) ==
    FoldLeft(LAMBDA found, i : ReadArrow(text, found, i), [last |-> 0, count |-> 0],
             [i \in 1..(Len(text) - 2) |-> i]).count

(* Variant: off by one.                                                     *)
AmbiguousLinkAlways(row) == row[1] = "l" /\ Separators(row) > 0

AmbiguousLink(row) == row[1] = "l" /\ Separators(row) > 1

(* Variant: ten blanks after <DIR> are padding wherever it stands.          *)
AmbiguousDosAnyColumn(row) ==
    /\ row[1] = "date"
    /\ LET rest == After(row, 4)
           spans == FieldSpans(rest)
           from == spans[1][1]
           after == After(rest, from)
           separator == (IF Len(spans) > 1 THEN spans[2][1] ELSE Len(rest) + 1) - from - 1
       IN  \/ row[4] # "AM"
           \/ rest # <<>> /\ rest[1] = "U"
           \/ /\ spans # <<>>
              /\ \/ AllBlank(after)
                 \/ UnicodeAfterPadding(after)
                 \/ separator > 1 /\ ~(rest[from] = "<DIR>" /\ separator = 10)

(* reject_ambiguous_dos_name_boundary.  The timestamp ends in column 17.     *)
AmbiguousDos(row) ==
    /\ row[1] = "date"
    /\ LET rest == After(row, 4)
           spans == FieldSpans(rest)
           from == spans[1][1]
           after == After(rest, from)
           separator == (IF Len(spans) > 1 THEN spans[2][1] ELSE Len(rest) + 1) - from - 1
           column == 17 + from - 1
           width == IF rest[from] = "<DIR>" THEN 5 ELSE 1
       IN  \/ row[4] # "AM"
           \/ rest # <<>> /\ rest[1] = "U"
           \/ /\ spans # <<>>
              /\ \/ AllBlank(after)
                 \/ UnicodeAfterPadding(after)
                 \/ /\ separator > 1
                    /\ ~(rest[from] = "<DIR>" /\ column = 24 /\ column + width + separator = 39)

(* reject_ambiguous_list_name                                              *)
Ambiguous(row) == AmbiguousPosix(row) \/ AmbiguousLink(row) \/ AmbiguousDos(row)

-----------------------------------------------------------------------------
(* suppaftp's ListParser: the name is what follows the metadata and all     *)
(* blanks after it, up to the first arrow if the row is a link's.           *)

Trimmed(text) ==
    LET body == {i \in DOMAIN text : text[i] \notin Blank}
    IN  IF body = {} THEN <<>> ELSE SubSeq(text, Min(body), Len(text))

NotAnEntry == [ok |-> FALSE, name |-> <<>>, target |-> <<>>]

ParsedName(text, isLink) ==
    LET arrows == {i \in 1..(Len(text) - 2) : SubSeq(text, i, i + 2) = Arrow}
    IN  IF text = <<>> THEN NotAnEntry
        ELSE IF isLink /\ arrows # {}
        THEN [ok |-> TRUE, name |-> SubSeq(text, 1, Min(arrows) - 1),
              target |-> After(text, Min(arrows) + 2)]
        ELSE [ok |-> TRUE, name |-> text, target |-> <<>>]

(* parse_list_entry: POSIX first, a special file as a regular one, then DOS. *)
ParseEntry(row) ==
    LET text == PosixText(row)
        spans == FieldSpans(text)
        dos == FieldSpans(After(row, 4))
    IN  IF row[1] \in PosixTypes /\ Len(spans) >= 8
        THEN ParsedName(Trimmed(After(text, spans[8][2])), row[1] = "l")
        ELSE IF row[1] = "date" /\ dos # <<>>
        THEN ParsedName(Trimmed(After(row, 4 + dos[1][2])), FALSE)
        ELSE NotAnEntry

(* Variant: whatever the server calls it.                                   *)
UnsafeNever(name) == FALSE

(* validate_list_child_name                                                *)
Unsafe(name) ==
    \/ name \in {<<>>, <<".">>, DotDot}
    \/ \E i \in DOMAIN name : name[i] \in {"C", Slash}

(* Variant: a count of blocks is passed over wherever it stands.            *)
IsTotalAnywhere(i, line) == line = Total

IsTotal(i, line) == i = 0 /\ line = Total

(* Texts are made of those characters, directories hold such entries, and   *)
(* junk is what the parser, given that line alone, refuses or cannot read.   *)
ASSUME ListingAssumption ==
    /\ Paths \subseteq Seq(Characters)
    /\ Entries \subseteq EntryType
    /\ \A line \in Junk : Ambiguous(line) \/ ~ParseEntry(line).ok

-----------------------------------------------------------------------------
Init ==
    /\ pc = "ask"
    /\ path \in Paths /\ wire = <<>>
    /\ entries = <<>> /\ junk = FALSE
    /\ lines = <<>> /\ index = 0
    /\ files = <<>> /\ verdict = "none"

Finish(answer) == pc' = "done" /\ verdict' = answer

Ask ==
    /\ pc = "ask"
    /\ IF InvalidPath(path) THEN Finish("InvalidPath") /\ UNCHANGED wire
       ELSE pc' = "answer" /\ wire' = path /\ UNCHANGED verdict
    /\ UNCHANGED <<path, entries, junk, lines, index, files>>

(* The directory's rows, after those of itself and its parent and a count    *)
(* of blocks, where the server sends them; or with something else as well.   *)
Reply ==
    /\ pc = "answer"
    /\ \E entry \in Entries, more \in {<<>>, <<Plain>>} :
          /\ entries' = more \o <<entry>>
          /\ \E style \in Styles(entry), head \in {<<>>, SelfAndParent}, total \in BOOLEAN :
             LET rows == [i \in DOMAIN head |-> Row(head[i], "posix")]
                         \o [i \in DOMAIN more |-> Row(more[i], "posix")]
                         \o <<Row(entry, style)>>
             IN  lines' = (IF total THEN <<Total>> ELSE <<>>) \o rows
    /\ pc' = "parse"
    /\ UNCHANGED <<path, wire, junk, index, files, verdict>>

ReplyWithJunk ==
    /\ pc = "answer"
    /\ entries' = <<Plain>>
    /\ \E line \in Junk : lines' = <<Row(Plain, "posix"), line>>
    /\ junk' = TRUE
    /\ pc' = "parse"
    /\ UNCHANGED <<path, wire, index, files, verdict>>

(* One turn of the loop of parse_list_lines; the first failure is the        *)
(* listing's, and a byte that is not UTF-8 anywhere fails it at once.        *)
ParseLine ==
    /\ pc = "parse" /\ lines # <<>>
    /\ LET line == Head(lines)
           f == ParseEntry(line)
           skipped == IsTotal(index, line)
       IN  IF \/ \E k \in DOMAIN lines : "B" \in ToSet(lines[k])
              \/ ~skipped /\ (Ambiguous(line) \/ ~f.ok)
              \/ ~skipped /\ f.name \notin {<<".">>, DotDot} /\ Unsafe(f.name)
           THEN Finish("ProtocolError") /\ UNCHANGED <<lines, index, files>>
           ELSE /\ lines' = Tail(lines)
                /\ index' = index + 1
                /\ files' = IF skipped \/ f.name \in {<<".">>, DotDot} THEN files
                            ELSE Append(files, [path |-> Join(path, f.name), name |-> f.name,
                                                target |-> IF f.target = <<>> THEN <<>>
                                                           ELSE Absolutize(path, f.target)])
                /\ UNCHANGED <<pc, verdict>>
    /\ UNCHANGED <<path, wire, entries, junk>>

ParsedAll ==
    /\ pc = "parse" /\ lines = <<>>
    /\ Finish("ok")
    /\ UNCHANGED <<path, wire, entries, junk, lines, index, files>>

Next == Ask \/ Reply \/ ReplyWithJunk \/ ParseLine \/ ParsedAll

Spec == Init /\ [][Next]_vars

-----------------------------------------------------------------------------
(* Properties.                                                             *)

Accepted == verdict = "ok"

(* "a -> -> b" has one separator for str::matches, and two readings.        *)
SharesABlank(entry) ==
    /\ entry.type = "l"
    /\ \E i \in 1..(Len(entry.name \o Arrow \o entry.target) - 4) :
          SubSeq(entry.name \o Arrow \o entry.target, i, i + 4)
             = <<"SP", "->", "SP", "->", "SP">>

ReadRight(file, entry) ==
    /\ file.name = entry.name
    /\ entry.type = "l" => file.target = Absolutize(path, entry.target)

(* An accepted listing names every entry of the directory once, in order,   *)
(* and exactly as it is called, whatever blanks are in the name, before it   *)
(* or between the fields; the one exception is ArrowsAreExact's.  The        *)
(* directory is that of Reply: one entry of any kind and perhaps a plain file.*)
NamesAreExact ==
    Accepted /\ ~junk /\ ~(\E i \in DOMAIN entries : SharesABlank(entries[i])) =>
        /\ Len(files) = Len(entries)
        /\ \A i \in DOMAIN files : ReadRight(files[i], entries[i])

(* The same without exception (list.rs:74 "Rejects listing rows whose       *)
(* format cannot preserve the exact server name").                         *)
ArrowsAreExact ==
    Accepted /\ ~junk => \A i \in DOMAIN files : ReadRight(files[i], entries[i])

(* A name of ordinary characters, single blanks inside, is always listed:    *)
(* in any format with one blank before it, and in the aligned DOS layout.    *)
Ordinary(text) ==
    /\ ToSet(text) \subseteq {"x", "SP"}
    /\ text # <<>> /\ text[1] = "x"

OrdinaryNamesAreListed ==
    verdict = "ProtocolError" /\ ~InvalidPath(path) /\ ~junk /\ lines # <<>> =>
        \/ ~(\A i \in DOMAIN entries :
                Ordinary(entries[i].name) /\ (entries[i].type = "l" => Ordinary(entries[i].target)))
        \/ \E i \in DOMAIN lines :
              lines[i] \in {Row(Last(entries), s) : s \in Styles(Last(entries)) \cap {"posix_aligned", "dos_24h"}}

(* A line that is no entry fails the listing: it is never passed over.       *)
JunkFailsTheListing == Accepted => ~junk

(* What a listing returns can be asked for in turn, and is found directly    *)
(* below what was listed.                                                  *)
ListedPathsAreUsable ==
    Accepted => \A i \in DOMAIN files :
        /\ ~InvalidPath(files[i].path)
        /\ Front(Resolved(files[i].path)) = Components(path)

(* A path that is sent is one line, and the server finds under it the file   *)
(* that the path names.                                                    *)
WireNamesThePath ==
    wire # <<>> =>
        /\ "C" \notin ToSet(wire)
        /\ Resolved(wire) = Components(path)
=============================================================================
