----------------------------- MODULE MCListing -----------------------------
(* Listing for TLC: every name of up to two symbols and those of three that  *)
(* matter, the long one with the blanks of an aligned <DIR> row.             *)
EXTENDS Listing

Symbols == {"x", "SP", "U", "->", "/", "C", ".", "B"}

MCPaths ==
    {<<"/">>, <<"/", "x">>, <<"/", "x", "/">>, <<"/", "/", "x">>, <<"x">>, <<"/", "C">>,
     <<"/", "B">>, <<"/", "x", "/", ".", ".">>, <<"/", ".", "/", "x">>}

Names ==
    {<<a>> : a \in Symbols \ {"."}}
    \cup ({<<a, b>> : a \in Symbols, b \in Symbols} \ {DotDot})
    \cup {<<a, "SP", b>> : a \in Symbols, b \in Symbols}
    \cup {<<"x", "SP", "->", "SP", "x">>, <<".", ".", "/", "x">>, Spaces(9) \o <<"x">>}

Targets == {<<"x">>, <<"/", "x">>, <<"->", "SP", "x">>, <<"x", "SP", "->", "SP", "x">>}

MCEntries ==
    [type : {"-", "d", "b", "s"}, name : Names, target : {<<>>}]
    \cup [type : {"l"}, name : Names, target : Targets]

MCJunk ==
    {Total, <<"x">>, <<"-", "SP", "m", "SP", "x">>, SubSeq(Row(Plain, "posix"), 1, 16),
     <<"-", "U", "m">> \o After(Row(Plain, "posix"), 3),
     <<"date", "SP", "SP", "AM", "U", "N", "SP", "x">>, <<"date", "SP", "SP", "AM">>}
=============================================================================
