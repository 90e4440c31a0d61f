----------------------------- MODULE MCLspClient -----------------------------
(***************************************************************************)
(* An instance of LspClient for TLC.  The texts have a line end of two     *)
(* units and characters whose lengths differ in all three encodings; the   *)
(* changes insert, delete and join lines, alone and in a row, at columns   *)
(* that are whole characters in one encoding and not in another.           *)
(***************************************************************************)
EXTENDS LspClient

MCTexts == {<<"hi", "lo", "CR", "LF", "a">>, <<"e", "a">>}

Change(l1, c1, l2, c2, text) ==
  [start |-> [line |-> l1, character |-> c1],
   end   |-> [line |-> l2, character |-> c2], text |-> text]

MCChanges ==
  {<<Change(0, c, 0, c, <<"LF">>)>> : c \in {1, 2}}
    \cup {<<Change(0, 1, 0, 2, <<>>)>>, <<Change(0, 0, 1, 0, <<"e">>)>>, <<Change(0, 4, 1, 1, <<"a">>)>>}
    \cup {<<Change(0, 0, 0, 0, <<"hi", "lo">>), Change(0, c, 0, c, <<"a">>)>> : c \in {1, 2, 4}}

Item(kind, uri, version) == [kind |-> kind, uris |-> {uri}, version |-> version]
Rename == [kind |-> "rename", uris |-> {"one", "two"}, version |-> NoVersion]
MCShort ==
  {Item("edit", "one", version) : version \in {NoVersion, 0, 1}}
    \cup {Item("edit", "two", NoVersion), Item("create", "one", NoVersion), Item("unknown", "one", NoVersion),
          Item("edit", "outside", NoVersion)}
MCItems == MCShort \cup {Rename}
MCEdits ==
  UNION {[1..n -> MCShort] : n \in 0..2}
    \cup [1..3 -> {Item("edit", "one", NoVersion), Item("edit", "one", 1), Rename}]
MCInRoot == {"one", "two"}
=============================================================================
