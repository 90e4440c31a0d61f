------------------------------- MODULE LspData -------------------------------
(***************************************************************************)
(* The pure functions of runtime/lsp-client.mjs: line and column           *)
(* arithmetic on documents, and the normalisation of workspace edits.      *)
(*                                                                         *)
(* A text is the sequence of UTF-16 units of a JavaScript string, over an  *)
(* alphabet that tells apart what the code tells apart: "a" (one byte in   *)
(* UTF-8), "e" (two bytes), "hi" and "lo" (the halves of a surrogate pair),*)
(* "CR" and "LF".  Offsets, lines and columns count from 0.                *)
(* An operator named ...Mutant is a faulty variation of the definition     *)
(* after it; the specification does not use it.                            *)
(***************************************************************************)
EXTENDS Integers, Sequences, SequencesExt

Units == {"a", "e", "hi", "lo", "CR", "LF"}
Encodings == {"utf-8", "utf-16", "utf-32"}

CONSTANT Invalid   \* the result of a call that throws

-----------------------------------------------------------------------------
\* Code points, as a string's iterator yields them: a lone half is one too.
CodePoints(text) ==
  LET n == Len(text)
      from[i \in 1..n + 1] ==
        IF i > n THEN <<>>
        ELSE IF i < n /\ text[i] = "hi" /\ text[i + 1] = "lo"
             THEN <<SubSeq(text, i, i + 1)>> \o from[i + 2]
             ELSE <<SubSeq(text, i, i)>> \o from[i + 1]
  IN from[1]

encodingUnitLength(codePoint, encoding) ==
  CASE encoding = "utf-32" -> 1
    [] encoding = "utf-16" -> Len(codePoint)
    [] OTHER -> CASE codePoint = <<"e">> -> 2
                  [] Len(codePoint) = 2 -> 4
                  [] codePoint[1] \in {"hi", "lo"} -> 3
                  [] OTHER -> 1

\* The length of a sequence of code points in an encoding.
EncodedLength(codePoints, encoding) ==
  FoldLeft(LAMBDA sum, codePoint : sum + encodingUnitLength(codePoint, encoding), 0, codePoints)

\* The column in encoding `to` of what is at a column of a line in encoding
\* `from`: the loops add up the lengths of the code points in both and stop
\* when one of them is met; a column inside a code point has no counterpart.
Aligned(line, character, from, to) ==
  LET points == CodePoints(line)
      Before(k) == SubSeq(points, 1, k)
      met == {k \in 0..Len(points) : EncodedLength(Before(k), from) = character}
  IN IF met = {} THEN Invalid ELSE EncodedLength(Before(CHOOSE k \in met : TRUE), to)

convertLspPositionToUtf16Mutant(line, character, encoding) ==
  IF character <= Len(line) THEN character ELSE Invalid

convertLspPositionToUtf16(line, character, encoding) ==
  IF encoding = "utf-16" THEN IF character <= Len(line) THEN character ELSE Invalid
  ELSE Aligned(line, character, encoding, "utf-16")

-----------------------------------------------------------------------------
\* The offsets at which lines start; CR LF ends one line.
computeLineStarts(text) ==
  LET n == Len(text)
      from[i \in 1..n + 1] ==
        IF i > n THEN <<>>
        ELSE IF i < n /\ text[i] = "CR" /\ text[i + 1] = "LF" THEN <<i + 1>> \o from[i + 2]
        ELSE IF text[i] \in {"CR", "LF"} THEN <<i>> \o from[i + 1]
        ELSE from[i + 1]
  IN <<0>> \o from[1]

LineEnd(text, starts, line) ==
  IF line + 1 < Len(starts) THEN starts[line + 2] ELSE Len(text)

\* The unit at an offset; outside of the text there is none.
UnitAt(text, offset) == IF offset \in 0..Len(text) - 1 THEN text[offset + 1] ELSE "none"

\* Of an empty last line the result is negative: the look back for a line end
\* finds the one before the line.
lineContentLength(text, starts, line) ==
  LET end  == LineEnd(text, starts, line)
      noLF == IF UnitAt(text, end - 1) = "LF" THEN end - 1 ELSE end
      noCR == IF UnitAt(text, noLF - 1) = "CR" THEN noLF - 1 ELSE noLF
  IN noCR - starts[line + 1]

positionToOffset(text, starts, position) ==
  IF position.line >= Len(starts) THEN Invalid
  ELSE IF position.character > lineContentLength(text, starts, position.line) THEN Invalid
  ELSE starts[position.line + 1] + position.character

\* One change, in UTF-16 positions.
ApplyChange(text, change) ==
  LET starts == computeLineStarts(text)
      start  == positionToOffset(text, starts, change.start)
      end    == positionToOffset(text, starts, change.end)
      ordered == \/ change.start.line < change.end.line
                 \/ /\ change.start.line = change.end.line
                    /\ change.start.character <= change.end.character
  IN IF ~ordered \/ start = Invalid \/ end = Invalid THEN Invalid
     ELSE IF start > end THEN Invalid
     ELSE SubSeq(text, 1, start) \o change.text \o SubSeq(text, end + 1, Len(text))

\* A position in the negotiated encoding, as the UTF-16 one of the same place.
ConvertPosition(text, position, encoding) ==
  LET starts == computeLineStarts(text)
      line == SelectSeq(SubSeq(text, starts[position.line + 1] + 1, LineEnd(text, starts, position.line)),
                        LAMBDA unit : unit \notin {"CR", "LF"})
      column == convertLspPositionToUtf16(line, position.character, encoding)
  IN IF position.line >= Len(starts) THEN Invalid
     ELSE IF column = Invalid THEN Invalid
     ELSE [line |-> position.line, character |-> column]

\* didChange and applyIncrementalChanges: each change is converted and applied
\* to the text the one before it has left.
ChangeText(text, changes, encoding) ==
  LET Step(current, change) ==
        IF current = Invalid THEN Invalid
        ELSE IF encoding = "utf-16" THEN ApplyChange(current, change)
        ELSE LET start == ConvertPosition(current, change.start, encoding)
                 end   == ConvertPosition(current, change.end, encoding)
             IN IF start = Invalid \/ end = Invalid THEN Invalid
                ELSE ApplyChange(current, [change EXCEPT !.start = start, !.end = end])
  IN FoldLeft(Step, text, changes)

Bytes(text) == EncodedLength(CodePoints(text), "utf-8")

-----------------------------------------------------------------------------
\* What a server makes of the same changes, as the protocol defines it: the
\* offset whose line is the position's and before which, in that line, lie
\* as many units of the encoding as its character says.

IsLineStart(text, o) ==
  \/ o = 0
  \/ UnitAt(text, o - 1) = "LF"
  \/ UnitAt(text, o - 1) = "CR" /\ UnitAt(text, o) # "LF"

ServerOffsets(text, position, encoding) ==
  {o \in 0..Len(text) :
     LET start == CHOOSE s \in 0..o : IsLineStart(text, s) /\ \A t \in s + 1..o : ~IsLineStart(text, t)
         before == SubSeq(text, start + 1, o)
     IN /\ Cardinality({s \in 1..o : IsLineStart(text, s)}) = position.line
        /\ EncodedLength(CodePoints(before), encoding) = position.character
        /\ encoding = "utf-16" \/ ~(UnitAt(text, o - 1) = "hi" /\ UnitAt(text, o) = "lo")
        /\ \A t \in start..o - 1 : UnitAt(text, t) \notin {"CR", "LF"}}

ServerText(text, changes, encoding) ==
  LET Step(current, change) ==
        LET starts == ServerOffsets(current, change.start, encoding)
            ends   == ServerOffsets(current, change.end, encoding)
        IN IF starts = {} \/ ends = {} THEN <<"unknown">>
           ELSE LET start == CHOOSE o \in starts : TRUE
                    end == CHOOSE o \in ends : TRUE
                IN SubSeq(current, 1, start) \o change.text \o SubSeq(current, end + 1, Len(current))
  IN FoldLeft(Step, text, changes)

-----------------------------------------------------------------------------
\* Workspace edits.  An edit is a sequence of items: text edits of a document
\* for a version or for none, and operations on files.

CONSTANTS InRoot, NoVersion   \* the URIs inside the workspace; no version

\* resolveLspUri of every URI an item names, and the kinds that are known.
Acceptable(item) ==
  /\ item.kind \in {"edit", "create", "rename", "delete"}
  /\ item.uris \subseteq InRoot

MergedMutant(known, given) == IF known = NoVersion THEN given ELSE known

\* Two versions for one document agree, or one of them is missing.
Merged(known, given) ==
  IF given = NoVersion \/ known = given THEN known
  ELSE IF known = NoVersion THEN given
  ELSE Invalid

WithEdit(file, version, i) ==
  [file EXCEPT !.version = version, !.edits = Append(@, i)]

\* The body of the loops of collectWorkspaceEditProposal: item i of an edit is
\* added to the proposal, whose files come in the order of their first edit,
\* each with the numbers of its items; or it makes the edit invalid.
AddItem(proposal, items, i) ==
  LET item == items[i]
      same == {f \in 1..Len(proposal.files) : proposal.files[f].uri \in item.uris}
  IN IF ~Acceptable(item) THEN [proposal EXCEPT !.valid = FALSE]
     ELSE IF item.kind # "edit" THEN [proposal EXCEPT !.operations = Append(@, i)]
     ELSE IF same = {}
     THEN [proposal EXCEPT !.files =
             Append(@, [uri |-> CHOOSE u \in item.uris : TRUE,
                        version |-> item.version, edits |-> <<i>>])]
     ELSE LET f == CHOOSE f \in same : TRUE
              version == Merged(proposal.files[f].version, item.version)
          IN IF version = Invalid THEN [proposal EXCEPT !.valid = FALSE]
             ELSE [proposal EXCEPT !.files[f] = WithEdit(@, version, i)]

\* What the first n items of an edit are to become, said without the loop.

TextEdits(items, n) == {i \in 1..n : items[i].kind = "edit"}

\* An edit that leaves the workspace or contradicts itself is refused.
Sound(items, n) ==
  /\ items # <<>>
  /\ \A i \in 1..n : Acceptable(items[i])
  /\ \A i, j \in TextEdits(items, n) :
       items[i].uris = items[j].uris =>
         items[i].version = items[j].version \/ NoVersion \in {items[i].version, items[j].version}

\* The members of a set of numbers, in their order.
Ascending(s, set) ==
  /\ {s[k] : k \in 1..Len(s)} = set
  /\ \A k, l \in 1..Len(s) : k < l => s[k] < s[l]

\* A file of the proposal has all edits of its document, and their version.
ExactFile(file, items, n) ==
  /\ file.edits # <<>>
  /\ Ascending(file.edits, {i \in TextEdits(items, n) : items[i].uris = {file.uri}})
  /\ \A i \in TextEdits(items, n) :
       items[i].uris = {file.uri} => items[i].version \in {NoVersion, file.version}
  /\ file.version # NoVersion =>
       \E i \in TextEdits(items, n) :
         items[i].uris = {file.uri} /\ items[i].version = file.version

Exact(proposal, items, n) ==
  /\ proposal.valid <=> Sound(items, n)
  /\ proposal.valid =>
       /\ Ascending(proposal.operations, 1..n \ TextEdits(items, n))
       /\ \A f \in 1..Len(proposal.files) : ExactFile(proposal.files[f], items, n)
       /\ \A f, g \in 1..Len(proposal.files) :
            f < g => proposal.files[f].edits[1] < proposal.files[g].edits[1]
       /\ \A i \in TextEdits(items, n) :
            \E f \in 1..Len(proposal.files) : items[i].uris = {proposal.files[f].uri}

Follow(s, i, j) == \E k, l \in 1..Len(s) : k < l /\ s[k] = i /\ s[l] = j

\* What a proposal says of the order of two items: what one of its lists says,
\* and that all text edits come before the file operations.
Precedes(proposal, i, j) ==
  \/ Follow(proposal.operations, i, j)
  \/ \E f \in 1..Len(proposal.files) :
       LET edits == proposal.files[f].edits IN
       \/ Follow(edits, i, j)
       \/ /\ i \in {edits[k] : k \in 1..Len(edits)}
          /\ j \in {proposal.operations[k] : k \in 1..Len(proposal.operations)}

\* The order that the two lists lose: a text edit after a file operation.
Reordered(items, i, j) == items[i].kind # "edit" /\ items[j].kind = "edit"

\* Text edits of two documents, which may be made in either order.
Independent(items, i, j) ==
  items[i].kind = "edit" /\ items[j].kind = "edit" /\ items[i].uris # items[j].uris

\* But for these, a proposal keeps the order in which the server sent its items.
InServerOrder(proposal, items) ==
  proposal.valid =>
    \A i, j \in 1..Len(items) : i < j =>
      Precedes(proposal, i, j) \/ Reordered(items, i, j) \/ Independent(items, i, j)
=============================================================================
