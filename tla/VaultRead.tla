------------------------------ MODULE VaultRead ------------------------------
(***************************************************************************)
(* vault_read: the items of one request are read at once, each from the    *)
(* file and from the headings that the host's cache holds by then          *)
(* (vault-read.ts, and its data source in main.ts).                        *)
(*                                                                         *)
(* A note is the sequence of its cells, each a byte and a character: "#",  *)
(* a blank, letters and line ends. A name is the sequence of its letters.  *)
(* A heading is a line of 1 to 6 "#", one blank and a name; underlined     *)
(* ones, closing "#", more blanks and the byte order mark are left out.    *)
(* A Content Version is the note it is the hash of, so a note stands for   *)
(* its own.                                                                *)
(***************************************************************************)
EXTENDS Integers, Sequences, FiniteSets, FiniteSetsExt, SequencesExt

CONSTANTS
  Paths, Notes,   \* notes that a path may hold
  Requests,       \* sequences of the items that a call may ask for
  Limit,          \* MAXIMUM_LOGICAL_EXACT_READ_BYTES
  MaxEdits        \* bound

VARIABLES
  content,   \* what a path holds
  cached,    \* the note whose headings the host's cache holds for the path
  request, items, answer,
  edits

vars == <<content, cached, request, items, answer, edits>>

Missing == <<>>
NoRequest == <<>>
NoAnswer == [outcome |-> "none"]

Bytes(note) == Len(note)
Eol == "\n"

-----------------------------------------------------------------------------
(* Headings. Places are offsets, so cell k of a note begins at k - 1.      *)

Marker(level) == [k \in 1..level |-> "#"] \o <<" ">>
\* content.slice(start, end)
Slice(note, start, end) == SubSeq(note, start + 1, end)
Begins(note, at, text) ==
  at + Len(text) <= Bytes(note) /\ Slice(note, at, at + Len(text)) = text

LineStarts(note) == {0} \cup {k \in DOMAIN note : note[k] = Eol}
LineEnd(note, at) == Min({k \in at..(Bytes(note) - 1) : note[k + 1] = Eol} \cup {Bytes(note)})
Headings(note) == {at \in LineStarts(note) : \E l \in 1..6 : Begins(note, at, Marker(l))}
LevelOf(note, at) == CHOOSE l \in 1..6 : Begins(note, at, Marker(l))
NameOf(note, at) == Slice(note, at + LevelOf(note, at) + 1, LineEnd(note, at))

\* The host's cache: the headings of the note it parsed, and where they were.
Cached(note) ==
  LET at == SetToSortSeq(Headings(note), <)
  IN  [i \in DOMAIN at |-> [heading |-> NameOf(note, at[i]), level |-> LevelOf(note, at[i]),
                            startOffset |-> at[i], endOffset |-> LineEnd(note, at[i])]]

\* The cells from a cached heading's start to its end spell it. What is before
\* them in their line, and after them, is not looked at.
Located(note, c) ==
  /\ c.level \in 1..6
  /\ 0 <= c.startOffset /\ c.startOffset < c.endOffset /\ c.endOffset <= Bytes(note)
Spells(note, c) ==
  /\ Located(note, c)
  /\ Slice(note, c.startOffset, c.endOffset) = Marker(c.level) \o c.heading

\* The ancestors by level: a heading ends all that are not above it, and a
\* level that was skipped is a hole.
Hole == <<>>
Kept(names, level) == [l \in 1..6 |-> IF l < level THEN names[l] ELSE Hole]
Ancestry(headings) ==
  LET names[i \in 0..Len(headings)] ==
        IF i = 0 THEN [l \in 1..6 |-> Hole]
        ELSE [Kept(names[i - 1], headings[i].level) EXCEPT ![headings[i].level] = headings[i].heading]
  IN  names
HierarchyOf(names) == SelectSeq(names, LAMBDA name : name # Hole)

\* A section ends at the next heading of its level or above.
EndsSection(level, other) == other <= level
EndOf(note, headings, i) ==
  LET later == {j \in (i + 1)..Len(headings) : EndsSection(headings[i].level, headings[j].level)}
  IN  IF later = {} THEN Bytes(note) ELSE headings[Min(later)].startOffset

Unverified == <<[heading |-> Hole]>>
VerifyHeadings(note, headings) ==
  LET ancestry == Ancestry(headings)
  IN  IF \A i \in DOMAIN headings : Spells(note, headings[i])
      THEN [i \in DOMAIN headings |->
              [heading |-> headings[i].heading, level |-> headings[i].level,
               hierarchy |-> HierarchyOf(ancestry[i]),
               start |-> headings[i].startOffset, end |-> EndOf(note, headings, i)]]
      ELSE Unverified

-----------------------------------------------------------------------------
(* The items of a request, and the answer.                                 *)

Reading == [outcome |-> "reading"]
Looked == [outcome |-> "looked"]
Snapshot(note) == [outcome |-> "snapshot", version |-> note]
NotSatisfied == [outcome |-> "not_satisfied"]
Exceeds == [outcome |-> "note_exceeds_exact_read_limit"]
\* parsed is what the headings were parsed from: it is not answered, and is
\* kept for the properties.
Satisfied(kind, note, parsed, result) ==
  [outcome |-> "satisfied", kind |-> kind, version |-> note, size |-> Bytes(note),
   parsed |-> parsed, result |-> result]

\* The section asked for, by its names and its place among those of the same.
Selected(parsed, hierarchy, occurrence) ==
  LET matching == SelectSeq(parsed, LAMBDA h : h.hierarchy = hierarchy)
  IN  IF occurrence \in DOMAIN matching THEN <<matching[occurrence]>> ELSE <<>>

\* satisfyRequest, once the bytes are read. A note without headings has no
\* list of them in the cache.
ExactItem(note) ==
  IF Bytes(note) > Limit THEN Exceeds ELSE Satisfied("exact", note, Missing, <<>>)
HeadingItem(wanted, note, parsed) ==
  LET headings == VerifyHeadings(note, Cached(parsed))
      selected == Selected(headings, wanted.hierarchy, wanted.occurrence)
  IN  IF Headings(parsed) = {} \/ headings = Unverified THEN NotSatisfied
      ELSE IF wanted.kind = "outline"
      THEN Satisfied("outline", note, parsed,
                     [i \in DOMAIN headings |-> <<headings[i].heading, headings[i].level>>])
      ELSE IF selected = <<>> THEN NotSatisfied
      ELSE Satisfied("section", note, parsed, <<selected[1].start, selected[1].end>>)
Satisfy(wanted, note) ==
  CASE wanted.kind = "exact" -> ExactItem(note)
    [] wanted.kind = "metadata" -> Satisfied("metadata", note, Missing, <<>>)
    [] wanted.kind \in {"outline", "section"} -> HeadingItem(wanted, note, cached[wanted.path])

ExactReadBytes(item) == IF item.outcome = "satisfied" /\ item.kind = "exact" THEN item.size ELSE 0

\* Groups are filled in the order of the request.
Overflows(bytes, size) == bytes + size > Limit
SuggestedGroups(sizes) ==
  LET fill[i \in 0..Len(sizes)] ==
        IF i = 0 THEN [groups |-> <<>>, start |-> 1, bytes |-> 0]
        ELSE LET s == fill[i - 1]
             IN  IF Overflows(s.bytes, sizes[i])
                 THEN [groups |-> Append(s.groups, <<s.start, i - 1, s.bytes>>),
                       start |-> i, bytes |-> sizes[i]]
                 ELSE [s EXCEPT !.bytes = @ + sizes[i]]
      last == fill[Len(sizes)]
  IN  Append(last.groups, <<last.start, Len(sizes), last.bytes>>)

PerformVaultRead(settled) ==
  LET sizes == [i \in DOMAIN settled |-> ExactReadBytes(settled[i])]
  IN  IF Exceeds \notin ToSet(settled) /\ FoldSeq(+, 0, sizes) > Limit
      THEN [outcome |-> "grouping_required", groups |-> SuggestedGroups(sizes)]
      ELSE [outcome |-> "items", items |-> settled]

-----------------------------------------------------------------------------
TypeOK ==
  /\ content \in [Paths -> Notes \cup {Missing}] /\ cached \in [Paths -> Notes \cup {Missing}]
  /\ request \in Requests \cup {NoRequest} /\ DOMAIN items = DOMAIN request
  /\ answer.outcome \in {"none", "items", "grouping_required", "failed"}
  /\ edits \in 0..MaxEdits

Init ==
  /\ content \in [Paths -> Notes \cup {Missing}]
  /\ cached = content
  /\ request = NoRequest /\ items = <<>> /\ answer = NoAnswer /\ edits = 0

Begin ==
  /\ request = NoRequest
  /\ \E r \in Requests : request' = r /\ items' = [i \in DOMAIN r |-> Reading]
  /\ UNCHANGED <<content, cached, answer, edits>>

\* The file is there, or it is not.
Look(i) ==
  /\ answer = NoAnswer /\ items[i] = Reading
  /\ items' = [items EXCEPT ![i] =
       IF content[request[i].path] = Missing THEN NotSatisfied ELSE Looked]
  /\ UNCHANGED <<content, cached, request, answer, edits>>

\* readBinary rejects for a file that went away, and the call with it.
ReadBinary(i) ==
  /\ answer = NoAnswer /\ items[i] = Looked
  /\ LET note == content[request[i].path]
     IN  IF note = Missing THEN answer' = [outcome |-> "failed"] /\ UNCHANGED items
         ELSE items' = [items EXCEPT ![i] = Snapshot(note)] /\ UNCHANGED answer
  /\ UNCHANGED <<content, cached, request, edits>>

Settle(i) ==
  /\ answer = NoAnswer /\ items[i].outcome = "snapshot"
  /\ items' = [items EXCEPT ![i] = Satisfy(request[i], items[i].version)]
  /\ UNCHANGED <<content, cached, request, answer, edits>>

Answer ==
  /\ answer = NoAnswer /\ request # NoRequest
  /\ \A i \in DOMAIN items : items[i].outcome \notin {"reading", "looked", "snapshot"}
  /\ answer' = PerformVaultRead(items)
  /\ UNCHANGED <<content, cached, request, items, edits>>

\* The user, or another program, and the host that parses what it wrote later.
Edit(p) ==
  /\ edits < MaxEdits /\ edits' = edits + 1 /\ answer = NoAnswer
  /\ \E note \in Notes \cup {Missing} : content' = [content EXCEPT ![p] = note]
  /\ UNCHANGED <<cached, request, items, answer>>
Reparse(p) ==
  /\ cached[p] # content[p] /\ answer = NoAnswer
  /\ cached' = [cached EXCEPT ![p] = content[p]]
  /\ UNCHANGED <<content, request, items, answer, edits>>

Next ==
  \/ Begin \/ Answer
  \/ \E i \in DOMAIN items : Look(i) \/ ReadBinary(i) \/ Settle(i)
  \/ \E p \in Paths : Edit(p) \/ Reparse(p)
Spec == Init /\ [][Next]_vars

-----------------------------------------------------------------------------
(* What an outline and a section are, by containment.                      *)

\* The cells that belong to the heading at h: up to the next one not below it.
Within(note, h) ==
  {at \in h..(Bytes(note) - 1) :
     \A g \in Headings(note) \cap ((h + 1)..at) : LevelOf(note, g) > LevelOf(note, h)}
\* The names of the headings whose sections the cell is in, outermost first.
Containing(note, at) ==
  LET outer == SetToSortSeq({h \in Headings(note) : at \in Within(note, h)}, <)
  IN  [i \in DOMAIN outer |-> NameOf(note, outer[i])]
SectionAt(note, h) == <<h, h + Cardinality(Within(note, h))>>
SectionOf(note, hierarchy, occurrence) ==
  LET same == SetToSortSeq({h \in Headings(note) : Containing(note, h) = hierarchy}, <)
  IN  IF occurrence > Len(same) THEN <<>> ELSE SectionAt(note, same[occurrence])
OutlineOf(note) ==
  LET at == SetToSortSeq(Headings(note), <)
  IN  [i \in DOMAIN at |-> <<NameOf(note, at[i]), LevelOf(note, at[i])>>]

\* Whatever the cache had parsed, what is answered stands in the bytes of the
\* one snapshot it is answered with: a section begins with a marker and the
\* name asked for, and ends with the note or before a marker that is not of a
\* lower rank. They may begin, and end, within a line.
Stands(wanted, note, start, end) ==
  /\ start < end
  /\ \E l \in 1..6 :
       /\ Begins(note, start, Marker(l) \o Last(wanted.hierarchy))
       /\ end = Bytes(note) \/ \E k \in 1..l : Begins(note, end, Marker(k))
\* An observation is of one snapshot, whenever the note was edited and parsed.
\* When the cache had parsed these very bytes, an outline is all their headings
\* and a section is the one asked for, with all that is in it.
Observed(i) ==
  LET item == items[i]
      wanted == request[i]
      note == item.version
  IN  item.outcome = "satisfied" =>
        /\ item.kind = "exact" => item.size <= Limit
        /\ item.kind = "section" =>
             /\ Stands(wanted, note, item.result[1], item.result[2])
             /\ item.parsed = note =>
                  item.result = SectionOf(note, wanted.hierarchy, wanted.occurrence)
        /\ item.kind = "outline" =>
             /\ \A k \in DOMAIN item.result :
                  \E at \in 0..Bytes(note) :
                    Begins(note, at, Marker(item.result[k][2]) \o item.result[k][1])
             /\ item.parsed = note => item.result = OutlineOf(note)
Refused(i) ==
  request[i].kind = "section" /\ items[i] = NotSatisfied /\ edits = 0 =>
    SectionOf(content[request[i].path], request[i].hierarchy, request[i].occurrence) = <<>>

\* The groups suggested are all the items in their order, each within the limit,
\* and no fewer would do: no group has room for the first item of the next.
GroupsFit ==
  answer.outcome = "grouping_required" =>
    LET g == answer.groups
        sizes == [i \in DOMAIN items |-> ExactReadBytes(items[i])]
        total(from, to) == FoldSeq(+, 0, SubSeq(sizes, from, to))
    IN  /\ g[1][1] = 1 /\ g[Len(g)][2] = Len(request) /\ Len(g) > 1
        /\ \A k \in DOMAIN g : /\ g[k][1] <= g[k][2] /\ g[k][3] = total(g[k][1], g[k][2])
                               /\ g[k][3] <= Limit
        /\ \A k \in 1..(Len(g) - 1) : /\ g[k + 1][1] = g[k][2] + 1
                                      /\ g[k][3] + sizes[g[k + 1][1]] > Limit

\* A read is answered item by item, from one snapshot each, or in groups.
ReadsAreTrue ==
  /\ GroupsFit
  /\ answer.outcome = "items" => \A i \in DOMAIN items : Observed(i) /\ Refused(i)

\* What docs/spec/reliable-vault-operations-mvp.md says: 6.3, a total over the
\* limit returns no content; 6.3, a section is the one named, and not combined
\* with another.
TotalsAreLimited ==
  answer.outcome = "items" =>
    FoldSeq(LAMBDA item, total : ExactReadBytes(item) + total, 0, answer.items) <= Limit
SectionsAreWhole ==
  \A i \in DOMAIN items :
    items[i].outcome = "satisfied" /\ items[i].kind = "section" =>
      \E h \in Headings(items[i].version) :
        /\ NameOf(items[i].version, h) = Last(request[i].hierarchy)
        /\ items[i].result = SectionAt(items[i].version, h)
=============================================================================
