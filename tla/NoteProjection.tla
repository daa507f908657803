---------------------------- MODULE NoteProjection ----------------------------
(***************************************************************************)
(* What an edit makes of the bytes of a note, before anything is written:  *)
(* projectBodyBytes of change-set.ts and projectFrontmatter of             *)
(* frontmatter-projector.ts.                                               *)
(*                                                                         *)
(* Bytes are sequences. A Frontmatter block is a sequence of cells: a      *)
(* field is a key, a value as somebody spelled it and the end of its       *)
(* lines; a comment is one cell.                                           *)
(***************************************************************************)
EXTENDS Integers, Sequences, FiniteSets, FiniteSetsExt, SequencesExt

CONSTANTS
  Payloads, Edits,       \* bodies, and [old, replacement] edits of them
  Documents, Changes     \* Frontmatter blocks, and sequences of changes

VARIABLES
  note,      \* [bom, payload] or [ok, cells]
  edit,      \* what was asked for
  projected  \* what came of it

vars == <<note, edit, projected>>

NoEdit == <<>>
Refused == [outcome |-> "refused"]
Projected(result) == [outcome |-> "projected", result |-> result]
Mismatch(n) == [outcome |-> "exact_match_count_mismatch", actualOccurrences |-> n]
Splice(cells, start, end, replacement) ==
  SubSeq(cells, 1, start - 1) \o replacement \o SubSeq(cells, end, Len(cells))

-----------------------------------------------------------------------------
(* The body.                                                               *)

Matches(haystack, needle, i) == SubSeq(haystack, i, i + Len(needle) - 1) = needle
\* findSubarray: the first match at or after a place, 0 for none.
FindSubarray(haystack, needle, from) ==
  LET at == {i \in from..(Len(haystack) - Len(needle) + 1) : Matches(haystack, needle, i)}
  IN  IF at = {} THEN 0 ELSE Min(at)

\* Matches may overlap; an empty one is everywhere.
After(i, old) == i + 1
FindOccurrences(payload, old) ==
  LET count[i \in 0..(Len(payload) + 1)] ==
        IF i = 0 THEN 0 ELSE 1 + count[FindSubarray(payload, old, After(i, old))]
      first == FindSubarray(payload, old, 1)
  IN  IF old = <<>> THEN [count |-> Len(payload) + 1, firstIndex |-> 1]
      ELSE [count |-> count[first], firstIndex |-> first]

ProjectBodyBytes(body, e) ==
  LET found == FindOccurrences(body.payload, e.old)
  IN  IF e.kind = "replace_whole" THEN Projected([body EXCEPT !.payload = e.replacement])
      ELSE IF found.count # 1 THEN Mismatch(found.count)
      ELSE Projected([body EXCEPT !.payload =
             Splice(@, found.firstIndex, found.firstIndex + Len(e.old), e.replacement)])

-----------------------------------------------------------------------------
(* The Frontmatter.                                                        *)

Key(k) == [cell |-> "key", of |-> k]
Value(v, by) == [cell |-> "value", of |-> v, spelled |-> by]
Eol == [cell |-> "eol"]

KeysAt(cells) == {i \in DOMAIN cells : cells[i].cell = "key"}
\* locateFrontmatter and parseDocument: delimiters, one kind of line end, a
\* mapping of different string keys to plain JSON values.
Readable(document) ==
  /\ document.ok
  /\ \A i, j \in KeysAt(document.cells) : document.cells[i] = document.cells[j] => i = j
Fields(cells) ==
  LET at(k) == CHOOSE i \in KeysAt(cells) : cells[i].of = k
  IN  [k \in {cells[i].of : i \in KeysAt(cells)} |->
         [pairStart |-> at(k), valueStart |-> at(k) + 1, pairEnd |-> at(k) + 3,
          value |-> cells[at(k) + 1].of]]

\* The changes in their order: the values at the end, the keys still where the
\* source has them, and the keys to be added, in the order they came.
Drop(seq, k) == SelectSeq(seq, LAMBDA x : x # k)
With(f, k, v) == [x \in DOMAIN f \cup {k} |-> IF x = k THEN v ELSE f[x]]
Without(f, k) == [x \in DOMAIN f \ {k} |-> f[x]]
Adds(s, change) == change.key \notin s.retained /\ change.key \notin DOMAIN s.values
Changed(s, change) ==
  IF change.kind = "remove"
  THEN [values |-> Without(s.values, change.key), retained |-> s.retained \ {change.key},
        added |-> Drop(s.added, change.key)]
  ELSE [s EXCEPT !.values = With(@, change.key, change.value),
                 !.added = IF Adds(s, change) THEN Append(@, change.key) ELSE @]

\* A removed field goes with its lines, a value is only spelled anew when it
\* changed; from the last to the first, so that no edit moves another.
EditOf(field, k, final) ==
  IF k \notin final.retained
  THEN {[start |-> field.pairStart, end |-> field.pairEnd, replacement |-> <<>>]}
  ELSE IF final.values[k] = field.value THEN {}
  ELSE {[start |-> field.valueStart, end |-> field.valueStart + 1,
         replacement |-> <<Value(final.values[k], "projector")>>]}
Additions(final) ==
  FlattenSeq([i \in DOMAIN final.added |->
    <<Key(final.added[i]), Value(final.values[final.added[i]], "projector"), Eol>>])
LastToFirst(left, right) == left.start > right.start
ProjectFrontmatter(document, changes) ==
  LET fields == Fields(document.cells)
      final == FoldLeft(Changed, [values |-> [k \in DOMAIN fields |-> fields[k].value],
                                  retained |-> DOMAIN fields, added |-> <<>>], changes)
      end == Len(document.cells) + 1
      additions == Additions(final)
      edits == UNION {EditOf(fields[k], k, final) : k \in DOMAIN fields}
               \cup (IF additions = <<>> THEN {}
                     ELSE {[start |-> end, end |-> end, replacement |-> additions]})
  IN  IF ~Readable(document) THEN Refused
      ELSE Projected(FoldLeft(LAMBDA cells, e : Splice(cells, e.start, e.end, e.replacement),
                              document.cells, SetToSortSeq(edits, LastToFirst)))

-----------------------------------------------------------------------------
IsBody == "payload" \in DOMAIN note
Init ==
  /\ edit = NoEdit /\ projected = Refused
  /\ note \in [bom : BOOLEAN, payload : Payloads] \cup Documents
EditBody ==
  /\ edit = NoEdit /\ IsBody
  /\ \E e \in Edits : edit' = e /\ projected' = ProjectBodyBytes(note, e)
  /\ UNCHANGED note
EditFrontmatter ==
  /\ edit = NoEdit /\ ~IsBody
  /\ \E c \in Changes : edit' = c /\ projected' = ProjectFrontmatter(note, c)
  /\ UNCHANGED note
Next == EditBody \/ EditFrontmatter
Spec == Init /\ [][Next]_vars

TypeOK ==
  /\ projected.outcome \in {"refused", "projected", "exact_match_count_mismatch"}
  /\ IsBody => note.bom \in BOOLEAN

-----------------------------------------------------------------------------
\* A body is edited at the one place where the old bytes are, everything before
\* and after it stands, the byte order mark too; with no or several places, those
\* that overlap counted, it is refused with their number.
BodyIsExact ==
  IsBody /\ edit # NoEdit =>
    LET places == {i \in 1..(Len(note.payload) + 1) :
                     i + Len(edit.old) - 1 <= Len(note.payload) /\ Matches(note.payload, edit.old, i)}
    IN  IF edit.kind = "replace_whole"
        THEN projected.result = [bom |-> note.bom, payload |-> edit.replacement]
        ELSE IF Cardinality(places) # 1 THEN projected = Mismatch(Cardinality(places))
        ELSE \E i \in places :
               projected.result = [bom |-> note.bom,
                                   payload |-> SubSeq(note.payload, 1, i - 1) \o edit.replacement
                                     \o SubSeq(note.payload, i + Len(edit.old), Len(note.payload))]

\* The last change of a key decides; a key that the source has no more, or never
\* had, stands at the end, in the order of the changes that brought it in.
LastChange(k) == Max({0} \cup {i \in DOMAIN edit : edit[i].key = k})
LastRemoval(k) == Max({0} \cup {i \in DOMAIN edit : edit[i].key = k /\ edit[i].kind = "remove"})
FrontmatterIsExact ==
  ~IsBody /\ edit # NoEdit =>
    LET source == Fields(note.cells)
        after == Fields(projected.result)
        keys == DOMAIN source \cup {edit[i].key : i \in DOMAIN edit}
        present == {k \in keys : IF LastChange(k) = 0 THEN k \in DOMAIN source
                                 ELSE edit[LastChange(k)].kind = "set"}
        stays(k) == k \in present \cap DOMAIN source /\ LastRemoval(k) = 0
        value(k) == IF LastChange(k) = 0 THEN source[k].value ELSE edit[LastChange(k)].value
        broughtIn(k) == Min({i \in DOMAIN edit : i > LastRemoval(k) /\ edit[i].key = k})
        \* The cells of the source that nothing was to happen to.
        untouched(cells) == SelectSeq(cells, LAMBDA c :
          \/ c.cell = "comment"
          \/ c.cell = "value" /\ c.spelled # "projector"
          \/ c.cell = "key" /\ stays(c.of))
        kept == SelectSeq(note.cells, LAMBDA c :
          \/ c.cell = "comment"
          \/ c.cell = "key" /\ stays(c.of)
          \/ c.cell = "value" /\ \E k \in DOMAIN source : /\ stays(k) /\ source[k].value = value(k)
                                                          /\ note.cells[source[k].valueStart] = c)
    IN  IF ~Readable(note) THEN projected = Refused
        ELSE /\ Readable([ok |-> TRUE, cells |-> projected.result])
             /\ DOMAIN after = present
             /\ \A k \in present : after[k].value = value(k)
             /\ untouched(projected.result) = kept
             /\ \A k, l \in present :
                  ~stays(l) => (after[k].pairStart < after[l].pairStart <=>
                                stays(k) \/ broughtIn(k) < broughtIn(l))

\* An edit changes what it says, and nothing else of the note.
EditsAreExact == TypeOK /\ BodyIsExact /\ FrontmatterIsExact
=============================================================================
