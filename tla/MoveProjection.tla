---------------------------- MODULE MoveProjection ----------------------------
(***************************************************************************)
(* The references that a move rewrites: the projection of a Change Set's   *)
(* move from one Search Snapshot (move-reference-projection.ts), the       *)
(* resolution it stands on (obsidian-search-data-source.ts), and the       *)
(* successor snapshot the move has to reach (managed-vault-runtime.ts).    *)
(*                                                                         *)
(* A path is its components, the last without ".md". A text is a sequence  *)
(* of cells; a reference is the components of its target between "[[" (a   *)
(* wikilink) or "[" (a Markdown link) and "]", a fragment among them the   *)
(* last. The target is the decoded one: percent escapes are data, but for  *)
(* the fragment "#%", which decodes to more than it can be encoded to.     *)
(***************************************************************************)
EXTENDS Integers, Sequences, FiniteSets, FiniteSetsExt, SequencesExt, Functions

CONSTANTS
  Notes, Source,          \* the notes, and the one that moves
  Layouts,                \* functions from notes to paths
  Texts,                  \* functions from notes to texts
  Aliases,                \* for a note, the names its Frontmatter gives it
  Destinations, MaxMoves

VARIABLES
  paths, texts,
  observed,  \* notes whose cached evidence is of the bytes that are there
  hidden,    \* notes whose Frontmatter links to Source: the graph counts it only
  moves, rejected

vars == <<paths, texts, observed, hidden, moves, rejected>>

Md(name) == name \o ".md"
Hashed(path) == Last(path) = "h#"
Fragments == {"#", "#%"}
Dots == {".", ".."}

-----------------------------------------------------------------------------
(* Links and what they resolve to.                                         *)

Outside == <<"..">>
Dirname(path) == Front(path)
IsRelative(link) == link[1] \in Dots
HasSlash(link) == Len(link) > 1
\* posix.normalize, of a link with dots in front.
Ups(link) == Cardinality({i \in DOMAIN link : \A j \in 1..i : link[j] = ".."})
Normalized(link, dir) ==
  LET up == Ups(link)
  IN  IF link[1] = "." THEN dir \o Tail(link)
      ELSE IF up > Len(dir) THEN Outside
      ELSE SubSeq(dir, 1, Len(dir) - up) \o SubSeq(link, up + 1, Len(link))

\* enumerateDecodedReferenceTargets, for the notes at the paths given; the aliases
\* are those of the notes in named.
SameFile(path, link) ==
  Front(path) = Front(link) /\ Last(link) \in {Last(path), Md(Last(path))}
EnumerateTargets(link, at, from, named) ==
  LET path == IF IsRelative(link) THEN Normalized(link, Dirname(from)) ELSE link
  IN  {n \in Notes :
         IF IsRelative(link) \/ HasSlash(link) THEN SameFile(at[n], path)
         ELSE \/ link[1] \in {Last(at[n]), Md(Last(at[n]))}
              \/ n \in named /\ link[1] \in Aliases[n]}
Throws(link, from) == link # <<>> /\ IsRelative(link) /\ Normalized(link, Dirname(from)) = Outside

\* splitFragment.
HasFragment(target) == Last(target) \in Fragments
LinkpathOf(target) == IF HasFragment(target) THEN Front(target) ELSE target
FragmentOf(target) == IF HasFragment(target) THEN <<Last(target)>> ELSE <<>>

\* What a target in a note means to the host, which knows every alias: the note
\* itself when it is a fragment only.
Targets(target, n, at) ==
  LET link == LinkpathOf(target)
  IN  IF link = <<>> THEN {n} ELSE EnumerateTargets(link, at, at[n], Notes)

-----------------------------------------------------------------------------
(* The Search Snapshot.                                                    *)

Opens(text) == {i \in DOMAIN text : text[i] \in {"[", "[["}}
CloseOf(text, i) == Min({j \in i..Len(text) : text[j] = "]"})
TargetAt(text, i) == SubSeq(text, i + 1, CloseOf(text, i) - 1)
\* A note whose evidence is not of its bytes has no references at all.
ReferencesOf(n) == IF n \in observed THEN Opens(texts[n]) ELSE {}
ResolvedTo(n, to) == {i \in ReferencesOf(n) : Targets(TargetAt(texts[n], i), n, paths) = {to}}
ResolvedLinks(n, to) ==
  IF n \notin observed THEN 0
  ELSE Cardinality(ResolvedTo(n, to)) + (IF n \in hidden /\ to = Source THEN 1 ELSE 0)

\* verifyResolvedTarget: a snapshot is only published when every reference has
\* one target or none. That the host resolves it to the same one and that the
\* fragment is there are the host's and the text's own.
Publishes(at, written, seen) ==
  \A n \in seen : \A i \in Opens(written[n]) :
    LET target == TargetAt(written[n], i)
    IN  /\ ~Throws(LinkpathOf(target), at[n])
        /\ Cardinality(Targets(target, n, at)) <= 1

-----------------------------------------------------------------------------
(* The projection.                                                         *)

None == <<>>
Projected(to) == [paths EXCEPT ![Source] = to]
\* The snapshot has the aliases of the notes whose evidence it has.
ResolvesUniquely(link, at, from) ==
  ~Throws(link, from) /\ EnumerateTargets(link, at, from, observed) = {Source}

\* posix.relative, from the directory of one note to another, made to begin
\* with a dot.
RelativeTo(from, to) ==
  LET dir == Dirname(from)
      shared == Len(LongestCommonPrefix({dir, Dirname(to)}))
      rest == SubSeq(to, shared + 1, Len(to))
  IN  IF shared = Len(dir) THEN <<".">> \o rest
      ELSE [k \in 1..(Len(dir) - shared) |-> ".."] \o rest

FileOnly(link, fragment) == link
JoinFileAndFragment(link, fragment) == link \o fragment
KeepsExtension(link) ==
  \E path \in UNION {{l[n] : n \in Notes} : l \in Layouts} \cup Destinations :
    Last(link) = Md(Last(path))
WithExtension(path, kept) == IF kept THEN Front(path) \o <<Md(Last(path))>> ELSE path
\* decodeFragmentForRewrite: a wikilink's fragment is written as it is.
Rewritable(fragment, opening) == opening = "[[" \/ fragment # <<"#%">>
\* The target as it is, when it still means the moved note; else in its own
\* style, relative, explicit or short; else by its path; else there is none.
RenderedTarget(target, opening, n, at) ==
  LET link == LinkpathOf(target)
      fragment == FragmentOf(target)
      from == at[n]
      destination == WithExtension(at[Source], KeepsExtension(link))
      styled == IF IsRelative(link) THEN RelativeTo(from, destination)
                ELSE IF HasSlash(link) THEN destination
                ELSE <<Last(destination)>>
      next == IF ResolvesUniquely(styled, at, from) THEN styled ELSE destination
  IN  IF link = <<>> THEN IF n = Source THEN fragment ELSE None
      ELSE IF Throws(link, from) THEN None
      ELSE IF ResolvesUniquely(link, at, from) THEN target
      ELSE IF ~Rewritable(fragment, opening) THEN None
      ELSE IF ~ResolvesUniquely(next, at, from) \/ Hashed(at[Source]) THEN None
      ELSE JoinFileAndFragment(next, fragment)
RenderedAt(n, i, at) == RenderedTarget(TargetAt(texts[n], i), texts[n][i], n, at)

\* projectNote: the references from the last to the first.
Rendered(text, i, target) ==
  SubSeq(text, 1, i) \o target \o SubSeq(text, CloseOf(text, i), Len(text))
Backwards(S) == SetToSortSeq(S, >)
ProjectNote(n, at) ==
  FoldLeft(LAMBDA text, i : Rendered(text, i, RenderedAt(n, i, at)),
           texts[n], Backwards(ResolvedTo(n, Source)))

\* createMoveReferenceProjector: the references that are located are those the
\* graph counts, and each has a target, or there is no projection.
Counted(n) == Cardinality(ResolvedTo(n, Source)) = ResolvedLinks(n, Source)
Projects(at) ==
  /\ \A n \in Notes : paths[n] # at[Source]
  /\ \A n \in Notes :
       /\ Counted(n)
       /\ \A i \in ResolvedTo(n, Source) : RenderedAt(n, i, at) # None

-----------------------------------------------------------------------------
TypeOK ==
  /\ DOMAIN paths = Notes /\ DOMAIN texts = Notes /\ IsInjective(paths)
  /\ observed \subseteq Notes /\ hidden \subseteq Notes
  /\ moves \in 0..MaxMoves /\ rejected \in BOOLEAN

Init ==
  /\ paths \in Layouts /\ texts \in Texts
  /\ observed \in {Notes, Notes \ {Source}} /\ hidden \in {{}} \cup {{n} : n \in Notes}
  /\ Publishes(paths, texts, observed)
  /\ moves = 0 /\ rejected = FALSE

\* A move that has no projection is rejected before anything is written; one
\* whose successor snapshot does not publish, or shows the closure resolved
\* otherwise, is taken back.
Barrier(at, written) ==
  /\ Publishes(at, written, observed)
  /\ \A n \in Notes : ResolvedTo(n, Source) # {} =>
       Cardinality({i \in Opens(written[n]) : Targets(TargetAt(written[n], i), n, at) = {Source}})
         = ResolvedLinks(n, Source)
Move(to) ==
  LET at == Projected(to)
      written == [n \in Notes |-> IF ResolvedTo(n, Source) = {} THEN texts[n] ELSE ProjectNote(n, at)]
  IN  /\ moves < MaxMoves /\ ~rejected /\ to # paths[Source]
      /\ moves' = moves + 1
      /\ IF Projects(at) /\ Barrier(at, written)
         THEN paths' = at /\ texts' = written /\ UNCHANGED rejected
         ELSE rejected' = TRUE /\ UNCHANGED <<paths, texts>>
      /\ UNCHANGED <<observed, hidden>>

Next == \E to \in Destinations : Move(to)
Spec == Init /\ [][Next]_vars

-----------------------------------------------------------------------------
\* What is left when the targets of the references are taken out.
Plain(text) ==
  LET inside == UNION {(i + 1)..(CloseOf(text, i) - 1) : i \in Opens(text)}
  IN  SelectSeq([i \in DOMAIN text |-> IF i \in inside THEN "" ELSE text[i]], LAMBDA c : c # "")
TargetsIn(text) ==
  LET at == SetToSortSeq(Opens(text), <) IN [k \in DOMAIN at |-> TargetAt(text, at[k])]

\* A move that is applied leaves every note's text as it was except for the
\* targets of references to the moved note, and those mean that note, and only
\* it, as before, with their fragments; one that means it unchanged is unchanged,
\* unless the snapshot has no evidence of the moved note, and so not its aliases.
ReferencesFollow ==
  [][ \A n \in observed :
        LET before == TargetsIn(texts[n])
            after == TargetsIn(texts'[n])
        IN  /\ Plain(texts'[n]) = Plain(texts[n]) /\ DOMAIN after = DOMAIN before
            /\ paths' # paths => \A k \in DOMAIN before :
                 IF Targets(before[k], n, paths) = {Source}
                 THEN /\ Targets(after[k], n, paths') = {Source}
                      /\ FragmentOf(after[k]) = FragmentOf(before[k])
                      /\ Source \in observed /\ Targets(before[k], n, paths') = {Source} => after[k] = before[k]
                 ELSE after[k] = before[k] ]_vars

\* What is not promised, and does not hold: that the other references mean what
\* they meant, and that those of a note without evidence follow.
OthersStillMean ==
  [][ \A n \in Notes : \A k \in DOMAIN TargetsIn(texts[n]) :
        LET meant == Targets(TargetsIn(texts[n])[k], n, paths)
        IN  Cardinality(meant) = 1 => Targets(TargetsIn(texts'[n])[k], n, paths') = meant ]_vars
=============================================================================
