------------------------------- MODULE MCReads -------------------------------
(***************************************************************************)
(* What the Bridge makes of bytes, for TLC: the pages of a frozen result,  *)
(* the items of a read, what an edit makes of a note, and what a move      *)
(* makes of the references to it. They share no state, so one run takes    *)
(* them one at a time: subject says which, the others stay where they are. *)
(***************************************************************************)
EXTENDS Continuations, Functions, TLC

CONSTANTS VaultPaths, ReadLimit, MaxEdits, MaxMoves

ASSUME ReadAssumption == {ReadLimit, MaxEdits, MaxMoves} \subseteq Nat

VARIABLES
  subject,
  content, cached, request, items, answer, edits,
  note, edit, projected,
  paths, texts, observed, hidden, moves, rejected

-----------------------------------------------------------------------------
(* Results and costs: content of one and two byte characters, an item that  *)
(* is no content and must be split, and both.                               *)

Content(w) == [form |-> "content", widths |-> w]
Whole(w) == [form |-> "whole", widths |-> w]
MCResults ==
  { <<Content(<<2, 1, 2, 2, 1, 2, 1>>)>>,
    <<Whole(<<1, 1>>), Content(<<1, 2, 2>>), Content(<<2, 2>>)>>,
    <<Content(<<1>>), Whole(<<1, 2, 2, 1, 2, 2>>)>> }
MCSymmetry == Permutations(Clients)

(* Notes with headings that repeat, skip a level and begin below it, one     *)
(* that grew, one in which longer names stand where the shorter stood, once  *)
(* within a line, one over the limit; requests by hierarchy and total.       *)

H(level, name) == [k \in 1..level |-> "#"] \o <<" ">> \o name \o <<"\n">>
Text == <<"x", "\n">>
A == <<"A">>
B == <<"B">>
MCNotes ==
  { H(1, A) \o Text \o H(2, B) \o Text \o H(1, A) \o H(2, B),
    H(1, A) \o H(3, B) \o Text \o H(2, B) \o H(3, B),
    H(3, B) \o H(1, A) \o Text,
    H(1, A) \o Text \o H(2, B) \o Text,
    H(1, A \o B) \o <<"x">> \o H(2, B \o A),
    [k \in 1..(ReadLimit + 1) |-> "x"] }
Asks(p, kind) == [path |-> p, kind |-> kind]
AsksSection(p, h, o) == [path |-> p, kind |-> "section", hierarchy |-> h, occurrence |-> o]
MCRequests ==
  {<<AsksSection(p, h, o), Asks(p, "outline")>> :
     p \in {"p"}, h \in {<<A>>, <<A, B>>, <<A, B, B>>, <<B>>}, o \in 1..2}
  \cup {<<Asks("p", "exact"), Asks("q", "exact"), Asks("p", "exact")>>,
        <<Asks("q", "metadata"), Asks("p", "exact"), Asks("q", "exact")>>}

(* Bodies of two bytes, with matches that overlap; Frontmatter with comments *)
(* between its fields, a key twice, none; changes that take back each other. *)

MCPayloads == SeqOf({"x", "y"}, 4)
MCEdits ==
  [kind : {"replace_exact"}, old : SeqOf({"x", "y"}, 2), replacement : {<<>>, <<"y", "x">>}]
  \cup [kind : {"replace_whole"}, old : {<<>>}, replacement : {<<>>, <<"y">>}]
Field(k, v) ==
  <<[cell |-> "key", of |-> k], [cell |-> "value", of |-> v, spelled |-> k], [cell |-> "eol"]>>
Remark == <<[cell |-> "comment", of |-> 0]>>
MCDocuments ==
  [ok : {TRUE}, cells : { <<>>, Remark, Field("a", 1) \o Remark \o Field("b", 2),
                          Remark \o Field("b", 1) \o Field("a", 1) \o Remark,
                          Field("a", 1) \o Field("a", 2),
                          Field("a", 1) \o Field("b", 2) \o Field("c", 2)}]
  \cup {[ok |-> FALSE, cells |-> <<>>]}
MCChanges ==
  SeqOf([kind : {"set"}, key : {"a", "b", "d"}, value : {1, 2}]
        \cup [kind : {"remove"}, key : {"a", "b", "d"}, value : {0}], 3) \ {<<>>}

(* Three notes in two directories: "s" moves, "t" refers to names, paths and *)
(* relative paths, with and without fragments, "u" has a name like others.   *)

MCVaultNotes == {"s", "t", "u"}
Dirs == {<<>>, <<"a">>, <<"b">>}
Places == {d \o <<x>> : d \in Dirs, x \in {"n", "m"}}
MCLayouts ==
  {l \in [MCVaultNotes -> Places] :
     IsInjective(l) /\ l["u"] = <<"a", "m">> /\ l["t"] \in {<<"n">>, <<"a", "n">>, <<"b", "m">>}}
MCLinks ==
  {<<"n">>, <<"m">>, <<"n.md">>, <<"k">>, <<"a", "n">>, <<"b", "n">>, <<"a", "m.md">>}
  \cup {<<".">> \o d \o <<"n">> : d \in Dirs}
  \cup {<<"..">> \o d \o <<x>> : d \in Dirs, x \in {"n", "m"}}
Reference(t) == <<"[">> \o t \o <<"]">>
Wikilink(t) == <<"[[">> \o t \o <<"]">>
MCTexts ==
  {[n \in MCVaultNotes |-> IF n = "s" THEN x ELSE IF n = "t" THEN y ELSE <<"x">>] :
     x \in {<<"x">>, Reference(<<"#">>), Reference(<<".", "m">>), Reference(<<"n", "#">>)},
     y \in {<<"x">> \o Reference(l \o f) \o g :
              l \in MCLinks, f \in {<<>>, <<"#">>, <<"#%">>},
              g \in {<<>>, Reference(<<"n">>) \o <<"x">>}}
            \cup {Wikilink(l \o <<"#%">>) : l \in MCLinks}}
MCAliases == [n \in MCVaultNotes |-> IF n = "s" THEN {"k"} ELSE {}]
MCDestinations == (Places \ {<<"a", "n">>}) \cup {<<"a", "c", "o">>, <<"a", "h#">>}

-----------------------------------------------------------------------------
Read == INSTANCE VaultRead WITH
  Paths <- VaultPaths, Notes <- MCNotes, Requests <- MCRequests, Limit <- ReadLimit
Edited == INSTANCE NoteProjection WITH
  Payloads <- MCPayloads, Edits <- MCEdits, Documents <- MCDocuments, Changes <- MCChanges
Moved == INSTANCE MoveProjection WITH
  Notes <- MCVaultNotes, Source <- "s", Layouts <- MCLayouts, Texts <- MCTexts,
  Aliases <- MCAliases, Destinations <- MCDestinations

readVars == <<content, cached, request, items, answer, edits>>
editVars == <<note, edit, projected>>
moveVars == <<paths, texts, observed, hidden, moves, rejected>>
allVars == <<subject, vars, readVars, editVars, moveVars>>

NoVault ==
  /\ content = <<>> /\ cached = <<>> /\ request = <<>> /\ items = <<>>
  /\ answer = Read!NoAnswer /\ edits = 0
NoNote == note = <<>> /\ edit = <<>> /\ projected = Edited!Refused
NoMove ==
  /\ paths = <<>> /\ texts = <<>> /\ observed = {} /\ hidden = {} /\ moves = 0 /\ rejected = FALSE

ReadsInit ==
  /\ Init
  /\ \/ subject = "pages" /\ NoVault /\ NoNote /\ NoMove
     \/ subject = "read" /\ Read!Init /\ NoNote /\ NoMove
     \/ subject = "edit" /\ Edited!Init /\ NoVault /\ NoMove
     \/ subject = "move" /\ Moved!Init /\ NoVault /\ NoNote

ReadsNext ==
  /\ UNCHANGED subject
  /\ \/ subject = "pages" /\ Next /\ UNCHANGED <<readVars, editVars, moveVars>>
     \/ subject = "read" /\ Read!Next /\ UNCHANGED <<vars, editVars, moveVars>>
     \/ subject = "edit" /\ Edited!Next /\ UNCHANGED <<vars, readVars, moveVars>>
     \/ subject = "move" /\ Moved!Next /\ UNCHANGED <<vars, readVars, editVars>>

ReadsSpec == ReadsInit /\ [][ReadsNext]_allVars

\* A read is answered item by item, each from one snapshot, or in groups; and
\* the pages of a result are the result.
ReadsAreExact ==
  /\ ReadsComplete
  /\ subject = "read" => Read!TypeOK /\ Read!ReadsAreTrue
  /\ subject = "edit" => Edited!EditsAreExact
  /\ subject = "move" => Moved!TypeOK

\* The references to a note that moved follow it.
ReferencesFollow == Moved!ReferencesFollow
=============================================================================
