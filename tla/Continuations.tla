---------------------------- MODULE Continuations ----------------------------
(***************************************************************************)
(* The frozen results that Agent Sessions page through: vault_continue's   *)
(* store of byte pages (vault-continuation.ts), the item pages of          *)
(* vault_discover (vault-discover.ts), and the sessions that own them      *)
(* (bridge-instance.ts).                                                   *)
(*                                                                         *)
(* An item is the sequence of the widths of its UTF-8 characters; a page   *)
(* costs its bytes, a fixed part per item and, when more follows, a token. *)
(* Tokens are the numbers of the calls that made them. A client puts the   *)
(* fragments it receives together by the item and byte they name; a page   *)
(* that is lost on its way is a page nobody holds.                         *)
(***************************************************************************)
EXTENDS Integers, Sequences, FiniteSets, FiniteSetsExt, SequencesExt

CONSTANTS
  Clients,
  Results,                           \* results of vault_read: sequences of items
  Sizes, PageItems,                  \* notes a discovery can match, notes per page
  Limit, ChunkCost, WholeCost, TokenCost,
  MaxChains, MaxBytes, MaxNotes,     \* the quotas of one client
  Lifetime,
  MaxTime, MaxCalls                  \* bounds

ASSUME CostAssumption == {ChunkCost, WholeCost, TokenCost} \subseteq Nat
ASSUME LimitAssumption == Limit \in Nat /\ ChunkCost + TokenCost + 4 <= Limit
ASSUME QuotaAssumption == {MaxChains, MaxBytes, MaxNotes, MaxTime, MaxCalls} \subseteq Nat
ASSUME LifetimeAssumption == {Lifetime, PageItems} \subseteq Nat \ {0}

VARIABLES
  sessions,  \* clients whose session is open
  reading,   \* the result a client's vault_read is about to return
  active,    \* the continuation store: token -> chain
  found,     \* the discovery store: token -> chain
  holds,     \* tokens the clients hold, and what they got until then
  page,      \* the byte page this step delivered, the items it left, and
             \* the bytes then neither with the client nor in the store
  now, calls

stores == <<active, found>>
vars == <<sessions, reading, stores, holds, page, now, calls>>

NoRead == <<>>
NoPage == [size |-> 0, rest |-> <<>>, lost |-> 0]
Nobody == [t \in {} |-> 0]
Without(f, T) == [t \in DOMAIN f \ T |-> f[t]]
With(f, t, v) == [u \in DOMAIN f \cup {t} |-> IF u = t THEN v ELSE f[u]]

Bytes(widths) == FoldSeq(LAMBDA w, total : w + total, 0, widths)
RetainedBytes(items) == FoldSeq(LAMBDA i, total : Bytes(i.widths) + total, 0, items)
FreezeItems(result) ==
  [i \in DOMAIN result |->
     [index |-> i, start |-> 0, form |-> result[i].form, widths |-> result[i].widths]]

TypeOK ==
  /\ sessions \subseteq Clients /\ DOMAIN reading = Clients
  /\ DOMAIN active \cup DOMAIN found \cup DOMAIN holds \subseteq 1..calls
  /\ DOMAIN active \cap DOMAIN found = {}
  /\ \A t \in DOMAIN active : active[t].items # <<>> /\ active[t].expires \in 0..(MaxTime + Lifetime)
  /\ \A t \in DOMAIN found : found[t].offset \in 1..(found[t].size - 1)
  /\ now \in 0..MaxTime /\ calls \in 0..MaxCalls

Init ==
  /\ sessions = Clients /\ reading = [c \in Clients |-> NoRead]
  /\ active = Nobody /\ found = Nobody /\ holds = Nobody
  /\ page = NoPage /\ now = 0 /\ calls = 0

-----------------------------------------------------------------------------
(* One page.                                                               *)

Cost(form) == IF form = "whole" THEN WholeCost ELSE ChunkCost
\* The longest prefix that ends between two characters.
LegalUtf8Prefix(widths, end) ==
  Max({n \in 0..Len(widths) : Bytes(SubSeq(widths, 1, n)) <= end})

\* The binary search for the longest prefix a page still takes, over bytes:
\* characters found so far, between the two bounds.
Fits(widths, n, used) == used + ChunkCost + Bytes(SubSeq(widths, 1, n)) + TokenCost <= Limit
Search(widths, used) ==
  LET best[s \in [low : Nat, high : Nat, end : Nat]] ==
        LET middle == (s.low + s.high) \div 2
            end == LegalUtf8Prefix(widths, middle)
        IN  IF s.low > s.high THEN s.end
            ELSE IF end = 0 THEN best[[s EXCEPT !.low = middle + 1]]
            ELSE IF Fits(widths, end, used) THEN best[[s EXCEPT !.low = middle + 1, !.end = end]]
            ELSE best[[s EXCEPT !.high = middle - 1]]
  IN  best[[low |-> 1, high |-> Bytes(widths), end |-> 0]]

FreezeWholeItem(item) == [item EXCEPT !.form = "item"]
Trim(item, n) ==
  [item EXCEPT !.start = item.start + Bytes(SubSeq(item.widths, 1, n)),
               !.widths = SubSeq(item.widths, n + 1, Len(item.widths))]

\* Items are added while they fit, the last without a token; then a prefix of
\* the next; an item that is not content is only split on a page of its own.
Fragment(item, n) == [index |-> item.index, start |-> item.start,
                      bytes |-> Bytes(SubSeq(item.widths, 1, n))]
BuildPage(items) ==
  LET turn(sent, rest, used) == [size |-> used + TokenCost, sent |-> sent, rest |-> rest]
      fill[s \in [rest : Seq([index : Nat, start : Nat, form : STRING, widths : Seq(Nat)]),
                  used : Nat, sent : Seq([index : Nat, start : Nat, bytes : Nat])]] ==
        LET item == Head(s.rest)
            later == Tail(s.rest)
            full == s.used + Cost(item.form) + Bytes(item.widths)
            sent == Append(s.sent, Fragment(item, Len(item.widths)))
            n == Search(item.widths, s.used)
        IN  IF full + (IF later = <<>> THEN 0 ELSE TokenCost) <= Limit
            THEN IF later = <<>> THEN [size |-> full, sent |-> sent, rest |-> <<>>]
                 ELSE fill[[rest |-> later, used |-> full, sent |-> sent]]
            ELSE IF item.form = "whole"
            THEN IF s.sent # <<>> THEN turn(s.sent, s.rest, s.used)
                 ELSE fill[[s EXCEPT !.rest = <<FreezeWholeItem(item)>> \o later]]
            ELSE IF n > 0
            THEN turn(Append(s.sent, Fragment(item, n)), <<Trim(item, n)>> \o later,
                      s.used + ChunkCost + Bytes(SubSeq(item.widths, 1, n)))
            ELSE turn(s.sent, s.rest, s.used)
  IN  fill[[rest |-> items, used |-> 0, sent |-> <<>>]]

-----------------------------------------------------------------------------
(* The two stores.                                                         *)

Owned(store, c) == {t \in DOMAIN store : store[t].client = c}
RetainedBy(c, store) == FoldSet(LAMBDA t, n : RetainedBytes(store[t].items) + n, 0, Owned(store, c))
Live(store) == Without(store, {t \in DOMAIN store : now >= store[t].expires})
Fresh == calls + 1
Called == calls < MaxCalls /\ calls' = calls + 1

\* The client gets the page: it drops the token it paid with and holds the
\* next, with the bytes it has of every item. A fragment that does not begin
\* where the bytes it has end is of no use to it.
Joined(got, sent) ==
  FoldLeft(LAMBDA g, f : IF f.start = g[f.index] THEN [g EXCEPT ![f.index] = @ + f.bytes] ELSE g,
           got, sent)
Total(got) == FoldSeq(LAMBDA n, sum : n + sum, 0, got)
Holds(c, got, all) == [client |-> c, got |-> got, all |-> all, since |-> now]
Receives(paid, t, chain) == holds' = With(Without(holds, paid), t, chain)
Delivers(built, got, all) ==
  page' = [size |-> built.size, rest |-> built.rest,
           lost |-> all - Total(got) - RetainedBytes(built.rest)]
Misses(paid) == holds' = Without(holds, paid)
Drops(c, t) == Misses({t} \cap Owned(holds, c))
NoBytes == page' = NoPage

\* vault_read: the gate and the parameters; then the notes are read.
ReadBegins(c) ==
  /\ c \in sessions /\ reading[c] = NoRead
  /\ \E r \in Results : reading' = [reading EXCEPT ![c] = r]
  /\ NoBytes /\ UNCHANGED <<sessions, stores, holds, now, calls>>

\* issue: a chain is kept when more follows and the quota allows it. The
\* session may be gone by then.
OverCount(c, store, items) == Cardinality(Owned(store, c)) > MaxChains
OverQuota(c, store, items) ==
  \/ Cardinality(Owned(store, c)) >= MaxChains
  \/ RetainedBy(c, store) + RetainedBytes(items) > MaxBytes
Issue(c) ==
  LET items == FreezeItems(reading[c])
      built == BuildPage(items)
      got == Joined([i \in DOMAIN items |-> 0], built.sent)
      all == RetainedBytes(items)
  IN  /\ reading[c] # NoRead /\ Called /\ reading' = [reading EXCEPT ![c] = NoRead]
      /\ IF built.rest # <<>> /\ OverQuota(c, Live(active), built.rest)
         THEN active' = Live(active) /\ NoBytes /\ UNCHANGED holds
         ELSE /\ Delivers(built, got, all)
              /\ active' = IF built.rest = <<>> THEN Live(active)
                           ELSE With(Live(active), Fresh,
                                     [client |-> c, items |-> built.rest, expires |-> now + Lifetime])
              /\ IF c \in sessions /\ built.rest # <<>>
                 THEN Receives({}, Fresh, Holds(c, got, all)) ELSE Misses({})
      /\ UNCHANGED <<sessions, found, now>>

\* continue: any token a client may present; a stranger's is left alone.
Slides(t) == now + Lifetime
Continue(c, t) ==
  LET built == BuildPage(active[t].items)
      got == Joined(holds[t].got, built.sent)
      others == Without(Live(active), {t})
  IN  /\ c \in sessions /\ Called
      /\ IF t \in DOMAIN Live(active) /\ active[t].client = c /\ t \in DOMAIN holds
         THEN /\ Delivers(built, got, holds[t].all)
              /\ active' = IF built.rest = <<>> THEN others
                           ELSE With(others, Fresh, [client |-> c, items |-> built.rest,
                                                     expires |-> Slides(t)])
              /\ \/ built.rest # <<>> /\ Receives({t}, Fresh, Holds(c, got, holds[t].all))
                 \/ Misses({t})
         ELSE active' = Live(active) /\ Drops(c, t) /\ NoBytes
      /\ UNCHANGED <<sessions, reading, found, now>>

\* #consumePage: the rest of a discovery is kept unless the quota refuses it.
NotesOf(c, store) == FoldSet(LAMBDA t, n : store[t].size + n, 0, Owned(store, c))
Paged(end, size) == end = size
ConsumePage(c, store, paid, size, offset, got) ==
  LET end == Min({offset + PageItems, size})
  IN  IF \/ Paged(end, size)
         \/ Cardinality(Owned(store, c)) >= MaxChains
         \/ NotesOf(c, store) + size > MaxNotes
      THEN found' = store /\ Misses(paid)
      ELSE /\ found' = With(store, Fresh, [client |-> c, size |-> size, offset |-> end,
                                           expires |-> now + Lifetime])
           /\ \/ Receives(paid, Fresh, Holds(c, <<got + end - offset>>, size))
              \/ Misses(paid)

Discover(c) ==
  /\ c \in sessions /\ Called
  /\ \E size \in Sizes : ConsumePage(c, Live(found), {}, size, 0, 0)
  /\ NoBytes /\ UNCHANGED <<sessions, reading, active, now>>

DiscoverNext(c, t) ==
  /\ c \in sessions /\ Called
  /\ IF t \in DOMAIN Live(found) /\ found[t].client = c /\ t \in DOMAIN holds
     THEN ConsumePage(c, Without(Live(found), {t}), {t}, found[t].size, found[t].offset,
                      holds[t].got[1])
     ELSE found' = Live(found) /\ Drops(c, t)
  /\ NoBytes /\ UNCHANGED <<sessions, reading, active, now>>

\* The timer of a discovery; the other store has none.
DiscoveryExpires ==
  /\ found # Live(found) /\ found' = Live(found)
  /\ NoBytes /\ UNCHANGED <<sessions, reading, active, holds, now, calls>>

\* releaseSession: the transport closed, or the Bridge stops.
Releases(c) ==
  /\ active' = Without(Live(active), Owned(active, c))
  /\ found' = Without(found, Owned(found, c))
Release(c) ==
  /\ c \in sessions /\ sessions' = sessions \ {c} /\ Releases(c)
  /\ holds' = Without(holds, Owned(holds, c))
  /\ NoBytes /\ UNCHANGED <<reading, now, calls>>

Tick ==
  /\ now < MaxTime /\ now' = now + 1
  /\ NoBytes /\ UNCHANGED <<sessions, reading, stores, holds, calls>>

Next ==
  \/ \E c \in Clients :
       \/ ReadBegins(c) \/ Issue(c) \/ Discover(c) \/ Release(c)
       \/ \E t \in 1..calls : Continue(c, t) \/ DiscoverNext(c, t)
  \/ DiscoveryExpires \/ Tick
Spec == Init /\ [][Next]_vars

-----------------------------------------------------------------------------
\* Pages join: the fragments a client was given and the bytes its chain still
\* retains are the whole result, nothing twice and nothing skipped, and a last
\* page leaves nothing behind; a discovery goes on at the note its client is at.
PagesJoin ==
  /\ page.lost = 0
  /\ \A t \in DOMAIN holds \cap DOMAIN found : holds[t].got = <<found[t].offset>>

\* Every page is within the response limit, and no page has room for one more
\* character of the content that follows.
PagesAreFull ==
  /\ page.size <= Limit
  /\ page.rest # <<>> /\ page.rest[1].form # "whole" =>
       LET next == page.rest[1]
           begun == IF next.start > 0 THEN 0 ELSE ChunkCost
           last == Len(page.rest) = 1 /\ Len(next.widths) = 1
       IN  page.size + begun + next.widths[1] - (IF last THEN TokenCost ELSE 0) > Limit

\* A client never retains more than its quota, in either store.
QuotaHolds ==
  \A c \in Clients :
    /\ Cardinality(Owned(active, c)) <= MaxChains /\ RetainedBy(c, active) <= MaxBytes
    /\ Cardinality(Owned(found, c)) <= MaxChains /\ NotesOf(c, found) <= MaxNotes

\* The chains fit the tokens and the quotas.
Consistent == TypeOK /\ QuotaHolds

\* A token a client holds works until a whole lifetime has passed without use:
\* no other client, quota, expiry or teardown takes it away.
HeldTokensWork ==
  \A t \in DOMAIN holds :
    now < holds[t].since + Lifetime =>
      \/ t \in DOMAIN active /\ active[t].client = holds[t].client
      \/ t \in DOMAIN found /\ found[t].client = holds[t].client

\* A reader gets what it was promised: the pages of a chain are its result,
\* exactly, in as few pages as possible, and the token for the next one works.
ReadsComplete == PagesJoin /\ PagesAreFull /\ HeldTokensWork

\* What docs/spec/reliable-vault-operations-mvp.md 6.4 says: teardown releases
\* retained bytes at once.
TeardownReleases ==
  \A t \in DOMAIN active : active[t].client \in sessions
=============================================================================
