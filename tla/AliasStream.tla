----------------------------- MODULE AliasStream -----------------------------
(* The aliases of the OFAC list, taken from a feed that is never held whole  *)
(* (sources/sdnAliases.ts).  The feed is a sequence of symbols; a tag is two *)
(* of them, so that a chunk may end inside it, and a name is one letter, the *)
(* script's.  The stream is cut into chunks anywhere; a window keeps what a  *)
(* record that is not complete yet may still need.                           *)
EXTENDS Naturals, Sequences

CONSTANTS AliasFeeds,  \* the feeds of this instance
          PartyRefs,   \* the entity numbers in them
          MaxChunk,    \* bound: symbols in a chunk
          MaxFeed,     \* maxBytes
          MaxWindow    \* maxWindowChars

ASSUME AliasAssumption ==
  /\ AliasFeeds \subseteq Seq(STRING)
  /\ MaxChunk \in Nat \ {0} /\ {MaxFeed, MaxWindow} \subseteq Nat

PartyOpen    == <<"<", "P">>   \* <DistinctParty FixedRef=
PartyClose   == <<"/", "P">>   \* </DistinctParty>
ScriptsClose == <<"/", "S">>   \* </ScriptValues>
Latin   == "l"
Script == {"l", "c", "a"}

VARIABLES feed,     \* what the server sends
          at,       \* how much of it has come
          window,   \* the symbols kept
          scripts,  \* the letters the reference data names, once it has passed, or NotRead
          aliases,  \* the collector: the names of every party
          outcome   \* "reading", "done" or "refused"

streamVars == <<feed, at, window, scripts, aliases, outcome>>
NotRead == {"unread"}
NoAliases == [r \in PartyRefs |-> {}]

StreamTypeOK ==
  /\ feed \in AliasFeeds /\ at \in 0..Len(feed) /\ outcome \in {"reading", "done", "refused"}
  /\ window \in Seq(STRING)
  /\ scripts = NotRead \/ scripts \subseteq Script
  /\ aliases \in [PartyRefs -> SUBSET Script]

-----------------------------------------------------------------------------
\* The positions of a tag in s, and the first of them from i on.
TagsIn(s, tag) == {k \in 1..Len(s) - 1 : s[k] = tag[1] /\ s[k + 1] = tag[2]}
FirstFrom(s, tag, i) ==
  LET hits == {k \in TagsIn(s, tag) : k >= i}
  IN IF hits = {} THEN 0 ELSE CHOOSE k \in hits : \A j \in hits : k <= j

ScriptNames(s) == {s[k] : k \in 1..Len(s)} \cap Script

\* The names of a block, but those that are known to be in Latin script.
NamesIn(block, known) == ({block[k] : k \in 1..Len(block)} \cap Script) \ ({Latin} \cap known)

\* Mutant of Leftover: nothing is kept when no record starts in the window.
LeftoverDropped(s, from) == <<>>

\* No record starts in s from there on: what may be the head of a split tag is kept.
Leftover(s, from) ==
  LET keep == Len(s) - Len(PartyOpen) + 1
  IN SubSeq(s, IF keep > from THEN keep ELSE from, Len(s))

\* The complete parties of s are collected; what is left becomes the window.
Drained(s, known, found) ==
  LET Drain[cursor \in 1..Len(s) + 1] ==
        LET start == FirstFrom(s, PartyOpen, cursor)
            end == FirstFrom(s, PartyClose, start)
            ref == s[start + Len(PartyOpen)]
            block == SubSeq(s, start + Len(PartyOpen) + 1, end - 1)
        IN IF start = 0 THEN [left |-> Leftover(s, cursor), found |-> found]
           ELSE IF end = 0 THEN [left |-> SubSeq(s, start, Len(s)), found |-> found]
           ELSE [left |-> Drain[end + Len(PartyClose)].left,
                 found |-> [Drain[end + Len(PartyClose)].found EXCEPT ![ref] = @ \cup NamesIn(block, known)]]
  IN Drain[1]

-----------------------------------------------------------------------------
StreamInit ==
  /\ feed \in AliasFeeds
  /\ at = 0 /\ window = <<>> /\ scripts = NotRead /\ aliases = NoAliases /\ outcome = "reading"

\* A chunk comes: the window grows, the reference data is read off once it is complete, and
\* what can be consumed is. A bound that is passed refuses the feed.
StreamChunk(n) ==
  LET grown == window \o SubSeq(feed, at + 1, at + n)
      close == FirstFrom(grown, ScriptsClose, 1)
      known == IF scripts # NotRead THEN scripts
               ELSE IF close = 0 THEN NotRead ELSE ScriptNames(SubSeq(grown, 1, close - 1))
      next == IF known = NotRead THEN [left |-> grown, found |-> aliases]
                                ELSE Drained(grown, known, aliases)
  IN /\ outcome = "reading" /\ n \in 1..MaxChunk /\ at + n <= Len(feed)
     /\ at' = at + n
     /\ IF at + n > MaxFeed THEN outcome' = "refused" /\ UNCHANGED <<window, scripts, aliases>>
        ELSE /\ window' = next.left /\ scripts' = known /\ aliases' = next.found
             /\ outcome' = IF Len(next.left) > MaxWindow THEN "refused" ELSE "reading"
     /\ UNCHANGED feed

\* The end of the body, after which the window is drained once more.
StreamEnds ==
  /\ outcome = "reading" /\ at = Len(feed) /\ outcome' = "done"
  /\ aliases' = IF scripts = NotRead THEN aliases ELSE Drained(window, scripts, aliases).found
  /\ UNCHANGED <<feed, at, window, scripts>>

\* The body breaks, or exceeds a limit of its reader.
StreamBreaks == /\ outcome = "reading" /\ outcome' = "refused"
                /\ UNCHANGED <<feed, at, window, scripts, aliases>>

StreamNext == (\E n \in 1..MaxChunk : StreamChunk(n)) \/ StreamEnds \/ StreamBreaks

StreamSpec == StreamInit /\ [][StreamNext]_streamVars

-----------------------------------------------------------------------------
\* What a feed says, read whole (parseNonLatinAliases): a party begins at o when none that
\* was opened before is still open, and ends at the next close; k lies in it.
Begins(f, o) ==
  \A p \in TagsIn(f, PartyOpen) : p < o => \E d \in TagsIn(f, PartyClose) : p < d /\ d < o
Holds(f, o, k) ==
  /\ o \in TagsIn(f, PartyOpen) /\ Begins(f, o) /\ o + Len(PartyOpen) < k
  /\ \A d \in TagsIn(f, PartyClose) : ~(o < d /\ d < k)
  /\ \E d \in TagsIn(f, PartyClose) : k < d

\* The names of r, but those that the reference data declares to be Latin.
Said(f, r) ==
  LET known == ScriptNames(SubSeq(f, 1, FirstFrom(f, ScriptsClose, 1) - 1))
  IN {c \in Script \ ({Latin} \cap known) :
        \E k \in 1..Len(f) : f[k] = c /\ \E o \in 1..k : Holds(f, o, k) /\ f[o + Len(PartyOpen)] = r}

\* However the network cuts the feed, a stream that is read to its end yields for every
\* entity exactly the names its party holds in the feed read whole: no name is lost or put
\* on another entity where a tag, a record or the reference data is split between chunks
\* (sdnAliases.ts:171-173, one implementation for both forms).
StreamFindsTheWhole ==
  outcome = "done" => \A r \in PartyRefs : aliases[r] = Said(feed, r)
=============================================================================
