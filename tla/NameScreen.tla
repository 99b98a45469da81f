----------------------------- MODULE NameScreen -----------------------------
(* One name screened over the loaded lists (screeningEngine.ts, scoring.ts,  *)
(* lexicalIndex.ts and the merge of multiEngine.ts) and the verdict the page *)
(* shows (strictness.ts, Results of ScreenPage.tsx): candidates by vector    *)
(* and by words, a clamped weighted sum, a floor, the best K of every list   *)
(* and of all, the gate, and the bands on the screen.                        *)
(*                                                                           *)
(* A name is the sequence of its words.  What its letters add (the cosine of *)
(* its embedding, Ratcliff/Obershelp, fuzzball) is a fact about an entity    *)
(* for this query, chosen at the start.  Shares are percentages, and scores  *)
(* are in hundredths of a percent.  Equal scores are ordered in any way.     *)
EXTENDS Naturals, Integers, Sequences, FiniteSets, FiniteSetsExt

CONSTANTS Entry,      \* per entity: list, name, aliases, dobs, countries
          Queries,    \* what may be asked: name, dob, country
          Letters,      \* what the letters may say: cosine, sequence ratio, tier of an alias
          Titles,     \* words canonicalize() drops
          Sounds(_),  \* the phonetic keys of a word
          K, Overfetch, DfCap, MaxLexical, MaxKeys,  \* SEARCH_K and the engine's limits
          Override,   \* the floors of single lists, where the settings give one
          NoDob, NoCountry

Persons == DOMAIN Entry
Word == STRING

\* Whatever the letters say of two names is a share; a cosine may be below none.
ASSUME NameScreenAssumption ==
  /\ {K, Overfetch, DfCap, MaxLexical, MaxKeys} \subseteq Nat \ {0}
  /\ IsFiniteSet(Persons)
  /\ \A e \in Persons :
       /\ {Entry[e].name} \cup Entry[e].aliases \subseteq Seq(Word)
       /\ IsFiniteSet(Entry[e].countries)
  /\ \A q \in Queries : q.name \in Seq(Word)
  /\ Letters \subseteq [cosine : Int, sequence : 0..100, tier : 0..100]
  /\ \A l \in DOMAIN Override : Override[l] \in Nat

VARIABLES asked,  \* the query, its level and what the letters say
          step, todo,      \* where the screen is, and the lists it has still to visit
          hits,   \* of the list being screened: ids by vector and by words
          found,  \* matches of the lists screened so far, then the best of them
          shown   \* the bands on the screen

nameVars == <<asked, step, todo, hits, found, shown>>

ListsAsked == {Entry[e].list : e \in Persons}
In(l) == {e \in Persons : Entry[e].list = l}
Smaller(a, b) == IF a < b THEN a ELSE b
Larger(a, b) == IF a < b THEN b ELSE a
Words(n) == {n[i] : i \in DOMAIN n}

\* the best n of S; those of equal worth are ordered in any way
Best(S, worth, n) ==
  {T \in SUBSET S : /\ Cardinality(T) = Smaller(n, Cardinality(S))
                    /\ \A x \in T, y \in S \ T : worth[x] >= worth[y]}

-----------------------------------------------------------------------------
(* Names and dates of birth.                                                 *)

Canonical(n) ==
  LET Kept[i \in 0..Len(n)] ==
        IF i = 0 THEN <<>> ELSE IF n[i] \in Titles THEN Kept[i - 1] ELSE Append(Kept[i - 1], n[i])
  IN  Kept[Len(n)]
Query == Canonical(asked.query.name)
NamesOf(e) == {Entry[e].name} \cup Entry[e].aliases

\* normalizeDob: the parts a written date gives, as far as they are valid
IsoPrefix(d) ==
  IF d = NoDob \/ d[1] \notin 1850..2100 THEN NoDob
  ELSE IF Len(d) >= 2 /\ d[2] \notin 1..12 THEN NoDob
  ELSE IF Len(d) = 3 /\ d[3] \notin 1..31 THEN NoDob ELSE d

Occurrences(n, w) == Cardinality({i \in DOMAIN n : n[i] = w})
SameWords(m, n) ==
  Len(m) = Len(n) /\ \A w \in Words(m) \cup Words(n) : Occurrences(m, w) = Occurrences(n, w)
Includes(n, m) == \E i \in 0..Len(n) - Len(m) : SubSeq(n, i + 1, i + Len(m)) = m

-----------------------------------------------------------------------------
(* Scoring.                                                                  *)

Weight == [vector |-> 55, sequence |-> 20, alias |-> 35, dob |-> 10, country |-> 5]
\* the levels of the page: the floor of the score, the gate, the display line
Level == [lenient  |-> [floor |-> 3000, minLexical |-> 0,  line |-> 0],
          balanced |-> [floor |-> 3000, minLexical |-> 35, line |-> 4000],
          strict   |-> [floor |-> 4000, minLexical |-> 50, line |-> 0]]
Clamped(x, top) == Larger(0, Smaller(top, x))

\* aliasTier: what the words prove, or what the letters suggest
AliasTierInOrder(e, n) ==  \* mutant: the words must come in the order of the feed
  IF n = Query THEN 100 ELSE IF Includes(n, Query) \/ Includes(Query, n) THEN 50 ELSE asked.letters[e].tier
AliasTier(e, n) ==
  IF n = Query \/ SameWords(n, Query) THEN 100
  ELSE IF Includes(n, Query) \/ Includes(Query, n) THEN Larger(50, asked.letters[e].tier)
  ELSE asked.letters[e].tier
AliasMatch(e) == Max({AliasTier(e, n) : n \in Entry[e].aliases} \cup {0})

\* bestNameSimilarity
Sequence(e) == IF Query \in NamesOf(e) THEN 100 ELSE asked.letters[e].sequence

\* dobMatch: the first date of the entity that is the date or has its year decides
DobMatch(e) ==
  LET d == IsoPrefix(asked.query.dob)  ds == Entry[e].dobs
      near == IF d = NoDob THEN {} ELSE {i \in DOMAIN ds : ds[i][1] = d[1]}
  IN  IF near = {} THEN 0
      ELSE IF ds[CHOOSE i \in near : \A j \in near : i <= j] = d THEN 100 ELSE 50
CountryMatch(e) ==
  IF asked.query.country \in Entry[e].countries THEN 100 \div Cardinality(Entry[e].countries) ELSE 0

\* computeScore
Score(e) ==
  Clamped(Weight.vector * Clamped(asked.letters[e].cosine, 100) + Weight.sequence * Sequence(e)
          + Weight.alias * AliasMatch(e) + Weight.dob * DobMatch(e)
          + Weight.country * CountryMatch(e), 10000)
Scores == [e \in Persons |-> Score(e)]

Floor(l) == IF l \in DOMAIN Override THEN Override[l] ELSE Level[asked.level].floor
\* classifyTier, stamped on a match under the floor of its list
Tier(e) ==
  IF Score(e) >= 8000 THEN "STRONG" ELSE IF Score(e) >= Floor(Entry[e].list) THEN "POSSIBLE" ELSE "WEAK"

-----------------------------------------------------------------------------
(* Retrieval, list by list.                                                  *)

KeysOf(w) == {<<"token", w>>} \cup {<<"phonetic", s>> : s \in Sounds(w)}
NamesOfPrimary(e) == {Entry[e].name}  \* mutant: aliases carry no keys
KeyedNames(e) == NamesOf(e)
EntityKeys(e) == UNION {KeysOf(w) : w \in UNION {Words(n) : n \in KeyedNames(e)}}
\* lexicalKeysForQuery: word by word, its phonetic keys after it, up to a number
QueryKeys ==
  LET Before(i) == UNION {KeysOf(Query[j]) : j \in 1..i - 1}
      Fits(i, key) ==
        LET earlier == Before(i) \cup (IF key[1] = "token" THEN {} ELSE {<<"token", Query[i]>>})
        IN  key \in earlier \/ Cardinality(earlier) < MaxKeys
  IN  UNION {{key \in KeysOf(Query[i]) : Fits(i, key)} : i \in DOMAIN Query}
\* lookupIds: a key that more than DfCap entities of the list carry reaches none
Reached(l, keys) ==
  UNION {LET S == {e \in In(l) : key \in EntityKeys(e)}
         IN  IF Cardinality(S) <= DfCap THEN S ELSE {} : key \in keys}
\* #closest, by token_set over the published names: all the words of one in the other
Closeness(e) ==
  IF \E n \in NamesOf(e) : Words(n) \subseteq Words(Query) \/ Words(Query) \subseteq Words(n)
  THEN 100 ELSE asked.letters[e].sequence
LexicalSets(l) == Best(Reached(l, QueryKeys), [e \in Persons |-> Closeness(e)], MaxLexical)

NameInit ==
  /\ asked \in [query : Queries, level : DOMAIN Level, letters : [Persons -> Letters]]
  /\ step = "search" /\ todo = ListsAsked
  /\ hits = [list |-> NoDob, vector |-> {}, lexical |-> {}]
  /\ found = {} /\ shown = [primary |-> {}, low |-> {}, capped |-> FALSE]

\* index.search: the nearest, without a floor
SearchesVectors(l) ==
  /\ step = "search" /\ l \in todo
  /\ \E T \in Best(In(l), [e \in Persons |-> asked.letters[e].cosine], K * Overfetch) :
       hits' = [list |-> l, vector |-> T, lexical |-> {}]
  /\ step' = "lookup" /\ UNCHANGED <<asked, todo, found, shown>>
LooksUpWords ==
  /\ step = "lookup"
  /\ \E T \in LexicalSets(hits.list) : hits' = [hits EXCEPT !.lexical = T]
  /\ step' = "score" /\ UNCHANGED <<asked, todo, found, shown>>

\* #provenance: a word or a sound is named only if it delivered the candidate
ViaOf(e) ==
  {c \in {"vector", "token", "phonetic"} :
     IF c = "vector" THEN e \in hits.vector
     ELSE e \in hits.lexical /\ e \in Reached(hits.list, {key \in QueryKeys : key[1] = c})}
\* #scoreCandidates, the sort and the cut of one list
ScoresList ==
  /\ step = "score"
  /\ \E T \in Best({e \in hits.vector \cup hits.lexical : Score(e) >= Floor(hits.list)}, Scores, K) :
       found' = found \cup {[id |-> e, via |-> ViaOf(e)] : e \in T}
  /\ todo' = todo \ {hits.list} /\ step' = IF todo' = {} THEN "merge" ELSE "search"
  /\ UNCHANGED <<asked, hits, shown>>
\* #screenNow: the best of all lists
Merges ==
  /\ step = "merge"
  /\ \E T \in Best({m.id : m \in found}, Scores, K) : found' = {m \in found : m.id \in T}
  /\ step' = "present" /\ UNCHANGED <<asked, todo, hits, shown>>

-----------------------------------------------------------------------------
(* The page.                                                                 *)

Raw == {m.id : m \in found}
\* hasTokenContainment, over every published name
SharesWord(e) == \E n \in NamesOf(e) : Words(Canonical(n)) \cap Words(Query) # {}
Passes(e) == Sequence(e) >= Level[asked.level].minLexical \/ SharesWord(e)
Above(e) == Score(e) >= Level[asked.level].line
\* runSearch's filter, then partitionForPresentation
Presents ==
  /\ step = "present" /\ step' = "shown"
  /\ shown' = [primary |-> {e \in Raw : Passes(e) /\ Above(e)},
               low     |-> {e \in Raw : Passes(e) /\ ~Above(e) /\ SharesWord(e)},
               capped  |-> Cardinality(Raw) = K]
  /\ UNCHANGED <<asked, todo, hits, found>>

NameNext == (\E l \in ListsAsked : SearchesVectors(l)) \/ LooksUpWords \/ ScoresList \/ Merges \/ Presents
NameSpec == NameInit /\ [][NameNext]_nameVars

-----------------------------------------------------------------------------
(* Properties.                                                               *)

NameTypeOK ==
  /\ todo \subseteq ListsAsked /\ Raw \subseteq Persons
  /\ step \in {"search", "lookup", "score", "merge", "present", "shown"}

\* whose published alias the query is, its words in any order, and who is reached by a
\* word of it that is rare enough
Published(e) == Query # <<>> /\ \E n \in Entry[e].aliases : SameWords(n, Query)
Reachable(e) ==
  LET l == Entry[e].list IN
  /\ e \in Reached(l, QueryKeys) /\ Cardinality(Reached(l, QueryKeys)) <= MaxLexical
Outranked(e) == shown.capped /\ \A x \in Raw : Score(x) >= Score(e)

\* scoring.ts:44-50: below Strict one published alias is enough. Whoever goes by the name
\* that was typed is on the screen, whatever its embedding and its other names look like,
\* unless K better candidates were compared (and the note of the cut is due).
PublishedAliasIsListed ==
  step = "shown" /\ asked.level # "strict" =>
    \A e \in Persons :
      Published(e) /\ Reachable(e) /\ Floor(Entry[e].list) <= 3500 =>
        e \in shown.primary \cup shown.low \/ Outranked(e)
=============================================================================
