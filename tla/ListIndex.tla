----------------------------- MODULE ListIndex -----------------------------
(* The query index of a list (engine/vectorIndex.ts): an SQLite file on OPFS *)
(* that one tab at a time may hold open, filled with the rows of a verified  *)
(* list, each marked with the identity of the whole content; a database in   *)
(* memory where the file cannot be opened.  A tab may close in the middle of *)
(* anything, an index be disposed of while it opens, and a query be under    *)
(* way while it is.  The SQLite worker is not under src: it holds rows,      *)
(* inserts a batch in one transaction and lets its file go when it ends.     *)
EXTENDS Naturals, FiniteSets

CONSTANTS Tab, List,
          Content,    \* what the signed bundles of a list may hold
          RowsOf(_),  \* the rows of a content: their ids, vectors and lookup keys
          Handle,     \* the indexes alive at a time
          NoHandle, NoContent,
          BatchSize,  \* INSERT_BATCH_SIZE
          MaxLoads    \* bound: the loads of all tabs

ASSUME IndexAssumption ==
  /\ BatchSize \in Nat \ {0} /\ MaxLoads \in Nat
  /\ NoHandle \notin Handle /\ \A c \in Content : IsFiniteSet(RowsOf(c))

VARIABLES file,   \* per list: the marked rows in its file
          holder, \* per list: the index that has its file open
          index,  \* per handle: an index and its one query
          told,   \* per tab: the lists it says are in memory, and the storage it names
          loads,
          seen    \* auxiliary: the rows an answered query ran over, and those it was to

indexVars == <<file, holder, index, told, loads, seen>>

NoIndex == [tab |-> NoHandle, list |-> NoHandle, content |-> NoContent, at |-> "none",
            on |-> "opfs", rows |-> {}, left |-> {}, disposed |-> FALSE, query |-> "none"]

IndexInit ==
  /\ file = [l \in List |-> {}] /\ holder = [l \in List |-> NoHandle]
  /\ index = [h \in Handle |-> NoIndex]
  /\ told = [t \in Tab |-> [lists |-> {}, mode |-> "pending"]]
  /\ loads = 0 /\ seen = {}

\* contentMarker: the bundle's identity, and every id, lookup key and vector
MarkerOfVectors(c) == {<<r.id, r.vec>> : r \in RowsOf(c)}  \* mutant: the scheme before v2
Marker(c) == <<c, RowsOf(c)>>
Marked(rows, c) == {[row |-> r, mark |-> Marker(c)] : r \in rows}
Plain(marked) == {m.row : m \in marked}

Stored(h) == IF index[h].on = "opfs" THEN file[index[h].list] ELSE index[h].rows
At(h, at) == index[h].at = at
Writes(h, rows, next) ==
  IF index[h].on = "opfs"
  THEN file' = [file EXCEPT ![index[h].list] = rows] /\ index' = [index EXCEPT ![h] = next]
  ELSE UNCHANGED file /\ index' = [index EXCEPT ![h] = [next EXCEPT !.rows = rows]]

-----------------------------------------------------------------------------
(* Opening.                                                                  *)

\* the constructor; a tab loads a list again once it has disposed of its index
Load(t, l, c, h) ==
  /\ At(h, "none") /\ loads < MaxLoads /\ loads' = loads + 1
  /\ ~\E g \in Handle : index[g].tab = t /\ index[g].list = l /\ ~index[g].disposed
  /\ index' = [index EXCEPT ![h] = [NoIndex EXCEPT !.tab = t, !.list = l, !.content = c, !.at = "opening"]]
  /\ UNCHANGED <<file, holder, told, seen>>

\* openWithMemoryFallback: the worker takes the file, and later the tab is told
TakesFile(h) ==
  /\ At(h, "opening") /\ holder[index[h].list] = NoHandle
  /\ holder' = [holder EXCEPT ![index[h].list] = h]
  /\ index' = [index EXCEPT ![h].at = "opened"]
  /\ UNCHANGED <<file, told, loads, seen>>
\* held by another index, or OPFS refused for another reason
FallsBack(h) ==
  /\ At(h, "opening")
  /\ index' = [index EXCEPT ![h].at = "opened", ![h].on = "memory"]
  /\ UNCHANGED <<file, holder, told, loads, seen>>
\* setStorage
Flagged(t, l, on) ==
  LET lists == IF on = "memory" THEN told[t].lists \cup {l} ELSE told[t].lists \ {l}
  IN  [lists |-> lists, mode |-> IF lists # {} THEN "memory" ELSE on]
Tells(h) ==
  /\ At(h, "opened")
  /\ told' = [told EXCEPT ![index[h].tab] = Flagged(index[h].tab, index[h].list, index[h].on)]
  /\ index' = [index EXCEPT ![h].at = "checking"]
  /\ UNCHANGED <<file, holder, loads, seen>>
\* neither opens: the promise of the index rejects
OpenFails(h) ==
  /\ At(h, "opening") /\ index' = [index EXCEPT ![h].at = "failed"]
  /\ UNCHANGED <<file, holder, told, loads, seen>>

-----------------------------------------------------------------------------
(* Filling: #initialize.                                                     *)

\* holdsExactly: every row, and nothing else, was written for this content
HoldsExactly(h) ==
  LET n == Cardinality(RowsOf(index[h].content)) IN
  /\ n > 0 /\ Cardinality(Stored(h)) = n
  /\ Cardinality({m \in Stored(h) : m.mark = Marker(index[h].content)}) = n
Reuses(h) ==
  /\ At(h, "checking") /\ HoldsExactly(h)
  /\ index' = [index EXCEPT ![h].at = "ready"]
  /\ UNCHANGED <<file, holder, told, loads, seen>>
\* any doubt, a file that cannot be read among them
Clears(h) ==
  /\ At(h, "checking")
  /\ Writes(h, {}, [index[h] EXCEPT !.at = "inserting", !.left = RowsOf(index[h].content)])
  /\ UNCHANGED <<holder, told, loads, seen>>
\* the next batch (which ids come first is all the same here)
Batches(S) ==
  {B \in SUBSET S : Cardinality(B) = IF Cardinality(S) < BatchSize THEN Cardinality(S) ELSE BatchSize}
Inserts(h) ==
  /\ At(h, "inserting") /\ index[h].left # {}
  /\ \E B \in Batches(index[h].left) :
       Writes(h, Stored(h) \cup Marked(B, index[h].content), [index[h] EXCEPT !.left = @ \ B])
  /\ UNCHANGED <<holder, told, loads, seen>>
Completes(h) ==
  /\ At(h, "inserting") /\ index[h].left = {}
  /\ index' = [index EXCEPT ![h].at = "ready"]
  /\ UNCHANGED <<file, holder, told, loads, seen>>
Released(h) == [l \in List |-> IF holder[l] = h THEN NoHandle ELSE holder[l]]
\* whatever fails on the way ends the worker and rejects
InitFails(h) ==
  /\ index[h].at \in {"checking", "inserting"}
  /\ index' = [index EXCEPT ![h].at = "failed", ![h].rows = {}, ![h].left = {}]
  /\ holder' = Released(h) /\ UNCHANGED <<file, told, loads, seen>>

-----------------------------------------------------------------------------
(* Using and ending.                                                         *)

\* search, searchByIds and lookupIds: not on an index that was disposed of, ...
Asks(h) ==
  /\ index[h].at \notin {"none", "ended"} /\ ~index[h].disposed /\ index[h].query = "none"
  /\ index' = [index EXCEPT ![h].query = "waiting"]
  /\ UNCHANGED <<file, holder, told, loads, seen>>
\* ... nor on one that was by the time it was ready
Sends(h) ==
  /\ index[h].query = "waiting" /\ At(h, "ready") /\ ~index[h].disposed
  /\ index' = [index EXCEPT ![h].query = "sent"]
  /\ UNCHANGED <<file, holder, told, loads, seen>>
Refuses(h) ==
  /\ index[h].query = "waiting"
  /\ index[h].at \in {"failed", "ended"} \/ (At(h, "ready") /\ index[h].disposed)
  /\ index' = [index EXCEPT ![h].query = "none"]
  /\ UNCHANGED <<file, holder, told, loads, seen>>
Answers(h) ==
  /\ index[h].query = "sent" /\ At(h, "ready")
  /\ index' = [index EXCEPT ![h].query = "none"]
  /\ seen' = seen \cup {[of |-> index[h].content, rows |-> Plain(Stored(h))]}
  /\ UNCHANGED <<file, holder, told, loads>>

\* dispose(): the worker ends once the index is ready
Disposes(h) ==
  /\ index[h].at # "none" /\ ~index[h].disposed
  /\ index' = [index EXCEPT ![h].disposed = TRUE]
  /\ UNCHANGED <<file, holder, told, loads, seen>>
EndsWorker(h) ==
  /\ index[h].disposed /\ At(h, "ready")
  /\ index' = [index EXCEPT ![h].at = "ended", ![h].rows = {}]
  /\ holder' = Released(h) /\ UNCHANGED <<file, told, loads, seen>>
\* nothing of it is left, its query under way rejected with the worker
Vanishes(h) ==
  /\ index[h].disposed /\ index[h].at \in {"failed", "ended"} /\ index[h].query # "waiting"
  /\ index' = [index EXCEPT ![h] = NoIndex]
  /\ UNCHANGED <<file, holder, told, loads, seen>>

\* the tab closes or crashes: a file keeps the rows that were committed
Leaves(t) ==
  /\ \E h \in Handle : index[h].tab = t
  /\ index' = [h \in Handle |-> IF index[h].tab = t THEN NoIndex ELSE index[h]]
  /\ holder' = [l \in List |-> IF holder[l] # NoHandle /\ index[holder[l]].tab = t
                               THEN NoHandle ELSE holder[l]]
  /\ told' = [told EXCEPT ![t] = [lists |-> {}, mode |-> "pending"]]
  /\ UNCHANGED <<file, loads, seen>>

IndexNext ==
  \/ \E t \in Tab, l \in List, c \in Content, h \in Handle : Load(t, l, c, h)
  \/ \E h \in Handle :
       \/ TakesFile(h) \/ FallsBack(h) \/ Tells(h) \/ OpenFails(h)
       \/ Reuses(h) \/ Clears(h) \/ Inserts(h) \/ Completes(h) \/ InitFails(h)
       \/ Asks(h) \/ Sends(h) \/ Refuses(h) \/ Answers(h)
       \/ Disposes(h) \/ EndsWorker(h) \/ Vanishes(h)
  \/ \E t \in Tab : Leaves(t)
IndexSpec == IndexInit /\ [][IndexNext]_indexVars

-----------------------------------------------------------------------------
(* Properties.                                                               *)

IndexTypeOK ==
  /\ loads \in 0..MaxLoads
  /\ \A l \in List : holder[l] # NoHandle => index[holder[l]].list = l /\ index[holder[l]].on = "opfs"

\* vectorIndex.ts:145-149: a query is answered from the rows of the list its engine was
\* loaded with, all of them and no other, whatever an earlier load, of this tab or another,
\* left in the file, and however far it had come.
QueriesSeeTheList == \A s \in seen : s.rows = RowsOf(s.of)

\* vectorIndex.ts:32-34: a tab with an index in memory says so. It does not hold: an index
\* that was given up while it opened is heard of late, and takes the flag of its successor.
MemoryIsTold ==
  \A h \in Handle : index[h].on = "memory" /\ ~index[h].disposed
                      /\ index[h].at \in {"checking", "inserting", "ready"} =>
    index[h].list \in told[index[h].tab].lists /\ told[index[h].tab].mode = "memory"
=============================================================================
