---------------------------- MODULE InstallKeys ----------------------------
(***************************************************************************)
(* The signing key of an installation, shared by the tabs of one origin    *)
(* (engine/installKey.ts over engine/installKeyStore.ts).  The key is one  *)
(* SQLite row on OPFS; every operation is one session, and an origin-wide  *)
(* Web Lock admits one session at a time.  A tab keeps the promise of the  *)
(* key it loaded until a change is announced to it.  Earlier releases kept *)
(* the seed, and a note about a corrupt one, in localStorage: a load moves *)
(* both into SQLite.                                                       *)
(*                                                                         *)
(* A session is cut into the commits of its statements and its turns on    *)
(* localStorage: the tab may close, or the database fail, between any two. *)
(***************************************************************************)
EXTENDS Naturals

CONSTANTS
    Tab,            \* the tabs of the origin
    Key,            \* seeds, each with the public key it derives
    Id,             \* bound: names of calls in flight
    NoKey,          \* no row, no entry, no promise
    Corrupt,        \* an old seed that is not 64 hex digits
    NoDb,           \* the tab works on OPFS
    NoCall,         \* nobody holds the lock
    Refused,        \* the tabs that OPFS may be refused to
    Changer,        \* bound: the tabs whose user resets or imports
    OldNotes,       \* whether an installation may begin with an old note
    MaxInbox        \* bound: announcements under way to a tab

ASSUME InstallKeysAssumption ==
    /\ NoKey \notin Key /\ Corrupt \notin Key /\ NoDb \notin Key /\ NoKey \notin Tab
    /\ NoKey # Corrupt /\ NoKey # NoDb
    /\ Id \cap (Key \cup {NoKey}) = {} /\ NoCall \notin Id
    /\ Refused \subseteq Tab /\ Changer \subseteq Tab
    /\ OldNotes \subseteq BOOLEAN /\ MaxInbox \in Nat

VARIABLES
    row,         \* the install_key row on OPFS
    quarantine,  \* what install_key_quarantine records on OPFS
    seed, note,  \* localStorage: the old seed; whether there is an old note
    holder,      \* the call whose session holds the lock
    call,        \* call[i]: its tab, operation and place, and the key it has
    memory,      \* memory[t]: the row of t's in-memory database, if it has one
    cached,      \* cached[t]: the key, the load that is to bring it, or NoKey
    inbox,       \* inbox[t]: announcements t has not received yet
    used,        \* auxiliary: every key there ever was
    past         \* auxiliary: what has happened, see Past

origin == <<row, quarantine, seed, note>>
tabs   == <<memory, cached, inbox>>
keysVars   == <<origin, holder, call, tabs, used, past>>

(* The localStorage entries an installation began with; whether a reset or *)
(* an import has been carried out; the keys resets removed; whether the    *)
(* last change was never announced.                                        *)
Past == [seed : Key \cup {NoKey, Corrupt}, note : BOOLEAN, replaced : BOOLEAN,
         gone : SUBSET Key, untold : BOOLEAN]

Step == {"free", "opening", "waiting", "open", "noted", "copied", "marked",
         "keyless", "changed", "closing", "announce"}
FreeCall == [tab |-> NoKey, op |-> "load", step |-> "free", key |-> NoKey]
InSession == {"open", "noted", "copied", "marked", "keyless", "changed", "closing"}

Call == [tab : Tab \cup {NoKey}, op : {"load", "reset", "import"},
         step : Step, key : Key \cup {NoKey}]

(* Whose call it is; and a load that closes has a key, whatever it found.  *)
WellFormed(c) ==
    /\ c.step # "free" => c.tab \in Tab
    /\ c.op = "load" /\ c.step \in {"copied", "closing"} => c.key \in Key
    /\ c.op = "import" => c.step \in {"changed", "closing", "announce"} \/ c.key \in Key

KeysTypeOK ==
    /\ row \in Key \cup {NoKey}
    /\ quarantine \in SUBSET {"seed", "note"}
    /\ seed \in Key \cup {NoKey, Corrupt} /\ note \in BOOLEAN
    /\ holder \in Id \cup {NoCall}
    /\ call \in [Id -> Call] /\ \A i \in Id : WellFormed(call[i])
    /\ memory \in [Tab -> Key \cup {NoKey, NoDb}]
    /\ cached \in [Tab -> Key \cup {NoKey} \cup Id]
    /\ inbox \in [Tab -> 0..MaxInbox]
    /\ used \in SUBSET Key /\ past \in Past

KeysInit ==
    /\ row \in Key \cup {NoKey}
    /\ seed \in Key \cup {NoKey, Corrupt} /\ note \in OldNotes
    /\ quarantine = {}
    /\ holder = NoCall
    /\ call = [i \in Id |-> FreeCall]
    /\ memory = [t \in Tab |-> NoDb]
    /\ cached = [t \in Tab |-> NoKey]
    /\ inbox = [t \in Tab |-> 0]
    /\ used = {row, seed} \cap Key
    /\ past = [seed |-> seed, note |-> note, replaced |-> FALSE, gone |-> {}, untold |-> FALSE]

-----------------------------------------------------------------------------
(* The database a tab works on. *)
OnOpfs(t) == memory[t] = NoDb
HeldBy(t) == IF OnOpfs(t) THEN row ELSE memory[t]

Holds(t, k) ==
    IF OnOpfs(t) THEN row' = k /\ UNCHANGED memory
                 ELSE memory' = [memory EXCEPT ![t] = k] /\ UNCHANGED row

(* insertIfAbsent: the row that is there wins.                             *)
Inserted(t, k) == IF HeldBy(t) = NoKey THEN k ELSE HeldBy(t)

(* quarantine(): a record about the corrupt value, never the value.        *)
Records(t, what) ==
    quarantine' = IF OnOpfs(t) THEN quarantine \cup {what} ELSE quarantine

CanRetireAlways(t) == TRUE    \* mutant: also out of a tab that works in memory
CanRetire(t) == OnOpfs(t)

(* retireLegacy: the browser may refuse to remove an entry; that is logged *)
(* and left to the next load.                                              *)
Removes(entry, none) == entry' \in {none, entry}

At(i, op, step) == call[i].op = op /\ call[i].step = step

Moves(i, step, k) == call' = [call EXCEPT ![i].step = step, ![i].key = k]

-----------------------------------------------------------------------------
(* The calls *)

Calls(i, t, op, step, k) ==
    /\ call[i].step = "free"
    /\ call' = [call EXCEPT ![i] = [tab |-> t, op |-> op, step |-> step, key |-> k]]

(* load(), when there is no promise to share.                              *)
Load(i, t) ==
    /\ cached[t] = NoKey
    /\ Calls(i, t, "load", "waiting", NoKey)
    /\ cached' = [cached EXCEPT ![t] = i]
    /\ UNCHANGED <<origin, holder, memory, inbox, used, past>>

Reset(i, t) ==
    /\ t \in Changer
    /\ Calls(i, t, "reset", "waiting", NoKey)
    /\ UNCHANGED <<origin, holder, tabs, used, past>>

(* importEncrypted: a Worker decrypts the file, which holds key k, ...     *)
Import(i, t, k) ==
    /\ t \in Changer
    /\ Calls(i, t, "import", "opening", k)
    /\ used' = used \cup {k}
    /\ UNCHANGED <<origin, holder, tabs, past>>

FileOpens(i) ==
    /\ call[i].step = "opening"
    /\ Moves(i, "waiting", call[i].key)
    /\ UNCHANGED <<origin, holder, tabs, used, past>>

(* ... or refuses it, fails, or is given up after its time.                *)
FileRefused(i) ==
    /\ call[i].step = "opening"
    /\ call' = [call EXCEPT ![i] = FreeCall]
    /\ UNCHANGED <<origin, holder, tabs, used, past>>

(* The lock is granted and the database opened; when OPFS is refused, a    *)
(* database in memory, which the tab then keeps.                           *)
Opens(i) ==
    LET t == call[i].tab IN
    /\ call[i].step = "waiting" /\ holder = NoCall
    /\ holder' = i
    /\ Moves(i, "open", call[i].key)
    /\ \/ UNCHANGED memory
       \/ t \in Refused /\ OnOpfs(t) /\ memory' = [memory EXCEPT ![t] = NoKey]
    /\ UNCHANGED <<origin, cached, inbox, used, past>>

-----------------------------------------------------------------------------
(* The session of a load: resolve() *)

(* migrateLegacyQuarantine *)
RecordsNote(i) ==
    /\ At(i, "load", "open") /\ note
    /\ Records(call[i].tab, "note")
    /\ Moves(i, "noted", NoKey)
    /\ UNCHANGED <<row, seed, note, holder, tabs, used, past>>

(* The old note is dealt with; in the same turn the old seed is read.      *)
Resolves(i) ==
    \/ At(i, "load", "open") /\ ~note /\ UNCHANGED note
    \/ /\ At(i, "load", "noted")
       /\ IF CanRetire(call[i].tab) THEN Removes(note, FALSE) ELSE UNCHANGED note

(* migrateLegacySeed: copy, ...                                            *)
Copies(i) ==
    LET t == call[i].tab  k == Inserted(t, seed) IN
    /\ Resolves(i) /\ seed \in Key
    /\ Holds(t, k)
    /\ Moves(i, "copied", k)
    /\ UNCHANGED <<quarantine, seed, holder, cached, inbox, used, past>>

(* ... verify, and only then retire.                                       *)
Retires(i) ==
    /\ At(i, "load", "copied")
    /\ IF call[i].key = seed /\ CanRetire(call[i].tab) THEN Removes(seed, NoKey) ELSE UNCHANGED seed
    /\ Moves(i, "closing", call[i].key)
    /\ UNCHANGED <<row, quarantine, note, holder, tabs, used, past>>

(* No old seed: the row, if there is one.                                  *)
Reads(i) ==
    LET k == HeldBy(call[i].tab) IN
    /\ Resolves(i) /\ seed = NoKey
    /\ Moves(i, IF k = NoKey THEN "keyless" ELSE "closing", k)
    /\ UNCHANGED <<row, quarantine, seed, holder, tabs, used, past>>

(* A corrupt old seed: the row, if there is one, and quarantine, ...       *)
Marks(i) ==
    /\ Resolves(i) /\ seed = Corrupt
    /\ Records(call[i].tab, "seed")
    /\ Moves(i, "marked", HeldBy(call[i].tab))
    /\ UNCHANGED <<row, seed, holder, tabs, used, past>>

(* ... then retire.                                                        *)
Drops(i) ==
    /\ At(i, "load", "marked")
    /\ IF CanRetire(call[i].tab) THEN Removes(seed, NoKey) ELSE UNCHANGED seed
    /\ Moves(i, IF call[i].key = NoKey THEN "keyless" ELSE "closing", call[i].key)
    /\ UNCHANGED <<row, quarantine, note, holder, tabs, used, past>>

Generates(i) ==
    /\ At(i, "load", "keyless")
    /\ \E k \in Key \ used :
          /\ Holds(call[i].tab, Inserted(call[i].tab, k))
          /\ Moves(i, "closing", Inserted(call[i].tab, k))
          /\ used' = used \cup {k}
    /\ UNCHANGED <<quarantine, seed, note, holder, cached, inbox, past>>

(* The session ends, the lock is free, the promise resolves: it is still   *)
(* the tab's, or a change has been announced since.                        *)
Ends(i) ==
    LET t == call[i].tab IN
    /\ At(i, "load", "closing")
    /\ holder' = NoCall
    /\ call' = [call EXCEPT ![i] = FreeCall]
    /\ cached' = IF cached[t] = i THEN [cached EXCEPT ![t] = call[i].key] ELSE cached
    /\ UNCHANGED <<origin, memory, inbox, used, past>>

-----------------------------------------------------------------------------
(* The session of a reset or an import *)

(* clear() or replace(): one transaction.                                  *)
Changes(i) ==
    LET t == call[i].tab IN
    /\ call[i].op # "load" /\ call[i].step = "open"
    /\ Holds(t, IF call[i].op = "reset" THEN NoKey ELSE call[i].key)
    /\ Moves(i, "changed", IF call[i].op = "reset" THEN HeldBy(t) ELSE call[i].key)
    /\ past' = [past EXCEPT !.replaced = TRUE,
                  !.gone = IF call[i].op = "import" THEN @ \ {call[i].key} ELSE @]
    /\ UNCHANGED <<quarantine, seed, note, holder, cached, inbox, used>>

(* The keys that a reset of i leaves neither in the row nor in an entry.   *)
GoneWith(i) ==
    IF call[i].op = "reset" /\ OnOpfs(call[i].tab)
      THEN past.gone \cup ({call[i].key, seed} \cap (Key \ {seed'})) ELSE past.gone

\* Mutant: the old copy is forgotten, as if it had been removed.
ForgetsOld(i) ==
    /\ call[i].op # "load" /\ call[i].step = "changed"
    /\ UNCHANGED seed
    /\ Moves(i, "closing", NoKey)
    /\ past' = [past EXCEPT !.gone = IF call[i].op = "reset" /\ OnOpfs(call[i].tab)
                  THEN @ \cup ({call[i].key, seed} \cap Key) ELSE @]
    /\ UNCHANGED <<row, quarantine, note, holder, tabs, used>>

(* ... and the old copy is removed.                                        *)
RemovesOld(i) ==
    /\ call[i].op # "load" /\ call[i].step = "changed"
    /\ Removes(seed, NoKey)
    /\ Moves(i, "closing", NoKey)
    /\ past' = [past EXCEPT !.gone = GoneWith(i)]
    /\ UNCHANGED <<row, quarantine, note, holder, tabs, used>>

SessionEnds(i) ==
    /\ call[i].op # "load" /\ call[i].step = "closing"
    /\ holder' = NoCall
    /\ Moves(i, "announce", NoKey)
    /\ UNCHANGED <<origin, tabs, used, past>>

\* Who hears of a change: the other tabs by the channel, this one directly.
HeardByOthers(t, load) == cached    \* mutant: the tab itself keeps its promise
Heard(t, load) == [cached EXCEPT ![t] = load]

(* announce(); an import then loads.                                       *)
Announces(i) ==
    LET t == call[i].tab IN
    /\ call[i].step = "announce"
    /\ \A u \in Tab \ {t} : inbox[u] < MaxInbox
    /\ inbox' = [u \in Tab |-> IF u = t THEN inbox[u] ELSE inbox[u] + 1]
    /\ IF call[i].op = "import"
         THEN /\ cached' = Heard(t, i)
              /\ call' = [call EXCEPT ![i] =
                    [tab |-> t, op |-> "load", step |-> "waiting", key |-> NoKey]]
         ELSE /\ cached' = Heard(t, NoKey)
              /\ call' = [call EXCEPT ![i] = FreeCall]
    /\ past' = [past EXCEPT !.untold = FALSE]
    /\ UNCHANGED <<origin, holder, memory, used>>

Hears(t) ==
    /\ inbox[t] > 0
    /\ inbox' = [inbox EXCEPT ![t] = @ - 1]
    /\ cached' = [cached EXCEPT ![t] = NoKey]
    /\ UNCHANGED <<origin, holder, call, memory, used, past>>

-----------------------------------------------------------------------------
(* A change that is in the database and not announced yet. *)
Unannounced(i) == call[i].op # "load" /\ call[i].step \in {"changed", "closing", "announce"}

(* The database fails in the session of i: a load's promise is dropped,    *)
(* a reset or an import rejects and announces nothing.                     *)
SessionFails(i) ==
    LET t == call[i].tab IN
    /\ holder = i
    /\ holder' = NoCall
    /\ call' = [call EXCEPT ![i] = FreeCall]
    /\ cached' = IF cached[t] = i THEN [cached EXCEPT ![t] = NoKey] ELSE cached
    /\ past' = [past EXCEPT !.untold = @ \/ Unannounced(i)]
    /\ UNCHANGED <<origin, memory, inbox, used>>

(* A tab closes, and its lock with it; a tab opened later starts afresh.   *)
TabCloses(t) ==
    LET mine == {i \in Id : call[i].tab = t} IN
    /\ holder' = IF holder \in mine THEN NoCall ELSE holder
    /\ call' = [i \in Id |-> IF i \in mine THEN FreeCall ELSE call[i]]
    /\ memory' = [memory EXCEPT ![t] = NoDb]
    /\ cached' = [cached EXCEPT ![t] = NoKey]
    /\ inbox' = [inbox EXCEPT ![t] = 0]
    /\ past' = [past EXCEPT !.untold = @ \/ \E i \in mine : Unannounced(i)]
    /\ UNCHANGED <<origin, used>>

Session(i) ==
    \/ RecordsNote(i) \/ Copies(i) \/ Retires(i) \/ Reads(i) \/ Marks(i)
    \/ Drops(i) \/ Generates(i) \/ Ends(i)
    \/ Changes(i) \/ RemovesOld(i) \/ SessionEnds(i) \/ SessionFails(i)

KeysNext ==
    \/ \E i \in Id :
          \/ \E t \in Tab :
                \/ Load(i, t) \/ Reset(i, t)
                \/ \E k \in Key : Import(i, t, k)
          \/ FileOpens(i) \/ FileRefused(i) \/ Opens(i) \/ Announces(i)
          \/ Session(i)
    \/ \E t \in Tab : Hears(t) \/ TabCloses(t)

KeysSpec == KeysInit /\ [][KeysNext]_keysVars

-----------------------------------------------------------------------------
(* Whatever closes or fails in between, and in whatever storage the tabs   *)
(* work: until somebody resets or imports, the old seed is where it was or *)
(* in the row on OPFS, and a corrupt seed or an old note is where it was   *)
(* or on record (installKey.ts:16-18).                                     *)
OldStorageKept ==
    /\ past.note => note \/ "note" \in quarantine
    /\ ~past.replaced =>
          /\ past.seed \in Key => past.seed \in {seed, row}
          /\ past.seed = Corrupt => seed = Corrupt \/ "seed" \in quarantine

(* A tab that would sign with another key than the one on OPFS is about to *)
(* be told; unless whoever made the last change closed, or failed, before  *)
(* telling anybody.                                                        *)
ToldOrCurrent ==
    \A t \in Tab :
        cached[t] \in Key /\ OnOpfs(t) /\ ~past.untold =>
            cached[t] = row \/ inbox[t] > 0 \/ \E i \in Id : Unannounced(i)

(* A key that was reset does not come back out of the old storage or out   *)
(* of a load that was under way; only an import brings it back (or the old *)
(* entry itself, where the browser refused to remove it).                  *)
ResetHolds == row \notin past.gone
=============================================================================
