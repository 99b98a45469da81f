------------------------- MODULE InstallKeysProofs -------------------------
(***************************************************************************)
(* Whatever tabs close and sessions fail, for any number of tabs, keys and *)
(* calls: the old storage is never lost, a tab with another key than the   *)
(* one stored is about to be told, and a reset holds.                      *)
(*                                                                         *)
(* All three rest on what the lock gives: a session finds the storage as   *)
(* it left it between two of its steps.                                    *)
(***************************************************************************)
EXTENDS InstallKeys, TLAPS

(* Who is in a session holds the lock. *)
LockInv == \A i \in Id : call[i].step \in InSession => holder = i

Opfs(i) == OnOpfs(call[i].tab)

(* What the session of i knows of the storage, from its own steps before.  *)
Knows(i) ==
    /\ call[i].step = "noted" /\ Opfs(i) => "note" \in quarantine
    /\ call[i].step = "marked" /\ Opfs(i) => "seed" \in quarantine /\ call[i].key = row
    /\ call[i].step = "marked" => seed = Corrupt
    /\ call[i].step = "copied" /\ Opfs(i) => call[i].key = row
    /\ At(i, "load", "closing") /\ Opfs(i) => call[i].key = row
    /\ call[i].step = "changed" => call[i].op # "load" /\ past.replaced
    /\ At(i, "reset", "changed") /\ Opfs(i) => row = NoKey

SessionInv == \A i \in Id : Knows(i)

(* Only keys that were ever used are anywhere. *)
UsedInv ==
    /\ {row, seed} \cap Key \subseteq used /\ past.gone \subseteq used
    /\ \A i \in Id : {call[i].key} \cap Key \subseteq used
    /\ \A t \in Tab : {memory[t]} \cap Key \subseteq used

GoneInv == row \notin past.gone /\ seed \notin past.gone

KeysInv == KeysTypeOK /\ LockInv /\ SessionInv /\ UsedInv /\ OldStorageKept /\ ToldOrCurrent /\ GoneInv

-----------------------------------------------------------------------------
(* What the type invariant says of the fields of a call.                   *)
LEMMA Parts ==
    KeysTypeOK => \A i \in Id : /\ call[i].tab \in Tab \cup {NoKey}
                            /\ call[i].op \in {"load", "reset", "import"}
                            /\ call[i].step \in Step
                            /\ call[i].key \in Key \cup {NoKey}
BY DEF KeysTypeOK, Call

(* A call that takes its next place keeps its tab and its operation.       *)
LEMMA Places ==
    ASSUME KeysTypeOK, NEW i \in Id, NEW s \in Step, NEW k \in Key \cup {NoKey}, Moves(i, s, k)
    PROVE  /\ call' \in [Id -> Call]
           /\ call'[i].tab = call[i].tab /\ call'[i].op = call[i].op
           /\ call'[i].step = s /\ call'[i].key = k
           /\ \A j \in Id \ {i} : call'[j] = call[j]
BY ZenonT(40) DEF KeysTypeOK, Call, Moves

(* A call that starts, and what it starts with.                            *)
LEMMA Starts ==
    ASSUME KeysTypeOK, NEW i \in Id, NEW t \in Tab, NEW op \in {"load", "reset", "import"},
           NEW s \in Step, NEW k \in Key \cup {NoKey}, Calls(i, t, op, s, k)
    PROVE  /\ call[i].step = "free"
           /\ call' \in [Id -> Call]
           /\ call'[i].tab = t /\ call'[i].op = op
           /\ call'[i].step = s /\ call'[i].key = k
           /\ \A j \in Id \ {i} : call'[j] = call[j]
BY DEF KeysTypeOK, Call, Calls

(* What Free is, for the steps that end a call.                            *)
LEMMA Frees == FreeCall \in Call /\ FreeCall.step = "free" /\ FreeCall.op = "load" /\ FreeCall.key = NoKey
BY DEF FreeCall, Call, Step

(* The database of a tab holds a key or none.                              *)
LEMMA HeldKey == ASSUME KeysTypeOK, NEW t \in Tab PROVE HeldBy(t) \in Key \cup {NoKey}
BY DEF KeysTypeOK, HeldBy, OnOpfs

(* A write to a tab's database changes that database and nothing else.     *)
LEMMA HoldsKey ==
    ASSUME KeysTypeOK, NEW t \in Tab, NEW k \in Key \cup {NoKey}, Holds(t, k)
    PROVE  /\ row' \in Key \cup {NoKey} /\ memory' \in [Tab -> Key \cup {NoKey, NoDb}]
           /\ OnOpfs(t) => row' = k /\ UNCHANGED memory
           /\ ~OnOpfs(t) => row' = row /\ memory'[t] = k
           /\ \A u \in Tab : /\ OnOpfs(u)' <=> OnOpfs(u)
                             /\ u # t => memory'[u] = memory[u]
BY InstallKeysAssumption DEF KeysTypeOK, Holds, OnOpfs

(* An old seed that is read has been sorted: it is a key, corrupt or none. *)
LEMMA Resolving ==
    ASSUME KeysTypeOK, NEW i \in Id, Resolves(i)
    PROVE  /\ call[i].op = "load" /\ call[i].step \in {"open", "noted"}
           /\ note' \in BOOLEAN
           /\ note /\ ~note' => OnOpfs(call[i].tab) /\ call[i].step = "noted"
BY DEF KeysTypeOK, Resolves, At, Removes, CanRetire

(* The steps of a session between its opening and its end. *)
Works(i) == RecordsNote(i) \/ Copies(i) \/ Retires(i) \/ Reads(i) \/ Marks(i)
                \/ Drops(i) \/ Generates(i) \/ Changes(i) \/ RemovesOld(i)

(* A step of a session moves one call, inside its session, and neither the *)
(* lock nor any promise.                                                   *)
LEMMA Working ==
    ASSUME KeysTypeOK, NEW i \in Id, Works(i)
    PROVE  /\ call[i].tab \in Tab /\ call[i].step \in InSession
           /\ call' \in [Id -> Call] /\ call'[i].step \in InSession
           /\ call'[i].tab = call[i].tab /\ call'[i].op = call[i].op
           /\ \A j \in Id \ {i} : call'[j] = call[j]
           /\ UNCHANGED <<holder, cached, inbox>>
           /\ memory' \in [Tab -> Key \cup {NoKey, NoDb}]
           /\ \A t \in Tab : OnOpfs(t)' <=> OnOpfs(t)
<1> USE InstallKeysAssumption, Parts
<1>1. call[i].step \in InSession /\ call[i].tab \in Tab
  BY Resolving DEF Works, RecordsNote, Copies, Retires, Reads, Marks, Drops, Generates,
                   Changes, RemovesOld, At, InSession, KeysTypeOK, WellFormed
<1> DEFINE t == call[i].tab
<1>2. HeldBy(t) \in Key \cup {NoKey} /\ (seed \in Key => Inserted(t, seed) \in Key)
        /\ \A k \in Key : Inserted(t, k) \in Key
  BY <1>1, HeldKey DEF Inserted
<1>3. CASE RecordsNote(i) \/ Retires(i) \/ Drops(i) \/ RemovesOld(i)
  BY <1>1, <1>3, Places DEF RecordsNote, Retires, Drops, RemovesOld, tabs, OnOpfs,
     KeysTypeOK, InSession, Step
<1>4. CASE Copies(i)
  <2>1. seed \in Key /\ Holds(t, Inserted(t, seed)) /\ Moves(i, "copied", Inserted(t, seed))
          /\ UNCHANGED <<holder, cached, inbox>>
    BY <1>4 DEF Copies
  <2> QED
    BY <1>1, <1>2, <2>1, Places, HoldsKey DEF InSession, Step
<1>5. CASE Reads(i) \/ Marks(i)
  <2>1. UNCHANGED <<holder, memory, cached, inbox>>
          /\ \E s \in {"keyless", "closing", "marked"} : Moves(i, s, HeldBy(t))
    BY <1>5 DEF Reads, Marks, tabs
  <2> QED
    BY <1>1, <1>2, <2>1, Places DEF InSession, Step, OnOpfs, KeysTypeOK
<1>6. CASE Generates(i)
  <2>1. PICK k \in Key : Holds(t, Inserted(t, k)) /\ Moves(i, "closing", Inserted(t, k))
    BY <1>6 DEF Generates
  <2>2. UNCHANGED <<holder, cached, inbox>>
    BY <1>6 DEF Generates
  <2> QED
    BY <1>1, <1>2, <2>1, <2>2, Places, HoldsKey DEF InSession, Step
<1>7. CASE Changes(i)
  <2>1. PICK k \in Key \cup {NoKey}, l \in Key \cup {NoKey} : Holds(t, k) /\ Moves(i, "changed", l)
    BY <1>2, <1>7 DEF Changes
  <2>2. UNCHANGED <<holder, cached, inbox>>
    BY <1>7 DEF Changes
  <2> QED
    BY <1>1, <2>1, <2>2, Places, HoldsKey DEF InSession, Step
<1> QED
  BY <1>3, <1>4, <1>5, <1>6, <1>7 DEF Works

(* The calls stay well formed when only that of i moves. *)
LEMMA FormedStep ==
    ASSUME KeysTypeOK, NEW i \in Id, Works(i)
    PROVE  \A j \in Id : WellFormed(call'[j])
<1> USE InstallKeysAssumption, Parts
<1> DEFINE t == call[i].tab
<1>1. \A j \in Id \ {i} : WellFormed(call'[j])
  BY Working DEF KeysTypeOK
<1>2. t \in Tab /\ call'[i].tab = t /\ call'[i].op = call[i].op /\ call' \in [Id -> Call]
  BY Working
<1>3. WellFormed(call[i]) /\ \A k \in Key : Inserted(t, k) \in Key
  BY <1>2, HeldKey DEF Inserted, KeysTypeOK
<1>4. ASSUME RecordsNote(i) \/ Retires(i) \/ Drops(i) \/ RemovesOld(i) PROVE WellFormed(call'[i])
  BY <1>2, <1>3, <1>4, Places DEF RecordsNote, Retires, Drops, RemovesOld, At,
     WellFormed, Step
<1>5. ASSUME Copies(i) PROVE WellFormed(call'[i])
  <2>1. Inserted(t, seed) \in Key /\ Moves(i, "copied", Inserted(t, seed)) /\ call[i].op = "load"
    BY <1>3, <1>5, Resolving DEF Copies
  <2> QED
    BY <1>2, <2>1, Places DEF WellFormed, Step
<1>6. ASSUME Reads(i) \/ Marks(i) PROVE WellFormed(call'[i])
  <2>1. call[i].op = "load" /\ HeldBy(t) \in Key \cup {NoKey}
    BY <1>2, <1>6, Resolving, HeldKey DEF Reads, Marks
  <2>2. \/ HeldBy(t) = NoKey /\ Moves(i, "keyless", HeldBy(t))
        \/ HeldBy(t) # NoKey /\ Moves(i, "closing", HeldBy(t))
        \/ Moves(i, "marked", HeldBy(t))
    BY <1>6 DEF Reads, Marks
  <2> QED
    BY <1>2, <2>1, <2>2, Places DEF WellFormed, Step
<1>7. ASSUME Generates(i) PROVE WellFormed(call'[i])
  <2>1. PICK k \in Key : Moves(i, "closing", Inserted(t, k))
    BY <1>7 DEF Generates
  <2> QED
    BY <1>2, <1>3, <1>7, <2>1, Places DEF WellFormed, Step
<1>8. ASSUME Changes(i) PROVE WellFormed(call'[i])
  <2>1. call[i].op # "load" /\ \E l \in Key \cup {NoKey} : Moves(i, "changed", l)
    BY <1>2, <1>8, HeldKey DEF Changes
  <2> QED
    BY <1>2, <2>1, Places DEF WellFormed, Step
<1> QED
  BY <1>1, <1>4, <1>5, <1>6, <1>7, <1>8 DEF Works

(* While i works nobody else is in a session, so only i knows anything. *)
LEMMA OthersKnow ==
    ASSUME KeysTypeOK, LockInv, NEW i \in Id, Works(i) \/ Ends(i) \/ SessionEnds(i) \/ SessionFails(i)
    PROVE  \A j \in Id \ {i} : call[j].step \notin InSession /\ call'[j] = call[j] /\ Knows(j)'
<1>1. holder = i
  BY Working DEF LockInv, Ends, SessionEnds, SessionFails, At, InSession
<1>2. \A j \in Id \ {i} : call[j].step \notin InSession
  BY <1>1 DEF LockInv
<1>3. \A j \in Id \ {i} : call'[j] = call[j]
  BY Working DEF Ends, SessionEnds, SessionFails, Moves, KeysTypeOK
<1> QED
  BY <1>2, <1>3 DEF Knows, InSession, At

(* What a tab finds in its database has been used.                         *)
LEMMA HeldUsed ==
    ASSUME KeysTypeOK, UsedInv, NEW t \in Tab
    PROVE  {HeldBy(t)} \cap Key \subseteq used
BY DEF UsedInv, HeldBy

(* Nor does a write of a used key bring an unused one anywhere.            *)
LEMMA HoldsUsed ==
    ASSUME KeysTypeOK, UsedInv, NEW t \in Tab, NEW k \in Key \cup {NoKey}, Holds(t, k),
           used \subseteq used', {k} \cap Key \subseteq used'
    PROVE  /\ {row'} \cap Key \subseteq used'
           /\ \A u \in Tab : {memory'[u]} \cap Key \subseteq used'
BY HoldsKey DEF UsedInv

(* An old note is retired only after it is on record.                      *)
LEMMA NoteKept ==
    ASSUME KeysTypeOK, SessionInv, NEW i \in Id, Resolves(i), quarantine \subseteq quarantine'
    PROVE  (note => note' \/ "note" \in quarantine')
             /\ ("note" \in quarantine => "note" \in quarantine')
BY Resolving DEF SessionInv, Knows, Opfs

(* A change that nobody announced stays one, or was that of the call that  *)
(* moved.                                                                  *)
LEMMA StillTold ==
    ASSUME KeysTypeOK, ToldOrCurrent, NEW i \in Id, NEW t \in Tab,
           cached[t] \in Key, OnOpfs(t), ~past.untold,
           Unannounced(i) => Unannounced(i)', \A j \in Id \ {i} : call'[j] = call[j]
    PROVE  cached[t] = row \/ inbox[t] > 0 \/ \E j \in Id : Unannounced(j)'
BY DEF ToldOrCurrent, Unannounced

(* The type invariant is inductive.                                        *)
LEMMA TypeStep == KeysTypeOK /\ [KeysNext]_keysVars => KeysTypeOK'
<1> SUFFICES ASSUME KeysTypeOK, [KeysNext]_keysVars PROVE KeysTypeOK'
  OBVIOUS
<1> USE InstallKeysAssumption, Parts
<1>1. ASSUME NEW i \in Id, NEW t \in Tab, Load(i, t) PROVE KeysTypeOK'
  BY <1>1, Starts DEF Load, origin, KeysTypeOK, WellFormed, Step, Past
<1>2. ASSUME NEW i \in Id, NEW t \in Tab, Reset(i, t) PROVE KeysTypeOK'
  <2>1. call' \in [Id -> Call] /\ \A j \in Id : WellFormed(call'[j])
    BY <1>2, Starts, SMTT(20) DEF Reset, KeysTypeOK, WellFormed, Step
  <2> QED
    BY <2>1, <1>2 DEF Reset, origin, tabs, KeysTypeOK
<1>3. ASSUME NEW i \in Id, NEW t \in Tab, NEW k \in Key, Import(i, t, k) PROVE KeysTypeOK'
  <2>1. call' \in [Id -> Call] /\ \A j \in Id : WellFormed(call'[j])
    BY <1>3, Starts, SMTT(20) DEF Import, KeysTypeOK, WellFormed, Step
  <2> QED
    BY <2>1, <1>3 DEF Import, origin, tabs, KeysTypeOK
<1>4. ASSUME NEW i \in Id, FileOpens(i) PROVE KeysTypeOK'
  BY <1>4, Places DEF FileOpens, origin, tabs, KeysTypeOK, WellFormed, Step
<1>5. ASSUME NEW i \in Id, FileRefused(i) PROVE KeysTypeOK'
  BY <1>5, Frees DEF FileRefused, origin, tabs, KeysTypeOK, WellFormed
<1>6. ASSUME NEW i \in Id, Opens(i) PROVE KeysTypeOK'
  BY <1>6, Places DEF Opens, OnOpfs, origin, KeysTypeOK, WellFormed, Step
<1>7. ASSUME NEW i \in Id, RecordsNote(i) PROVE KeysTypeOK'
  <2>1. call' \in [Id -> Call] /\ UNCHANGED <<holder, cached, inbox>>
          /\ memory' \in [Tab -> Key \cup {NoKey,
          NoDb}] /\ \A j \in Id : WellFormed(call'[j])
    BY <1>7, Working, FormedStep DEF Works
  <2> QED
    BY <2>1, <1>7 DEF RecordsNote, Records, KeysTypeOK
<1>8. ASSUME NEW i \in Id, Copies(i) PROVE KeysTypeOK'
  <2>1. call' \in [Id -> Call] /\ UNCHANGED <<holder, cached, inbox>>
          /\ memory' \in [Tab -> Key \cup {NoKey,
          NoDb}] /\ \A j \in Id : WellFormed(call'[j])
    BY <1>8, Working, FormedStep DEF Works
  <2>2. row' \in Key \cup {NoKey}
    BY <1>8 DEF Copies, Holds, Inserted, HeldBy, KeysTypeOK
  <2> QED
    BY <2>1, <2>2, <1>8, Resolving DEF Copies, KeysTypeOK
<1>9. ASSUME NEW i \in Id, Retires(i) PROVE KeysTypeOK'
  <2>1. call' \in [Id -> Call] /\ UNCHANGED <<holder, cached, inbox>>
          /\ memory' \in [Tab -> Key \cup {NoKey,
          NoDb}] /\ \A j \in Id : WellFormed(call'[j])
    BY <1>9, Working, FormedStep DEF Works
  <2> QED
    BY <2>1, <1>9 DEF Retires, Removes, KeysTypeOK
<1>10. ASSUME NEW i \in Id, Reads(i) PROVE KeysTypeOK'
  <2>1. call' \in [Id -> Call] /\ UNCHANGED <<holder, cached, inbox>>
          /\ memory' \in [Tab -> Key \cup {NoKey,
          NoDb}] /\ \A j \in Id : WellFormed(call'[j])
    BY <1>10, Working, FormedStep DEF Works
  <2> QED
    BY <2>1, <1>10, Resolving DEF Reads, KeysTypeOK
<1>11. ASSUME NEW i \in Id, Marks(i) PROVE KeysTypeOK'
  <2>1. call' \in [Id -> Call] /\ UNCHANGED <<holder, cached, inbox>>
          /\ memory' \in [Tab -> Key \cup {NoKey,
          NoDb}] /\ \A j \in Id : WellFormed(call'[j])
    BY <1>11, Working, FormedStep DEF Works
  <2> QED
    BY <2>1, <1>11, Resolving DEF Marks, Records, KeysTypeOK
<1>12. ASSUME NEW i \in Id, Drops(i) PROVE KeysTypeOK'
  <2>1. call' \in [Id -> Call] /\ UNCHANGED <<holder, cached, inbox>>
          /\ memory' \in [Tab -> Key \cup {NoKey,
          NoDb}] /\ \A j \in Id : WellFormed(call'[j])
    BY <1>12, Working, FormedStep DEF Works
  <2> QED
    BY <2>1, <1>12 DEF Drops, Removes, KeysTypeOK
<1>13. ASSUME NEW i \in Id, Generates(i) PROVE KeysTypeOK'
  <2>1. call' \in [Id -> Call] /\ UNCHANGED <<holder, cached, inbox>>
          /\ memory' \in [Tab -> Key \cup {NoKey,
          NoDb}] /\ \A j \in Id : WellFormed(call'[j])
    BY <1>13, Working, FormedStep DEF Works
  <2>2. row' \in Key \cup {NoKey}
    BY <1>13 DEF Generates, Holds, Inserted, HeldBy, KeysTypeOK
  <2> QED
    BY <2>1, <2>2, <1>13 DEF Generates, KeysTypeOK
<1>14. ASSUME NEW i \in Id, Ends(i) PROVE KeysTypeOK'
  BY <1>14, Frees DEF Ends, At, origin, KeysTypeOK, WellFormed
<1>15. ASSUME NEW i \in Id, Changes(i) PROVE KeysTypeOK'
  <2>1. call' \in [Id -> Call] /\ UNCHANGED <<holder, cached, inbox>>
          /\ memory' \in [Tab -> Key \cup {NoKey,
          NoDb}] /\ \A j \in Id : WellFormed(call'[j])
    BY <1>15, Working, FormedStep DEF Works
  <2>2. past' \in Past
    BY <1>15 DEF Changes, KeysTypeOK, Past
  <2>3. row' \in Key \cup {NoKey}
    BY <1>15, Working, HoldsKey DEF Works, Changes
  <2> QED
    BY <2>1, <2>2, <2>3, <1>15 DEF Changes, KeysTypeOK
<1>16. ASSUME NEW i \in Id, RemovesOld(i) PROVE KeysTypeOK'
  <2>1. call' \in [Id -> Call] /\ UNCHANGED <<holder, cached, inbox>>
          /\ memory' \in [Tab -> Key \cup {NoKey,
          NoDb}] /\ \A j \in Id : WellFormed(call'[j])
    BY <1>16, Working, FormedStep DEF Works
  <2>2. past' \in Past
    BY <1>16 DEF RemovesOld, GoneWith, KeysTypeOK, Past
  <2> QED
    BY <2>1, <2>2, <1>16 DEF RemovesOld, Removes, KeysTypeOK
<1>17. ASSUME NEW i \in Id, SessionEnds(i) PROVE KeysTypeOK'
  BY <1>17, Places DEF SessionEnds, origin, tabs, KeysTypeOK, WellFormed, Step
<1>18. ASSUME NEW i \in Id, SessionFails(i) PROVE KeysTypeOK'
  <2>1. call' \in [Id -> Call] /\ \A j \in Id : WellFormed(call'[j])
    BY <1>18, Frees DEF SessionFails, KeysTypeOK, WellFormed
  <2>2. past' \in Past /\ cached' \in [Tab -> Key \cup {NoKey} \cup Id]
    BY <1>18 DEF SessionFails, KeysTypeOK, Past
  <2> QED
    BY <2>1, <2>2, <1>18 DEF SessionFails, origin, KeysTypeOK
<1>19. ASSUME NEW i \in Id, Announces(i) PROVE KeysTypeOK'
  <2>1. PICK c \in {FreeCall, [tab |-> call[i].tab, op |-> "load", step |-> "waiting", key |-> NoKey]} :
          call' = [call EXCEPT ![i] = c]
    BY <1>19 DEF Announces
  <2>2. c \in Call /\ WellFormed(c)
    BY <1>19, Frees DEF Announces, KeysTypeOK, Call, WellFormed, Step
  <2>3. call' \in [Id -> Call] /\ \A j \in Id : WellFormed(call'[j])
    BY <2>1, <2>2 DEF KeysTypeOK
  <2>4. past' \in Past
    BY <1>19 DEF Announces, KeysTypeOK, Past
  <2>5. cached' \in [Tab -> Key \cup {NoKey} \cup Id]
    BY <1>19 DEF Announces, Heard, KeysTypeOK
  <2>6. inbox' \in [Tab -> 0..MaxInbox]
    BY <1>19 DEF Announces, KeysTypeOK
  <2> QED
    BY <2>3, <2>4, <2>5, <2>6, <1>19 DEF Announces, origin, KeysTypeOK
<1>20. ASSUME NEW t \in Tab, Hears(t) PROVE KeysTypeOK'
  BY <1>20 DEF Hears, origin, KeysTypeOK
<1>21. ASSUME NEW t \in Tab, TabCloses(t) PROVE KeysTypeOK'
  <2>1. call' \in [Id -> Call] /\ \A j \in Id : WellFormed(call'[j])
    BY <1>21, Frees DEF TabCloses, KeysTypeOK, WellFormed
  <2>2. past' \in Past
    BY <1>21 DEF TabCloses, KeysTypeOK, Past
  <2> QED
    BY <2>1, <2>2, <1>21 DEF TabCloses, origin, KeysTypeOK
<1>22. CASE UNCHANGED keysVars
  BY <1>22 DEF keysVars, origin, tabs, KeysTypeOK
<1> QED
  BY <1>1, <1>2, <1>3, <1>4, <1>5, <1>6, <1>7, <1>8, <1>9, <1>10, <1>11, <1>12,
     <1>13, <1>14, <1>15, <1>16, <1>17, <1>18, <1>19, <1>20, <1>21, <1>22 DEF KeysNext, Session

(* Nobody enters a session while another call is in one.                   *)
LEMMA LockStep == KeysTypeOK /\ LockInv /\ [KeysNext]_keysVars => LockInv'
<1> SUFFICES ASSUME KeysTypeOK, LockInv, [KeysNext]_keysVars PROVE LockInv'
  OBVIOUS
<1> USE InstallKeysAssumption, Parts
<1>1. ASSUME NEW i \in Id, NEW t \in Tab, Load(i, t) PROVE LockInv'
  BY <1>1, Starts DEF Load, Step, LockInv, InSession
<1>2. ASSUME NEW i \in Id, NEW t \in Tab, Reset(i, t) PROVE LockInv'
  BY <1>2, Starts DEF Reset, tabs, Step, LockInv, InSession
<1>3. ASSUME NEW i \in Id, NEW t \in Tab, NEW k \in Key, Import(i, t, k) PROVE LockInv'
  BY <1>3, Starts DEF Import, Step, LockInv, InSession
<1>4. ASSUME NEW i \in Id, FileOpens(i) PROVE LockInv'
  BY <1>4, Places DEF FileOpens, Step, LockInv, InSession
<1>5. ASSUME NEW i \in Id, FileRefused(i) PROVE LockInv'
  BY <1>5, Frees DEF FileRefused, LockInv, InSession
<1>6. ASSUME NEW i \in Id, Opens(i) PROVE LockInv'
  BY <1>6, Places DEF Opens, Step, LockInv
<1>7. ASSUME NEW i \in Id, RecordsNote(i) PROVE LockInv'
  BY <1>7, Working DEF Works, LockInv
<1>8. ASSUME NEW i \in Id, Copies(i) PROVE LockInv'
  BY <1>8, Working DEF Works, LockInv
<1>9. ASSUME NEW i \in Id, Retires(i) PROVE LockInv'
  BY <1>9, Working DEF Works, LockInv
<1>10. ASSUME NEW i \in Id, Reads(i) PROVE LockInv'
  BY <1>10, Working DEF Works, LockInv
<1>11. ASSUME NEW i \in Id, Marks(i) PROVE LockInv'
  BY <1>11, Working DEF Works, LockInv
<1>12. ASSUME NEW i \in Id, Drops(i) PROVE LockInv'
  BY <1>12, Working DEF Works, LockInv
<1>13. ASSUME NEW i \in Id, Generates(i) PROVE LockInv'
  BY <1>13, Working DEF Works, LockInv
<1>14. ASSUME NEW i \in Id, Ends(i) PROVE LockInv'
  BY <1>14, Frees DEF Ends, At, KeysTypeOK, LockInv, InSession
<1>15. ASSUME NEW i \in Id, Changes(i) PROVE LockInv'
  BY <1>15, Working DEF Works, LockInv
<1>16. ASSUME NEW i \in Id, RemovesOld(i) PROVE LockInv'
  BY <1>16, Working DEF Works, LockInv
<1>17. ASSUME NEW i \in Id, SessionEnds(i) PROVE LockInv'
  BY <1>17, Places DEF SessionEnds, Step, LockInv, InSession
<1>18. ASSUME NEW i \in Id, SessionFails(i) PROVE LockInv'
  BY <1>18, Frees DEF SessionFails, KeysTypeOK, LockInv, InSession
<1>19. ASSUME NEW i \in Id, Announces(i) PROVE LockInv'
  BY <1>19, Frees DEF Announces, KeysTypeOK, LockInv, InSession
<1>20. ASSUME NEW t \in Tab, Hears(t) PROVE LockInv'
  BY <1>20 DEF Hears, LockInv
<1>21. ASSUME NEW t \in Tab, TabCloses(t) PROVE LockInv'
  <2>1. \A j \in Id : call'[j] = IF call[j].tab = t THEN FreeCall ELSE call[j]
    BY <1>21 DEF TabCloses
  <2> QED
    BY <2>1, <1>21, Frees DEF TabCloses, LockInv, InSession
<1>22. CASE UNCHANGED keysVars
  BY <1>22 DEF keysVars, LockInv
<1> QED
  BY <1>1, <1>2, <1>3, <1>4, <1>5, <1>6, <1>7, <1>8, <1>9, <1>10, <1>11, <1>12,
     <1>13, <1>14, <1>15, <1>16, <1>17, <1>18, <1>19, <1>20, <1>21, <1>22 DEF KeysNext, Session

(* What the session in progress knows stays true: nobody else writes.      *)
LEMMA SessionStep == KeysTypeOK /\ LockInv /\ SessionInv /\ [KeysNext]_keysVars => SessionInv'
<1> SUFFICES ASSUME KeysTypeOK, LockInv, SessionInv, [KeysNext]_keysVars PROVE SessionInv'
  OBVIOUS
<1> USE InstallKeysAssumption, Parts
<1>1. ASSUME NEW i \in Id, NEW t \in Tab, Load(i, t) PROVE SessionInv'
  BY <1>1, Starts DEF Load, OnOpfs, origin, Step, SessionInv, Knows, Opfs, At
<1>2. ASSUME NEW i \in Id, NEW t \in Tab, Reset(i, t) PROVE SessionInv'
  BY <1>2, Starts DEF Reset, OnOpfs, origin, tabs, Step, SessionInv, Knows, Opfs, At
<1>3. ASSUME NEW i \in Id, NEW t \in Tab, NEW k \in Key, Import(i, t, k) PROVE SessionInv'
  BY <1>3, Starts DEF Import, OnOpfs, origin, tabs, Step, SessionInv, Knows, Opfs, At
<1>4. ASSUME NEW i \in Id, FileOpens(i) PROVE SessionInv'
  BY <1>4, Places DEF FileOpens, OnOpfs, origin, tabs, Step, SessionInv, Knows, Opfs, At
<1>5. ASSUME NEW i \in Id, FileRefused(i) PROVE SessionInv'
  BY <1>5, Frees DEF FileRefused, OnOpfs, origin, tabs, SessionInv, Knows, Opfs, At
<1>6. ASSUME NEW i \in Id, Opens(i) PROVE SessionInv'
  <2>1. /\ holder = NoCall /\ call'[i].step = "open" /\ UNCHANGED origin
        /\ \A j \in Id \ {i} : call'[j] = call[j]
    BY <1>6, Places DEF Opens, Step
  <2> QED
    BY <2>1 DEF SessionInv, Knows, LockInv, InSession, At
<1>7. ASSUME NEW i \in Id, RecordsNote(i) PROVE SessionInv'
  <2>1. \A j \in Id \ {i} : Knows(j)'
    BY <1>7, OthersKnow DEF Works
  <2>2. call'[i].tab = call[i].tab /\ call'[i].op = call[i].op /\ call[i].tab \in Tab /\ (Opfs(i)' <=> Opfs(i))
    BY <1>7, Working DEF Works, Opfs
  <2>9. Knows(i)'
    BY <1>7, <2>2, Places DEF RecordsNote, Records, Knows, At, Step, Opfs
  <2> QED
    BY <2>1, <2>9 DEF SessionInv
<1>8. ASSUME NEW i \in Id, Copies(i) PROVE SessionInv'
  <2>1. \A j \in Id \ {i} : Knows(j)'
    BY <1>8, OthersKnow DEF Works
  <2>2. call'[i].tab = call[i].tab /\ call'[i].op = call[i].op /\ call[i].tab \in Tab /\ (Opfs(i)' <=> Opfs(i))
    BY <1>8, Working DEF Works, Opfs
  <2>3. /\ Inserted(call[i].tab, seed) \in Key /\ Moves(i, "copied", Inserted(call[i].tab, seed))
        /\ Holds(call[i].tab, Inserted(call[i].tab, seed)) /\ call[i].op = "load"
    BY <1>8, <2>2, Resolving, HeldKey DEF Copies, Inserted
  <2>9. Knows(i)'
    BY <2>2, <2>3, Places, HoldsKey DEF Knows, At, Step, Opfs
  <2> QED
    BY <2>1, <2>9 DEF SessionInv
<1>9. ASSUME NEW i \in Id, Retires(i) PROVE SessionInv'
  <2>1. \A j \in Id \ {i} : Knows(j)'
    BY <1>9, OthersKnow DEF Works
  <2>2. call'[i].tab = call[i].tab /\ call'[i].op = call[i].op /\ call[i].tab \in Tab /\ (Opfs(i)' <=> Opfs(i))
    BY <1>9, Working DEF Works, Opfs
  <2>9. Knows(i)'
    BY <1>9, <2>2, Places DEF Retires, SessionInv, Knows, At, Step
  <2> QED
    BY <2>1, <2>9 DEF SessionInv
<1>10. ASSUME NEW i \in Id, Reads(i) PROVE SessionInv'
  <2>1. \A j \in Id \ {i} : Knows(j)'
    BY <1>10, OthersKnow DEF Works
  <2>2. call'[i].tab = call[i].tab /\ call'[i].op = call[i].op /\ call[i].tab \in Tab /\ (Opfs(i)' <=> Opfs(i))
    BY <1>10, Working DEF Works, Opfs
  <2>3. /\ HeldBy(call[i].tab) \in Key \cup {NoKey} /\ UNCHANGED row
        /\ \E s \in {"keyless", "closing"} : Moves(i, s, HeldBy(call[i].tab))
    BY <1>10, <2>2, HeldKey DEF Reads
  <2>9. Knows(i)'
    BY <2>2, <2>3, Places DEF Knows, At, Step, Opfs, HeldBy
  <2> QED
    BY <2>1, <2>9 DEF SessionInv
<1>11. ASSUME NEW i \in Id, Marks(i) PROVE SessionInv'
  <2>1. \A j \in Id \ {i} : Knows(j)'
    BY <1>11, OthersKnow DEF Works
  <2>2. call'[i].tab = call[i].tab /\ call'[i].op = call[i].op /\ call[i].tab \in Tab /\ (Opfs(i)' <=> Opfs(i))
    BY <1>11, Working DEF Works, Opfs
  <2>3. /\ HeldBy(call[i].tab) \in Key \cup {NoKey} /\ UNCHANGED <<row, seed>> /\ seed = Corrupt
        /\ Moves(i, "marked", HeldBy(call[i].tab)) /\ (Opfs(i) => "seed" \in quarantine')
    BY <1>11, <2>2, HeldKey DEF Marks, Records, Opfs
  <2>9. Knows(i)'
    BY <2>2, <2>3, Places DEF Knows, At, Step, Opfs, HeldBy
  <2> QED
    BY <2>1, <2>9 DEF SessionInv
<1>12. ASSUME NEW i \in Id, Drops(i) PROVE SessionInv'
  <2>1. \A j \in Id \ {i} : Knows(j)'
    BY <1>12, OthersKnow DEF Works
  <2>2. call'[i].tab = call[i].tab /\ call'[i].op = call[i].op /\ call[i].tab \in Tab /\ (Opfs(i)' <=> Opfs(i))
    BY <1>12, Working DEF Works, Opfs
  <2>9. Knows(i)'
    BY <1>12, <2>2, Places DEF Drops, SessionInv, Knows, At, Step
  <2> QED
    BY <2>1, <2>9 DEF SessionInv
<1>13. ASSUME NEW i \in Id, Generates(i) PROVE SessionInv'
  <2>1. \A j \in Id \ {i} : Knows(j)'
    BY <1>13, OthersKnow DEF Works
  <2>2. call'[i].tab = call[i].tab /\ call'[i].op = call[i].op /\ call[i].tab \in Tab /\ (Opfs(i)' <=> Opfs(i))
    BY <1>13, Working DEF Works, Opfs
  <2>3. PICK k \in Key : /\ Inserted(call[i].tab, k) \in Key /\ Moves(i, "closing", Inserted(call[i].tab, k))
                         /\ Holds(call[i].tab, Inserted(call[i].tab, k))
    BY <1>13, <2>2, HeldKey DEF Generates, Inserted
  <2>9. Knows(i)'
    BY <2>2, <2>3, Places, HoldsKey DEF Knows, At, Step, Opfs
  <2> QED
    BY <2>1, <2>9 DEF SessionInv
<1>14. ASSUME NEW i \in Id, Ends(i) PROVE SessionInv'
  <2>1. call'[i].step = "free"
    BY <1>14, Frees DEF Ends, KeysTypeOK
  <2> QED
    BY <2>1, <1>14, OthersKnow DEF SessionInv, Knows, At
<1>15. ASSUME NEW i \in Id, Changes(i) PROVE SessionInv'
  <2>1. \A j \in Id \ {i} : Knows(j)'
    BY <1>15, OthersKnow DEF Works
  <2>2. call'[i].tab = call[i].tab /\ call'[i].op = call[i].op /\ call[i].tab \in Tab /\ (Opfs(i)' <=> Opfs(i))
    BY <1>15, Working DEF Works, Opfs
  <2>3. /\ call[i].op # "load" /\ past'.replaced
        /\ \E l \in Key \cup {NoKey} : Moves(i, "changed", l)
    BY <1>15, <2>2, HeldKey DEF Changes
  <2>4. call[i].op = "reset" /\ Opfs(i) => row' = NoKey
    BY <1>15, <2>2, HoldsKey DEF Changes, Opfs
  <2>9. Knows(i)'
    BY <2>2, <2>3, <2>4, Places DEF Knows, At, Step
  <2> QED
    BY <2>1, <2>9 DEF SessionInv
<1>16. ASSUME NEW i \in Id, RemovesOld(i) PROVE SessionInv'
  <2>1. \A j \in Id \ {i} : Knows(j)'
    BY <1>16, OthersKnow DEF Works
  <2>2. call'[i].tab = call[i].tab /\ call'[i].op = call[i].op /\ call[i].tab \in Tab /\ (Opfs(i)' <=> Opfs(i))
    BY <1>16, Working DEF Works, Opfs
  <2>9. Knows(i)'
    BY <1>16, <2>2, Places DEF RemovesOld, Knows, At, Step
  <2> QED
    BY <2>1, <2>9 DEF SessionInv
<1>17. ASSUME NEW i \in Id, SessionEnds(i) PROVE SessionInv'
  <2>1. call'[i].step = "announce"
    BY <1>17, Places DEF SessionEnds, Step
  <2> QED
    BY <2>1, <1>17, OthersKnow DEF SessionInv, Knows, At
<1>18. ASSUME NEW i \in Id, SessionFails(i) PROVE SessionInv'
  <2>1. call'[i].step = "free"
    BY <1>18, Frees DEF SessionFails, KeysTypeOK
  <2> QED
    BY <2>1, <1>18, OthersKnow DEF SessionInv, Knows, At
<1>19. ASSUME NEW i \in Id, Announces(i) PROVE SessionInv'
  <2>1. /\ call'[i].step \in {"free", "waiting"} /\ UNCHANGED <<origin, memory>> /\ past'.replaced = past.replaced
        /\ \A j \in Id \ {i} : call'[j] = call[j]
    BY <1>19, Frees DEF Announces, KeysTypeOK
  <2> QED
    BY <2>1 DEF SessionInv, Knows, Opfs, OnOpfs, origin, At
<1>20. ASSUME NEW t \in Tab, Hears(t) PROVE SessionInv'
  BY <1>20 DEF Hears, OnOpfs, origin, SessionInv, Knows, Opfs, At
<1>21. ASSUME NEW t \in Tab, TabCloses(t) PROVE SessionInv'
  <2>1. /\ UNCHANGED origin /\ past'.replaced = past.replaced
        /\ \A j \in Id : call'[j] = IF call[j].tab = t THEN FreeCall ELSE call[j]
    BY <1>21 DEF TabCloses
  <2>2. ASSUME NEW j \in Id, call[j].tab # t PROVE Knows(j)'
    <3>1. call'[j] = call[j] /\ (call[j].tab \in Tab => (Opfs(j)' <=> Opfs(j)))
      BY <2>1, <2>2, <1>21 DEF TabCloses, Opfs, OnOpfs
    <3>2. call[j].step \in InSession => call[j].tab \in Tab
      BY DEF KeysTypeOK, WellFormed, InSession
    <3> QED
      BY <2>1, <3>1, <3>2 DEF SessionInv, Knows, At, InSession, origin
  <2>3. ASSUME NEW j \in Id, call[j].tab = t PROVE Knows(j)'
    BY <2>1, <2>3, Frees DEF Knows, At
  <2> QED
    BY <2>2, <2>3 DEF SessionInv
<1>22. CASE UNCHANGED keysVars
  BY <1>22 DEF keysVars, origin, tabs, OnOpfs, At, SessionInv, Knows, Opfs
<1> QED
  BY <1>1, <1>2, <1>3, <1>4, <1>5, <1>6, <1>7, <1>8, <1>9, <1>10, <1>11, <1>12,
     <1>13, <1>14, <1>15, <1>16, <1>17, <1>18, <1>19, <1>20, <1>21, <1>22 DEF KeysNext, Session

(* Every key that turns up anywhere was used before or is marked as used.  *)
LEMMA UsedStep == KeysTypeOK /\ UsedInv /\ [KeysNext]_keysVars => UsedInv'
<1> SUFFICES ASSUME KeysTypeOK, UsedInv, [KeysNext]_keysVars PROVE UsedInv'
  OBVIOUS
<1> USE InstallKeysAssumption, Parts
<1>1. ASSUME NEW i \in Id, NEW t \in Tab, Load(i, t) PROVE UsedInv'
  <2>1. call'[i].key = NoKey /\ \A j \in Id \ {i} : call'[j] = call[j]
    BY <1>1, Starts DEF Load, Step
  <2> QED
    BY <2>1, <1>1 DEF Load, origin, UsedInv
<1>2. ASSUME NEW i \in Id, NEW t \in Tab, Reset(i, t) PROVE UsedInv'
  <2>1. call'[i].key = NoKey /\ \A j \in Id \ {i} : call'[j] = call[j]
    BY <1>2, Starts DEF Reset, Step
  <2> QED
    BY <2>1, <1>2 DEF Reset, origin, tabs, UsedInv
<1>3. ASSUME NEW i \in Id, NEW t \in Tab, NEW k \in Key, Import(i, t, k) PROVE UsedInv'
  <2>1. call'[i].key = k /\ \A j \in Id \ {i} : call'[j] = call[j]
    BY <1>3, Starts DEF Import, Step
  <2> QED
    BY <2>1, <1>3 DEF Import, origin, tabs, UsedInv
<1>4. ASSUME NEW i \in Id, FileOpens(i) PROVE UsedInv'
  BY <1>4, Places DEF FileOpens, origin, tabs, Step, UsedInv
<1>5. ASSUME NEW i \in Id, FileRefused(i) PROVE UsedInv'
  BY <1>5, Frees DEF FileRefused, origin, tabs, UsedInv
<1>6. ASSUME NEW i \in Id, Opens(i) PROVE UsedInv'
  BY <1>6, Places DEF Opens, OnOpfs, origin, KeysTypeOK, Step, UsedInv
<1>7. ASSUME NEW i \in Id, RecordsNote(i) PROVE UsedInv'
  <2>1. call[i].tab \in Tab /\ \A j \in Id \ {i} : call'[j] = call[j]
    BY <1>7, Working DEF Works
  <2>2. call'[i].key = NoKey \/ call'[i].key = call[i].key
    BY <1>7, <2>1, Places DEF RecordsNote, Step
  <2> QED
    BY <2>1, <2>2, <1>7 DEF RecordsNote, tabs, UsedInv
<1>8. ASSUME NEW i \in Id, Copies(i) PROVE UsedInv'
  <2>1. call[i].tab \in Tab /\ \A j \in Id \ {i} : call'[j] = call[j]
    BY <1>8, Working DEF Works
  <2>2. PICK k \in Key : k \in used /\ Holds(call[i].tab, k) /\ Moves(i, "copied", k)
    BY <1>8, <2>1, HeldKey, HeldUsed DEF Copies, Inserted, UsedInv
  <2>3. call'[i].key = k
    BY <2>2, Places DEF Step
  <2>4. UNCHANGED <<used, past, seed>>
    BY <1>8 DEF Copies
  <2> QED
    BY <2>1, <2>2, <2>3, <2>4, HoldsUsed DEF UsedInv
<1>9. ASSUME NEW i \in Id, Retires(i) PROVE UsedInv'
  <2>1. call[i].tab \in Tab /\ \A j \in Id \ {i} : call'[j] = call[j]
    BY <1>9, Working DEF Works
  <2>2. call'[i].key = NoKey \/ call'[i].key = call[i].key
    BY <1>9, <2>1, Places DEF Retires, Step
  <2> QED
    BY <2>1, <2>2, <1>9 DEF Retires, Removes, tabs, UsedInv
<1>10. ASSUME NEW i \in Id, Reads(i) PROVE UsedInv'
  <2>1. call[i].tab \in Tab /\ \A j \in Id \ {i} : call'[j] = call[j]
    BY <1>10, Working DEF Works
  <2>2. call'[i].key = HeldBy(call[i].tab)
    BY <1>10, <2>1, HeldKey, Places DEF Reads, Step
  <2> QED
    BY <2>1, <2>2, HeldUsed, <1>10 DEF Reads, tabs, UsedInv
<1>11. ASSUME NEW i \in Id, Marks(i) PROVE UsedInv'
  <2>1. call[i].tab \in Tab /\ \A j \in Id \ {i} : call'[j] = call[j]
    BY <1>11, Working DEF Works
  <2>2. call'[i].key = HeldBy(call[i].tab)
    BY <1>11, <2>1, HeldKey, Places DEF Marks, Step
  <2> QED
    BY <2>1, <2>2, HeldUsed, <1>11 DEF Marks, tabs, UsedInv
<1>12. ASSUME NEW i \in Id, Drops(i) PROVE UsedInv'
  <2>1. call[i].tab \in Tab /\ \A j \in Id \ {i} : call'[j] = call[j]
    BY <1>12, Working DEF Works
  <2>2. call'[i].key = NoKey \/ call'[i].key = call[i].key
    BY <1>12, <2>1, Places DEF Drops, Step
  <2> QED
    BY <2>1, <2>2, <1>12 DEF Drops, Removes, tabs, UsedInv
<1>13. ASSUME NEW i \in Id, Generates(i) PROVE UsedInv'
  <2>1. call[i].tab \in Tab /\ \A j \in Id \ {i} : call'[j] = call[j]
    BY <1>13, Working DEF Works
  <2>2. PICK k \in Key : used' = used \cup {k} /\ Holds(call[i].tab, Inserted(call[i].tab, k))
                        /\ Moves(i, "closing", Inserted(call[i].tab, k))
    BY <1>13 DEF Generates
  <2>3. Inserted(call[i].tab, k) \in Key /\ Inserted(call[i].tab, k) \in used'
    BY <2>1, <2>2, HeldKey, HeldUsed DEF Inserted
  <2>4. call'[i].key \in used'
    BY <2>2, <2>3, Places DEF Step
  <2>5. UNCHANGED <<past, seed>>
    BY <1>13 DEF Generates
  <2>6. {row'} \cap Key \subseteq used' /\ \A u \in Tab : {memory'[u]} \cap Key \subseteq used'
    BY <2>1, <2>2, <2>3, HoldsUsed
  <2> QED
    BY <2>1, <2>2, <2>4, <2>5, <2>6 DEF UsedInv
<1>14. ASSUME NEW i \in Id, Ends(i) PROVE UsedInv'
  BY <1>14, Frees DEF Ends, origin, UsedInv
<1>15. ASSUME NEW i \in Id, Changes(i) PROVE UsedInv'
  <2>1. call[i].tab \in Tab /\ \A j \in Id \ {i} : call'[j] = call[j]
    BY <1>15, Working DEF Works
  <2>2. PICK k \in Key \cup {NoKey}, l \in Key \cup {NoKey} :
          Holds(call[i].tab, k) /\ Moves(i, "changed", l) /\ {k,
          l} \cap Key \subseteq used
    BY <1>15, <2>1, HeldKey, HeldUsed DEF Changes, UsedInv
  <2>3. call'[i].key = l
    BY <2>2, Places DEF Step
  <2>4. UNCHANGED <<used, seed>> /\ past'.gone \subseteq past.gone
    BY <1>15 DEF Changes
  <2>5. {row'} \cap Key \subseteq used' /\ \A u \in Tab : {memory'[u]} \cap Key \subseteq used'
    BY <2>1, <2>2, <2>4, HoldsUsed
  <2> QED
    BY <2>1, <2>2, <2>3, <2>4, <2>5 DEF UsedInv
<1>16. ASSUME NEW i \in Id, RemovesOld(i) PROVE UsedInv'
  <2>1. call[i].tab \in Tab /\ \A j \in Id \ {i} : call'[j] = call[j]
    BY <1>16, Working DEF Works
  <2>2. call'[i].key = NoKey \/ call'[i].key = call[i].key
    BY <1>16, <2>1, Places DEF RemovesOld, Step
  <2>3. past'.gone \subseteq past.gone \cup ({call[i].key, seed} \cap Key)
    BY <1>16 DEF RemovesOld, GoneWith
  <2> QED
    BY <2>1, <2>2, <2>3, <1>16 DEF RemovesOld, Removes, tabs, UsedInv
<1>17. ASSUME NEW i \in Id, SessionEnds(i) PROVE UsedInv'
  BY <1>17, Places DEF SessionEnds, origin, tabs, Step, UsedInv
<1>18. ASSUME NEW i \in Id, SessionFails(i) PROVE UsedInv'
  BY <1>18, Frees DEF SessionFails, origin, UsedInv
<1>19. ASSUME NEW i \in Id, Announces(i) PROVE UsedInv'
  <2>1. /\ call'[i].key = NoKey /\ UNCHANGED <<origin, memory, used>> /\ past'.gone = past.gone
        /\ \A j \in Id \ {i} : call'[j] = call[j]
    BY <1>19, Frees DEF Announces, KeysTypeOK
  <2> QED
    BY <2>1 DEF UsedInv, origin
<1>20. ASSUME NEW t \in Tab, Hears(t) PROVE UsedInv'
  BY <1>20 DEF Hears, origin, UsedInv
<1>21. ASSUME NEW t \in Tab, TabCloses(t) PROVE UsedInv'
  <2>1. /\ UNCHANGED <<origin, used>> /\ past'.gone = past.gone
        /\ \A j \in Id : call'[j].key \in {NoKey, call[j].key}
        /\ \A u \in Tab : memory'[u] \in {NoDb, memory[u]}
    BY <1>21, Frees DEF TabCloses
  <2> QED
    BY <2>1 DEF UsedInv, origin
<1>22. CASE UNCHANGED keysVars
  BY <1>22 DEF keysVars, origin, tabs, UsedInv
<1> QED
  BY <1>1, <1>2, <1>3, <1>4, <1>5, <1>6, <1>7, <1>8, <1>9, <1>10, <1>11, <1>12,
     <1>13, <1>14, <1>15, <1>16, <1>17, <1>18, <1>19, <1>20, <1>21, <1>22 DEF KeysNext, Session

(* Retires acts on a seed that is the row, Drops on one that is on record. *)
LEMMA KeptStep == KeysTypeOK /\ SessionInv /\ OldStorageKept /\ [KeysNext]_keysVars => OldStorageKept'
<1> SUFFICES ASSUME KeysTypeOK, SessionInv, OldStorageKept, [KeysNext]_keysVars PROVE OldStorageKept'
  OBVIOUS
<1> USE InstallKeysAssumption, Parts
<1>1. ASSUME NEW i \in Id, NEW t \in Tab, Load(i, t) PROVE OldStorageKept'
  BY <1>1 DEF Load, origin, OldStorageKept
<1>2. ASSUME NEW i \in Id, NEW t \in Tab, Reset(i, t) PROVE OldStorageKept'
  BY <1>2 DEF Reset, origin, OldStorageKept
<1>3. ASSUME NEW i \in Id, NEW t \in Tab, NEW k \in Key, Import(i, t, k) PROVE OldStorageKept'
  BY <1>3 DEF Import, origin, OldStorageKept
<1>4. ASSUME NEW i \in Id, FileOpens(i) PROVE OldStorageKept'
  BY <1>4 DEF FileOpens, origin, OldStorageKept
<1>5. ASSUME NEW i \in Id, FileRefused(i) PROVE OldStorageKept'
  BY <1>5 DEF FileRefused, origin, OldStorageKept
<1>6. ASSUME NEW i \in Id, Opens(i) PROVE OldStorageKept'
  BY <1>6 DEF Opens, origin, OldStorageKept
<1>7. ASSUME NEW i \in Id, RecordsNote(i) PROVE OldStorageKept'
  BY <1>7 DEF RecordsNote, Records, OldStorageKept
<1>8. ASSUME NEW i \in Id, Copies(i) PROVE OldStorageKept'
  <2>1. call[i].tab \in Tab
    BY <1>8, Working DEF Works
  <2>2. row # NoKey => row' = row
    BY <1>8 DEF Copies, Holds, Inserted, HeldBy
  <2>3. seed \in Key /\ UNCHANGED <<quarantine, seed, past>>
    BY <1>8 DEF Copies
  <2> QED
    BY <2>1, <2>2, <2>3, NoteKept, <1>8 DEF Copies, OldStorageKept
<1>9. ASSUME NEW i \in Id, Retires(i) PROVE OldStorageKept'
  <2>1. seed' # seed => call[i].key = seed /\ seed' = NoKey /\ call[i].key = row /\ call[i].key \in Key
    BY <1>9 DEF Retires, At, Removes, CanRetire, SessionInv, Knows, Opfs
  <2> QED
    BY <2>1, <1>9 DEF Retires, OldStorageKept
<1>10. ASSUME NEW i \in Id, Reads(i) PROVE OldStorageKept'
  BY <1>10, NoteKept DEF Reads, OldStorageKept
<1>11. ASSUME NEW i \in Id, Marks(i) PROVE OldStorageKept'
  BY <1>11, NoteKept DEF Marks, Records, OldStorageKept
<1>12. ASSUME NEW i \in Id, Drops(i) PROVE OldStorageKept'
  <2>1. seed' # seed => seed = Corrupt /\ "seed" \in quarantine
    BY <1>12 DEF Drops, At, CanRetire, SessionInv, Knows, Opfs
  <2> QED
    BY <2>1, <1>12 DEF Drops, OldStorageKept
<1>13. ASSUME NEW i \in Id, Generates(i) PROVE OldStorageKept'
  <2>1. call[i].tab \in Tab
    BY <1>13, Working DEF Works
  <2>2. row # NoKey => row' = row
    BY <1>13 DEF Generates, Holds, Inserted, HeldBy
  <2> QED
    BY <2>2, <1>13 DEF Generates, OldStorageKept
<1>14. ASSUME NEW i \in Id, Ends(i) PROVE OldStorageKept'
  BY <1>14 DEF Ends, origin, OldStorageKept
<1>15. ASSUME NEW i \in Id, Changes(i) PROVE OldStorageKept'
  <2>1. past'.note = past.note /\ past'.replaced /\ UNCHANGED <<note, quarantine>>
    BY <1>15 DEF Changes
  <2> QED
    BY <2>1 DEF OldStorageKept
<1>16. ASSUME NEW i \in Id, RemovesOld(i) PROVE OldStorageKept'
  <2>1. past'.note = past.note /\ past.replaced /\ past'.replaced /\ UNCHANGED <<note, quarantine>>
    BY <1>16 DEF RemovesOld, SessionInv, Knows
  <2> QED
    BY <2>1 DEF OldStorageKept
<1>17. ASSUME NEW i \in Id, SessionEnds(i) PROVE OldStorageKept'
  BY <1>17 DEF SessionEnds, origin, OldStorageKept
<1>18. ASSUME NEW i \in Id, SessionFails(i) PROVE OldStorageKept'
  <2>1. past'.note = past.note /\ past'.seed = past.seed /\ past'.replaced = past.replaced /\ UNCHANGED origin
    BY <1>18 DEF SessionFails
  <2> QED
    BY <2>1 DEF origin, OldStorageKept
<1>19. ASSUME NEW i \in Id, Announces(i) PROVE OldStorageKept'
  <2>1. past'.note = past.note /\ past'.seed = past.seed /\ past'.replaced = past.replaced /\ UNCHANGED origin
    BY <1>19 DEF Announces
  <2> QED
    BY <2>1 DEF origin, OldStorageKept
<1>20. ASSUME NEW t \in Tab, Hears(t) PROVE OldStorageKept'
  BY <1>20 DEF Hears, origin, OldStorageKept
<1>21. ASSUME NEW t \in Tab, TabCloses(t) PROVE OldStorageKept'
  <2>1. past'.note = past.note /\ past'.seed = past.seed /\ past'.replaced = past.replaced /\ UNCHANGED origin
    BY <1>21 DEF TabCloses
  <2> QED
    BY <2>1 DEF origin, OldStorageKept
<1>22. CASE UNCHANGED keysVars
  BY <1>22 DEF keysVars, origin, OldStorageKept
<1> QED
  BY <1>1, <1>2, <1>3, <1>4, <1>5, <1>6, <1>7, <1>8, <1>9, <1>10, <1>11, <1>12,
     <1>13, <1>14, <1>15, <1>16, <1>17, <1>18, <1>19, <1>20, <1>21, <1>22 DEF KeysNext, Session

(* Only Changes replaces a row that tabs may have loaded, and it has yet to*)
(* announce that; a load that ends brings the row.                         *)
LEMMA ToldStep == KeysTypeOK /\ SessionInv /\ ToldOrCurrent /\ [KeysNext]_keysVars => ToldOrCurrent'
<1> SUFFICES ASSUME KeysTypeOK, SessionInv, ToldOrCurrent, [KeysNext]_keysVars PROVE ToldOrCurrent'
  OBVIOUS
<1> USE InstallKeysAssumption, Parts
<1>1. ASSUME NEW i \in Id, NEW t \in Tab, Load(i, t) PROVE ToldOrCurrent'
  <2>1. call[i].step = "free" /\ \A j \in Id \ {i} : call'[j] = call[j]
    BY <1>1, Starts DEF Load, Step
  <2>2. \A u \in Tab : cached'[u] \in Key => cached[u] = cached'[u]
    BY <1>1 DEF Load
  <2> QED
    BY <2>1, <2>2, <1>1 DEF Load, origin, OnOpfs, Unannounced, ToldOrCurrent
<1>2. ASSUME NEW i \in Id, NEW t \in Tab, Reset(i, t) PROVE ToldOrCurrent'
  <2>1. call[i].step = "free" /\ \A j \in Id \ {i} : call'[j] = call[j]
    BY <1>2, Starts DEF Reset, Step
  <2>2. \A u \in Tab : cached'[u] \in Key => cached[u] = cached'[u]
    BY <1>2 DEF Reset, tabs
  <2> QED
    BY <2>1, <2>2, <1>2 DEF Reset, origin, tabs, OnOpfs, Unannounced, ToldOrCurrent
<1>3. ASSUME NEW i \in Id, NEW t \in Tab, NEW k \in Key, Import(i, t, k) PROVE ToldOrCurrent'
  <2>1. call[i].step = "free" /\ \A j \in Id \ {i} : call'[j] = call[j]
    BY <1>3, Starts DEF Import, Step
  <2>2. \A u \in Tab : cached'[u] \in Key => cached[u] = cached'[u]
    BY <1>3 DEF Import, tabs
  <2> QED
    BY <2>1, <2>2, <1>3 DEF Import, origin, tabs, OnOpfs, Unannounced, ToldOrCurrent
<1>4. ASSUME NEW i \in Id, FileOpens(i) PROVE ToldOrCurrent'
  <2>1. ~Unannounced(i) /\ \A j \in Id \ {i} : call'[j] = call[j]
    BY <1>4, Places DEF FileOpens, Unannounced, Step
  <2> QED
    BY <2>1, <1>4, StillTold DEF FileOpens, origin, tabs, OnOpfs, ToldOrCurrent
<1>5. ASSUME NEW i \in Id, FileRefused(i) PROVE ToldOrCurrent'
  <2>1. ~Unannounced(i) /\ \A j \in Id \ {i} : call'[j] = call[j]
    BY <1>5 DEF FileRefused, Unannounced
  <2> QED
    BY <2>1, <1>5, StillTold DEF FileRefused, origin, tabs, OnOpfs, ToldOrCurrent
<1>6. ASSUME NEW i \in Id, Opens(i) PROVE ToldOrCurrent'
  <2>1. ~Unannounced(i) /\ \A j \in Id \ {i} : call'[j] = call[j]
    BY <1>6, Places DEF Opens, Unannounced, Step
  <2>2. \A t \in Tab : OnOpfs(t)' => OnOpfs(t)
    BY <1>6 DEF Opens, OnOpfs, KeysTypeOK
  <2> QED
    BY <2>1, <2>2, <1>6, StillTold DEF Opens, origin, ToldOrCurrent
<1>7. ASSUME NEW i \in Id, RecordsNote(i) PROVE ToldOrCurrent'
  <2>1. /\ UNCHANGED <<cached, inbox>> /\ \A j \in Id \ {i} : call'[j] = call[j]
        /\ \A t \in Tab : OnOpfs(t)' <=> OnOpfs(t)
    BY <1>7, Working DEF Works
  <2>2. ~Unannounced(i)
    BY <1>7 DEF RecordsNote, At, Unannounced
  <2>3. UNCHANGED past /\ (row # NoKey => row' = row)
    BY <1>7 DEF RecordsNote
  <2> QED
    BY <2>1, <2>2, <2>3, StillTold DEF ToldOrCurrent
<1>8. ASSUME NEW i \in Id, Copies(i) PROVE ToldOrCurrent'
  <2>1. /\ UNCHANGED <<cached, inbox>> /\ \A j \in Id \ {i} : call'[j] = call[j]
        /\ \A t \in Tab : OnOpfs(t)' <=> OnOpfs(t)
    BY <1>8, Working DEF Works
  <2>2. ~Unannounced(i)
    BY <1>8, Resolving DEF Copies, Unannounced
  <2>3. UNCHANGED past /\ (row # NoKey => row' = row)
    BY <1>8 DEF Copies, Holds, Inserted, HeldBy
  <2> QED
    BY <2>1, <2>2, <2>3, StillTold DEF ToldOrCurrent
<1>9. ASSUME NEW i \in Id, Retires(i) PROVE ToldOrCurrent'
  <2>1. /\ UNCHANGED <<cached, inbox>> /\ \A j \in Id \ {i} : call'[j] = call[j]
        /\ \A t \in Tab : OnOpfs(t)' <=> OnOpfs(t)
    BY <1>9, Working DEF Works
  <2>2. ~Unannounced(i)
    BY <1>9 DEF Retires, At, Unannounced
  <2>3. UNCHANGED past /\ (row # NoKey => row' = row)
    BY <1>9 DEF Retires
  <2> QED
    BY <2>1, <2>2, <2>3, StillTold DEF ToldOrCurrent
<1>10. ASSUME NEW i \in Id, Reads(i) PROVE ToldOrCurrent'
  <2>1. /\ UNCHANGED <<cached, inbox>> /\ \A j \in Id \ {i} : call'[j] = call[j]
        /\ \A t \in Tab : OnOpfs(t)' <=> OnOpfs(t)
    BY <1>10, Working DEF Works
  <2>2. ~Unannounced(i)
    BY <1>10, Resolving DEF Reads, Unannounced
  <2>3. UNCHANGED past /\ (row # NoKey => row' = row)
    BY <1>10 DEF Reads
  <2> QED
    BY <2>1, <2>2, <2>3, StillTold DEF ToldOrCurrent
<1>11. ASSUME NEW i \in Id, Marks(i) PROVE ToldOrCurrent'
  <2>1. /\ UNCHANGED <<cached, inbox>> /\ \A j \in Id \ {i} : call'[j] = call[j]
        /\ \A t \in Tab : OnOpfs(t)' <=> OnOpfs(t)
    BY <1>11, Working DEF Works
  <2>2. ~Unannounced(i)
    BY <1>11, Resolving DEF Marks, Unannounced
  <2>3. UNCHANGED past /\ (row # NoKey => row' = row)
    BY <1>11 DEF Marks
  <2> QED
    BY <2>1, <2>2, <2>3, StillTold DEF ToldOrCurrent
<1>12. ASSUME NEW i \in Id, Drops(i) PROVE ToldOrCurrent'
  <2>1. /\ UNCHANGED <<cached, inbox>> /\ \A j \in Id \ {i} : call'[j] = call[j]
        /\ \A t \in Tab : OnOpfs(t)' <=> OnOpfs(t)
    BY <1>12, Working DEF Works
  <2>2. ~Unannounced(i)
    BY <1>12 DEF Drops, At, Unannounced
  <2>3. UNCHANGED past /\ (row # NoKey => row' = row)
    BY <1>12 DEF Drops
  <2> QED
    BY <2>1, <2>2, <2>3, StillTold DEF ToldOrCurrent
<1>13. ASSUME NEW i \in Id, Generates(i) PROVE ToldOrCurrent'
  <2>1. /\ UNCHANGED <<cached, inbox>> /\ \A j \in Id \ {i} : call'[j] = call[j]
        /\ \A t \in Tab : OnOpfs(t)' <=> OnOpfs(t)
    BY <1>13, Working DEF Works
  <2>2. ~Unannounced(i)
    BY <1>13 DEF Generates, At, Unannounced
  <2>3. UNCHANGED past /\ (row # NoKey => row' = row)
    BY <1>13 DEF Generates, Holds, Inserted, HeldBy
  <2> QED
    BY <2>1, <2>2, <2>3, StillTold DEF ToldOrCurrent
<1>14. ASSUME NEW i \in Id, Ends(i) PROVE ToldOrCurrent'
  <2>1. ~Unannounced(i) /\ \A j \in Id \ {i} : call'[j] = call[j]
    BY <1>14 DEF Ends, At, Unannounced
  <2>2. \A t \in Tab : cached'[t] = cached[t] \/ (t = call[i].tab /\ cached'[t] = call[i].key)
    BY <1>14 DEF Ends
  <2>3. Opfs(i) => call[i].key = row
    BY <1>14 DEF Ends, SessionInv, Knows
  <2>4. UNCHANGED <<row, memory, inbox, past>>
    BY <1>14 DEF Ends, origin
  <2> QED
    BY <2>1, <2>2, <2>3, <2>4, StillTold DEF OnOpfs, Opfs, ToldOrCurrent
<1>15. ASSUME NEW i \in Id, Changes(i) PROVE ToldOrCurrent'
  <2>1. /\ UNCHANGED <<cached, inbox>> /\ \A j \in Id \ {i} : call'[j] = call[j]
        /\ call'[i].op = call[i].op /\ call'[i].step \in {"changed", "closing"}
    BY <1>15, Working, HeldKey, Places, ZenonT(40) DEF Works, Changes, Step
  <2>2. Unannounced(i)'
    BY <1>15, <2>1 DEF Changes, Unannounced
  <2> QED
    BY <2>2 DEF ToldOrCurrent
<1>16. ASSUME NEW i \in Id, RemovesOld(i) PROVE ToldOrCurrent'
  <2>1. /\ UNCHANGED <<cached, inbox>> /\ \A j \in Id \ {i} : call'[j] = call[j]
        /\ call'[i].op = call[i].op /\ call'[i].step \in {"changed", "closing"}
    BY <1>16, Working, Places DEF Works, RemovesOld, Step
  <2>2. Unannounced(i)'
    BY <1>16, <2>1 DEF RemovesOld, Unannounced
  <2> QED
    BY <2>2 DEF ToldOrCurrent
<1>17. ASSUME NEW i \in Id, SessionEnds(i) PROVE ToldOrCurrent'
  <2>1. call'[i].op = call[i].op /\ call'[i].step = "announce"
    BY <1>17, Places DEF SessionEnds, Step
  <2> QED
    BY <2>1, <1>17 DEF SessionEnds, Unannounced, ToldOrCurrent
<1>18. ASSUME NEW i \in Id, SessionFails(i) PROVE ToldOrCurrent'
  <2>1. \A j \in Id \ {i} : call'[j] = call[j]
    BY <1>18 DEF SessionFails
  <2>2. past'.untold <=> past.untold \/ Unannounced(i)
    BY <1>18 DEF SessionFails, KeysTypeOK, Past
  <2>3. \A t \in Tab : cached'[t] \in {NoKey, cached[t]}
    BY <1>18 DEF SessionFails
  <2>4. UNCHANGED <<row, memory, inbox>>
    BY <1>18 DEF SessionFails, origin
  <2> QED
    BY <2>1, <2>2, <2>3, <2>4, StillTold DEF OnOpfs, ToldOrCurrent
<1>19. ASSUME NEW i \in Id, Announces(i) PROVE ToldOrCurrent'
  <2>1. call[i].tab \in Tab
    BY <1>19 DEF Announces, KeysTypeOK, WellFormed
  <2>2. cached'[call[i].tab] \notin Key
    BY <1>19, <2>1 DEF Announces, Heard, KeysTypeOK
  <2>3. \A t \in Tab \ {call[i].tab} : inbox'[t] > 0
    BY <1>19 DEF Announces, KeysTypeOK
  <2> QED
    BY <2>2, <2>3 DEF ToldOrCurrent
<1>20. ASSUME NEW t \in Tab, Hears(t) PROVE ToldOrCurrent'
  <2>1. cached'[t] \notin Key /\ \A u \in Tab \ {t} : cached'[u] = cached[u] /\ inbox'[u] = inbox[u]
    BY <1>20 DEF Hears, KeysTypeOK
  <2> QED
    BY <2>1, <1>20 DEF Hears, origin, OnOpfs, Unannounced, ToldOrCurrent
<1>21. ASSUME NEW t \in Tab, TabCloses(t) PROVE ToldOrCurrent'
  <2>1. /\ cached'[t] \notin Key /\ UNCHANGED row
        /\ \A u \in Tab \ {t} : cached'[u] = cached[u] /\ inbox'[u] = inbox[u] /\ memory'[u] = memory[u]
    BY <1>21 DEF TabCloses, origin, KeysTypeOK
  <2>2. past'.untold <=> past.untold \/ \E j \in Id : call[j].tab = t /\ Unannounced(j)
    BY <1>21 DEF TabCloses, KeysTypeOK, Past
  <2>3. \A j \in Id : call[j].tab # t => call'[j] = call[j]
    BY <1>21 DEF TabCloses
  <2> QED
    BY <2>1, <2>2, <2>3 DEF OnOpfs, Unannounced, ToldOrCurrent
<1>22. CASE UNCHANGED keysVars
  BY <1>22 DEF keysVars, origin, tabs, OnOpfs, Unannounced, ToldOrCurrent
<1> QED
  BY <1>1, <1>2, <1>3, <1>4, <1>5, <1>6, <1>7, <1>8, <1>9, <1>10, <1>11, <1>12,
     <1>13, <1>14, <1>15, <1>16, <1>17, <1>18, <1>19, <1>20, <1>21, <1>22 DEF KeysNext, Session

(* Rows come from old seeds, which are not gone, from unused keys, or from *)
(* imports.                                                                *)
LEMMA GoneStep == KeysTypeOK /\ SessionInv /\ UsedInv /\ GoneInv /\ [KeysNext]_keysVars => GoneInv'
<1> SUFFICES ASSUME KeysTypeOK, SessionInv, UsedInv, GoneInv, [KeysNext]_keysVars PROVE GoneInv'
  OBVIOUS
<1> USE InstallKeysAssumption, Parts
<1>1. ASSUME NEW i \in Id, NEW t \in Tab, Load(i, t) PROVE GoneInv'
  BY <1>1 DEF Load, origin, GoneInv
<1>2. ASSUME NEW i \in Id, NEW t \in Tab, Reset(i, t) PROVE GoneInv'
  BY <1>2 DEF Reset, origin, GoneInv
<1>3. ASSUME NEW i \in Id, NEW t \in Tab, NEW k \in Key, Import(i, t, k) PROVE GoneInv'
  BY <1>3 DEF Import, origin, GoneInv
<1>4. ASSUME NEW i \in Id, FileOpens(i) PROVE GoneInv'
  BY <1>4 DEF FileOpens, origin, GoneInv
<1>5. ASSUME NEW i \in Id, FileRefused(i) PROVE GoneInv'
  BY <1>5 DEF FileRefused, origin, GoneInv
<1>6. ASSUME NEW i \in Id, Opens(i) PROVE GoneInv'
  BY <1>6 DEF Opens, origin, GoneInv
<1>7. ASSUME NEW i \in Id, RecordsNote(i) PROVE GoneInv'
  BY <1>7 DEF RecordsNote, GoneInv
<1>8. ASSUME NEW i \in Id, Copies(i) PROVE GoneInv'
  <2>1. row' \in {row, seed} /\ UNCHANGED <<seed, past>>
    BY <1>8 DEF Copies, Holds, Inserted, HeldBy
  <2> QED
    BY <2>1 DEF GoneInv
<1>9. ASSUME NEW i \in Id, Retires(i) PROVE GoneInv'
  <2>1. seed' \in {seed, NoKey} /\ UNCHANGED <<row, past>>
    BY <1>9 DEF Retires, Removes
  <2> QED
    BY <2>1 DEF GoneInv, UsedInv, KeysTypeOK
<1>10. ASSUME NEW i \in Id, Reads(i) PROVE GoneInv'
  BY <1>10 DEF Reads, GoneInv
<1>11. ASSUME NEW i \in Id, Marks(i) PROVE GoneInv'
  BY <1>11 DEF Marks, GoneInv
<1>12. ASSUME NEW i \in Id, Drops(i) PROVE GoneInv'
  <2>1. seed' \in {seed, NoKey} /\ UNCHANGED <<row, past>>
    BY <1>12 DEF Drops, Removes
  <2> QED
    BY <2>1 DEF GoneInv, UsedInv, KeysTypeOK
<1>13. ASSUME NEW i \in Id, Generates(i) PROVE GoneInv'
  <2>1. row' \notin past.gone
    BY <1>13 DEF Generates, Holds, Inserted, HeldBy, GoneInv, UsedInv
  <2> QED
    BY <2>1, <1>13 DEF Generates, GoneInv
<1>14. ASSUME NEW i \in Id, Ends(i) PROVE GoneInv'
  BY <1>14 DEF Ends, origin, GoneInv
<1>15. ASSUME NEW i \in Id, Changes(i) PROVE GoneInv'
  <2>1. call[i].tab \in Tab
    BY <1>15, Working DEF Works
  <2>2. CASE call[i].op = "reset"
    <3>1. past'.gone = past.gone /\ seed' = seed /\ row' \in {row, NoKey}
      BY <1>15, <2>1, <2>2, HoldsKey DEF Changes
    <3> QED
      BY <3>1 DEF GoneInv, UsedInv, KeysTypeOK
  <2>3. CASE call[i].op = "import"
    <3>1. past'.gone = past.gone \ {call[i].key} /\ seed' = seed /\ row' \in {row, call[i].key}
      BY <1>15, <2>1, <2>3, HoldsKey DEF Changes
    <3> QED
      BY <3>1 DEF GoneInv
  <2> QED
    BY <1>15, <2>2, <2>3 DEF Changes
<1>16. ASSUME NEW i \in Id, RemovesOld(i) PROVE GoneInv'
  <2>1. row' = row /\ seed' \in {NoKey, seed}
    BY <1>16 DEF RemovesOld, Removes
  <2>2. CASE call[i].op = "reset" /\ OnOpfs(call[i].tab)
    <3>1. past'.gone = past.gone \cup ({call[i].key, seed} \cap (Key \ {seed'})) /\ row = NoKey
      BY <1>16, <2>2 DEF RemovesOld, GoneWith, SessionInv, Knows, Opfs, At
    <3> QED
      BY <2>1, <3>1 DEF GoneInv
  <2>3. CASE ~(call[i].op = "reset" /\ OnOpfs(call[i].tab))
    <3>1. past'.gone = past.gone
      BY <1>16, <2>3 DEF RemovesOld, GoneWith
    <3> QED
      BY <2>1, <3>1 DEF GoneInv, UsedInv, KeysTypeOK
  <2> QED
    BY <2>2, <2>3
<1>17. ASSUME NEW i \in Id, SessionEnds(i) PROVE GoneInv'
  BY <1>17 DEF SessionEnds, origin, GoneInv
<1>18. ASSUME NEW i \in Id, SessionFails(i) PROVE GoneInv'
  <2>1. past'.gone = past.gone /\ UNCHANGED origin
    BY <1>18 DEF SessionFails
  <2> QED
    BY <2>1 DEF origin, GoneInv
<1>19. ASSUME NEW i \in Id, Announces(i) PROVE GoneInv'
  <2>1. past'.gone = past.gone /\ UNCHANGED origin
    BY <1>19 DEF Announces
  <2> QED
    BY <2>1 DEF origin, GoneInv
<1>20. ASSUME NEW t \in Tab, Hears(t) PROVE GoneInv'
  BY <1>20 DEF Hears, origin, GoneInv
<1>21. ASSUME NEW t \in Tab, TabCloses(t) PROVE GoneInv'
  <2>1. past'.gone = past.gone /\ UNCHANGED origin
    BY <1>21 DEF TabCloses
  <2> QED
    BY <2>1 DEF origin, GoneInv
<1>22. CASE UNCHANGED keysVars
  BY <1>22 DEF keysVars, origin, GoneInv
<1> QED
  BY <1>1, <1>2, <1>3, <1>4, <1>5, <1>6, <1>7, <1>8, <1>9, <1>10, <1>11, <1>12,
     <1>13, <1>14, <1>15, <1>16, <1>17, <1>18, <1>19, <1>20, <1>21, <1>22 DEF KeysNext, Session

-----------------------------------------------------------------------------
(* The invariant holds in whatever storage an older release left.          *)
LEMMA InitKeys == KeysInit => KeysInv
<1> SUFFICES ASSUME KeysInit PROVE KeysInv
  OBVIOUS
<1> USE InstallKeysAssumption
<1>1. \A i \in Id : call[i] = FreeCall
  BY DEF KeysInit
<1>2. KeysTypeOK
  <2>1. call \in [Id -> Call] /\ \A i \in Id : WellFormed(call[i])
    BY <1>1, Frees DEF KeysInit, WellFormed
  <2>2. past \in Past
    BY DEF KeysInit, Past
  <2> QED
    BY <2>1, <2>2 DEF KeysInit, KeysTypeOK
<1>3. LockInv /\ SessionInv
  BY <1>1, Frees DEF LockInv, SessionInv, Knows, InSession, At
<1>4. past.gone = {} /\ past.note = note /\ past.seed = seed
  BY DEF KeysInit
<1>5. UsedInv /\ GoneInv
  BY <1>1, <1>4 DEF KeysInit, UsedInv, GoneInv
<1>6. OldStorageKept /\ ToldOrCurrent
  BY <1>4 DEF KeysInit, OldStorageKept, ToldOrCurrent
<1> QED
  BY <1>2, <1>3, <1>5, <1>6 DEF KeysInv

(* The invariant is inductive.                                             *)
LEMMA StepKeys == KeysInv /\ [KeysNext]_keysVars => KeysInv'
BY TypeStep, LockStep, SessionStep, UsedStep, KeptStep, ToldStep, GoneStep DEF KeysInv

(* The invariant holds in every reachable state.                           *)
LEMMA KeysSafe == KeysSpec => []KeysInv
BY InitKeys, StepKeys, PTL DEF KeysSpec

(* Every reachable state is well typed, for any number of tabs and calls.  *)
THEOREM KeysTypeCorrect == KeysSpec => []KeysTypeOK
<1>1. KeysInv => KeysTypeOK
  BY DEF KeysInv
<1> QED
  BY <1>1, KeysSafe, PTL

(* One call at a time is in a session, whatever tabs close and fail.       *)
THEOREM OneSession ==
    KeysSpec => [](\A i, j \in Id : {call[i].step, call[j].step} \subseteq InSession => i = j)
<1>1. KeysInv => \A i, j \in Id : {call[i].step, call[j].step} \subseteq InSession => i = j
  BY DEF KeysInv, LockInv
<1> QED
  BY <1>1, KeysSafe, PTL

(* migrateLegacySeed copies, verifies and only then retires: no crash loses *)
(* an old seed, a corrupt one or an old note.                               *)
THEOREM OldStorageSafe == KeysSpec => []OldStorageKept
<1>1. KeysInv => OldStorageKept
  BY DEF KeysInv
<1> QED
  BY <1>1, KeysSafe, PTL

(* The announcement channel: a tab with another key than the stored one is *)
(* about to be told.                                                       *)
THEOREM TabsAreTold == KeysSpec => []ToldOrCurrent
<1>1. KeysInv => ToldOrCurrent
  BY DEF KeysInv
<1> QED
  BY <1>1, KeysSafe, PTL

(* A key that was reset does not come back.                                *)
THEOREM ResetsHold == KeysSpec => []ResetHolds
<1>1. KeysInv => ResetHolds
  BY DEF KeysInv, GoneInv, ResetHolds
<1> QED
  BY <1>1, KeysSafe, PTL
=============================================================================
