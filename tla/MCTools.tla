------------------------------ MODULE MCTools ------------------------------
(* The tools that make a release and read one back, for TLC: the snapshot of  *)
(* the feeds, the stream of aliases, the build of a bundle list by list, and  *)
(* the gates over the live origin.  The four share no variable: a behaviour   *)
(* moves one of them, chosen at the start (the variable tool).                *)
EXTENDS SourceSnapshot, AliasStream, BundleBuild, OriginGate

CONSTANTS feed1, feed2, p1, p2  \* two feeds, two publishers

VARIABLE part  \* what moves in this behaviour

toolsVars == <<part, snapVars, streamVars, buildVars, gateVars>>
Tools == {"snapshot", "stream", "build", "gate"}
FeedPair == {feed1, feed2}
PublisherPair == {p1, p2}
FirstFeed == {feed1}
SourcePair == <<"us", "uk">>
OneEnriched == {"us"}

\* a stream that is cut anywhere: two heads, three records, noise between them; and a party
\* that begins inside another, with a close too many
Party(b) == PartyOpen \o b \o PartyClose
StreamHeads == {<<"l", "c">>, <<"c", "<">>}
StreamBlocks == {<<"1", "c">>, <<"1", "l", "a">>, <<"2", "<", "a">>}
StreamNoise == {<<>>, <<"<">>, <<"/">>}
StreamFeeds ==
  {h \o ScriptsClose \o n \o Party(b) \o m \o Party(c) \o <<"c">> :
     h \in StreamHeads, n \in StreamNoise, b \in StreamBlocks, m \in StreamNoise, c \in StreamBlocks}
  \cup {<<"l">> \o ScriptsClose \o Party(<<"1", "<", "P", "2", "a">>) \o PartyClose \o Party(<<"1", "c">>)}

\* trees that share chunks: one from before the sequence, one that is whole, one that lost a
\* chunk on its way, one whose age and count cannot be believed, one that we did not sign, one with a field dropped
\* and a file that is not the one addressed, one stamped in the future that does not say where
\* its source stands and has an empty list
ListEntry(f, source, stale, reason, count) ==
  [fetchedAt |-> f, source |-> source, stale |-> stale, reason |-> reason, count |-> count]
LegacyEntry == ListEntry(Absent, Absent, Absent, Absent, 1)
FreshEntry == ListEntry(1, Null, FALSE, Null, 1)
CarriedEntry == ListEntry(0, 0, TRUE, "feed", 1)
InDir(d, c) == [dir |-> d, chunks |-> c]
WholeTree ==
  [version |-> 1, sequence |-> 1, signed |-> TRUE, unsound |-> {}, counted |-> TRUE, lost |-> {}, made |-> 1,
   lists |-> [list |-> FreshEntry, other |-> CarriedEntry],
   files |-> <<InDir("list", <<"a", "b">>), InDir("other", <<"b">>), InDir("catalog", <<"c">>)>>]
SevenTrees ==
  << [WholeTree EXCEPT !.sequence = Absent, !.made = 0, !.lists = [list |-> LegacyEntry, other |-> LegacyEntry]],
     [WholeTree EXCEPT !.version = 2, !.sequence = 2, !.files[3].chunks = <<"d">>, !.lists.list = LegacyEntry],
     [WholeTree EXCEPT !.version = 2, !.sequence = 3, !.lost = {"a"}, !.files[3].chunks = <<"d">>, !.lists = [list |-> FreshEntry]],
     [WholeTree EXCEPT !.version = Malformed, !.sequence = 4, !.counted = FALSE, !.lists.list.fetchedAt = Malformed],
     [WholeTree EXCEPT !.sequence = 9, !.signed = FALSE],
     [WholeTree EXCEPT !.sequence = 5, !.lists.list.stale = Absent, !.unsound = {"list"}],
     [WholeTree EXCEPT !.sequence = 6,
                       !.lists = [list |-> ListEntry(9, Absent, FALSE, Null, 1), third |-> ListEntry(1, 1, FALSE, Null, 0)]] >>
Expectations ==
  {[version |-> 2, sequence |-> 2], [version |-> Absent, sequence |-> Absent],
   [version |-> 2, sequence |-> Malformed]}
StrictGrading == [age |-> 1, carry |-> Absent, expect |-> {}]
SmokeGrading == [age |-> 1, carry |-> 2, expect |-> {"list", "other"}]
BothGradings == {StrictGrading, SmokeGrading}
SomeLimits == {Absent, Malformed, 0}
SomeCeilings == {Null, 1}

\* the tools that do not move stay in one initial state
ToolsInit ==
  /\ SnapInit /\ GateInit
  /\ StreamInit /\ (part # "stream" => feed = CHOOSE f \in StreamFeeds : TRUE)
  /\ BuildInit /\ (part # "build" => origin.lists["us"] = LegacyCopy)

ToolsNext ==
  \/ part = "snapshot" /\ UNCHANGED <<part, streamVars, buildVars, gateVars>> /\ SnapshotNext
  \/ part = "stream" /\ UNCHANGED <<part, snapVars, buildVars, gateVars>> /\ StreamNext
  \/ part = "build" /\ UNCHANGED <<part, snapVars, streamVars, gateVars>> /\ BuildNext
  \/ part = "gate" /\ UNCHANGED <<part, snapVars, streamVars, buildVars>> /\ GateNext
=============================================================================
