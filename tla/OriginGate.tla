------------------------------ MODULE OriginGate ------------------------------
(* The tools that read the live origin back: the gate after a deploy and the *)
(* next sequence (verifyPublishedOrigin.ts), the copy of the whole bundle    *)
(* for a code deploy (mirrorPublishedOrigin.ts) and of one list for a build  *)
(* (carryForwardList.ts), and the grading of its age                         *)
(* (checkPublishedFreshness.ts).  While a deploy spreads, each request may   *)
(* be answered from any tree that some edge still holds, or fail.            *)
EXTENDS Integers, Sequences, FiniteSets, SequencesExt, FiniteSetsExt, ListAge

CONSTANTS DeployedTrees,        \* the deployments: see GateAssumption
          Pool,         \* VERIFY_CONCURRENCY
          Expected,     \* what --expect-version/-sequence ask, Absent or Malformed in each
          AgeLimits,    \* the values of --max-age-days and --max-carried-age-days
          Gradings,     \* --max-age-hours, --carry-ceiling-days, --expect-lists of the grader
          Tries,        \* --attempts
          MaxDay, MaxDeploys  \* bounds

Tree == DOMAIN DeployedTrees

\* What a catalog says of a list: each field may be missing or be no value of its kind.
Stamps == Nat \cup {Absent, Malformed, Null}
ListEntries == [fetchedAt : Stamps, source : Stamps, stale : BOOLEAN \cup {Absent, Malformed},
                reason : {"feed", Null, Absent, Malformed}, count : Nat \cup {Absent}]

\* A tree: its pointer (version, a day; sequence, Absent before there was one; whether it
\* bears our signature), the chunks of its files in the manifest's order, the files whose
\* bytes are not the ones addressed, when it says it was made and what it says of each list,
\* whether the list's records are well formed and as many as that, and the chunks the upload
\* lost.
TreeFields == {"version", "sequence", "signed", "files", "unsound", "made", "lists", "counted", "lost"}
ManifestFiles == [dir : STRING, chunks : Seq(STRING)]

ASSUME GateAssumption ==
  /\ DeployedTrees \in Seq(Range(DeployedTrees)) /\ DeployedTrees # <<>>
  /\ \A t \in Tree :
       /\ DOMAIN DeployedTrees[t] = TreeFields /\ DeployedTrees[t].files \in Seq(ManifestFiles)
       /\ DeployedTrees[t].made \in Stamps /\ DeployedTrees[t].signed \in BOOLEAN
       /\ \A l \in DOMAIN DeployedTrees[t].lists : DeployedTrees[t].lists[l] \in ListEntries
  /\ Gradings \subseteq [age : Nat, carry : Nat \cup {Absent}, expect : SUBSET STRING]
  /\ {Pool, Tries, MaxDay, MaxDeploys} \subseteq Nat \ {0}

VARIABLES day, held,   \* the trees some edge answers from
          deploys,     \* bound
          tool,        \* the tool at work
          out          \* what the mirror has written

gateVars == <<day, held, deploys, tool, out>>

NoChunk == [taken |-> FALSE]
Chunk(h) == [taken |-> TRUE, hash |-> h]

NewTool(kind, expects, limit, dir) ==
  [kind |-> kind, expects |-> expects, limit |-> limit, dir |-> dir, phase |-> "pointer", tries |-> 1,
   day |-> day, raw |-> 0, pointer |-> 0, next |-> 1, busy |-> [w \in 1..Pool |-> NoChunk],
   seen |-> {}, result |-> Null]

GateInit ==
  /\ day = 1 /\ held = {1} /\ deploys = 0 /\ out = <<>>
  /\ tool = [NewTool("none", [version |-> Absent, sequence |-> Absent], Absent, "") EXCEPT !.phase = "passed"]

GateTypeOK ==
  /\ day \in 1..MaxDay /\ held \in SUBSET Tree /\ held # {} /\ deploys \in 0..MaxDeploys
  /\ tool.kind \in {"none", "verify", "sequence", "mirror", "carry", "grade"}
  /\ tool.phase \in {"raw", "pointer", "manifest", "chunks", "waiting", "writing", "passed", "failed"}
  /\ tool.tries \in 1..Tries /\ tool.pointer \in 0..Len(DeployedTrees)

-----------------------------------------------------------------------------
(* The origin *)

Deploys(t) ==
  /\ deploys < MaxDeploys /\ deploys' = deploys + 1
  /\ held' = held \cup {t} /\ UNCHANGED <<day, tool, out>>

\* An edge drops a tree that was replaced.
Spreads(t) ==
  /\ t \in held /\ held # {t} /\ held' = held \ {t} /\ UNCHANGED <<day, deploys, tool, out>>

DayPasses == day < MaxDay /\ day' = day + 1 /\ UNCHANGED <<held, deploys, tool, out>>

-----------------------------------------------------------------------------
(* The tools *)

ToolAt(phase) == tool.phase = phase
Quietly == UNCHANGED <<day, held, deploys, out>>
\* A flag that is not a number of the kind it must be ends the tool before any request.
ArgumentsParse(call) == call.expects.sequence # Malformed /\ call.limit # Malformed

Invokes(call) ==
  /\ tool.kind = "none"
  /\ tool' = IF ~ArgumentsParse(call) THEN [call EXCEPT !.phase = "failed"]
             ELSE [call EXCEPT !.phase = IF call.kind = "mirror" THEN "raw" ELSE "pointer"]
  /\ Quietly

\* Only the gate tries again, and the whole of it.
Retried == IF tool.kind = "verify" /\ tool.tries < Tries THEN "waiting" ELSE "failed"
Aborts  == tool' = [tool EXCEPT !.phase = Retried]

\* The edge fails, answers with other bytes, or they do not verify.
RequestFails == tool.phase \in {"raw", "pointer", "manifest", "chunks"} /\ Aborts /\ Quietly

TriesAgain ==
  /\ ToolAt("waiting")
  /\ tool' = [NewTool(tool.kind, tool.expects, tool.limit, tool.dir) EXCEPT !.tries = tool.tries + 1]
  /\ Quietly

\* The mirror takes the bytes of the pointer first, and keeps them as they are.
ReadsRaw ==
  /\ ToolAt("raw")
  /\ \E t \in held : tool' = [tool EXCEPT !.raw = t, !.phase = "pointer"]
  /\ Quietly

\* A pointer without a sequence is believed by the tool that computes the next one alone.
IsPointer(t) == DeployedTrees[t].signed /\ (tool.kind # "sequence" => DeployedTrees[t].sequence # Absent)
AsExpected(t, expects) == \A f \in {"version", "sequence"} : expects[f] \in {Absent, DeployedTrees[t][f]}

BundleAge(t) == IF DeployedTrees[t].version = Malformed THEN Null ELSE tool.day - DeployedTrees[t].version
Within(age, limit) == IF limit = Absent THEN TRUE ELSE IF age = Null THEN FALSE ELSE age <= limit

Admitted(t) ==
  /\ IsPointer(t)
  /\ tool.kind = "verify" => AsExpected(t, tool.expects)
  /\ tool.kind = "mirror" => Within(BundleAge(t), tool.limit)

NextSequence(t) == IF DeployedTrees[t].sequence = Absent THEN 1 ELSE DeployedTrees[t].sequence + 1

PointerComes(t) ==
  /\ ToolAt("pointer") /\ t \in held
  /\ IF ~Admitted(t) THEN Aborts
     ELSE tool' = IF tool.kind = "sequence"
                    THEN [tool EXCEPT !.pointer = t, !.phase = "passed", !.result = NextSequence(t)]
                    ELSE [tool EXCEPT !.pointer = t, !.phase = "manifest"]
  /\ Quietly

\* The gate and the mirror ask for each chunk once; the list's files are put together in
\* the order of the manifest, chunk after chunk, and the catalog with them.
ChunksOf(t) == UNION {Range(f.chunks) : f \in Range(DeployedTrees[t].files)}
ChunksIn(t, dirs) ==
  FlattenSeq([i \in DOMAIN DeployedTrees[t].files |->
                IF DeployedTrees[t].files[i].dir \in dirs THEN DeployedTrees[t].files[i].chunks ELSE <<>>])
ChunksAsked(g) ==
  IF g.kind \in {"carry", "grade"} THEN ChunksIn(g.pointer, {g.dir, "catalog"}) ELSE SetToSeq(ChunksOf(g.pointer))

HasList(t, dir) == \E i \in DOMAIN DeployedTrees[t].files : DeployedTrees[t].files[i].dir = dir

\* Mutant of Addressed: the bytes of a manifest are believed whatever their hash.
AnyManifest(asked, got) == TRUE
Addressed(asked, got) == asked = got

\* The manifest is asked for by its hash; an edge with another tree answers with something else.
ManifestComes(t) ==
  /\ ToolAt("manifest") /\ t \in held
  /\ IF ~Addressed(tool.pointer, t) \/ (tool.kind \in {"carry", "grade"} /\ ~HasList(t, tool.dir)) THEN Aborts
     ELSE tool' = [tool EXCEPT !.phase = "chunks"]
  /\ Quietly

\* The gate checks several chunks at once; the others take them one by one.
Workers == IF tool.kind = "verify" THEN 1..Pool ELSE {1}
Idle(w) == ~tool.busy[w].taken

TakesChunk(w) ==
  /\ ToolAt("chunks") /\ w \in Workers /\ Idle(w) /\ tool.next <= Len(ChunksAsked(tool))
  /\ tool' = [tool EXCEPT !.busy[w] = Chunk(ChunksAsked(tool)[tool.next]), !.next = @ + 1]
  /\ Quietly

ChunkSeen(w) ==
  /\ ToolAt("chunks") /\ ~Idle(w)
  /\ \E t \in held : tool.busy[w].hash \in ChunksOf(t) \ DeployedTrees[t].lost
  /\ tool' = [tool EXCEPT !.busy[w] = NoChunk, !.seen = @ \cup {tool.busy[w].hash}]
  /\ Quietly

\* Mutant of PoolDone: the chunks still on their way are not waited for.
PoolDoneEarly(g) == g.next > Len(ChunksAsked(g))

PoolDone(g) == g.next > Len(ChunksAsked(g)) /\ \A w \in 1..Pool : ~g.busy[w].taken

GatePasses ==
  /\ ToolAt("chunks") /\ tool.kind = "verify" /\ PoolDone(tool)
  /\ tool' = [tool EXCEPT !.phase = "passed"] /\ Quietly

\* The list's files are the ones addressed, its records as many as it says, and it is not
\* older than the build may carry it: by the clock of now.
CarriedAge(t) == ResolveListAge(DeployedTrees[t].lists[tool.dir], DeployedTrees[t].made)
Carryable(t, limit) ==
  /\ DeployedTrees[t].unsound \cap {tool.dir, "catalog"} = {}
  /\ tool.dir \in DOMAIN DeployedTrees[t].lists /\ DeployedTrees[t].counted
  /\ IF CarriedAge(t) = Null THEN FALSE ELSE Within(day - CarriedAge(t).at, limit)

CarryEnds ==
  /\ ToolAt("chunks") /\ tool.kind = "carry" /\ PoolDone(tool)
  /\ tool' = IF Carryable(tool.pointer, tool.limit)
               THEN [tool EXCEPT !.phase = "passed", !.day = day, !.result = CarriedAge(tool.pointer).at]
               ELSE [tool EXCEPT !.phase = "failed"]
  /\ Quietly

\* The grader: how old a list is, by the clock of its start, in the unit of its ceilings.
GradedAge(entry, made) ==
  LET age == ResolveListAge(entry, made) IN IF age = Null THEN Null ELSE tool.day - age.at
Past(age, ceiling) == IF age = Null THEN TRUE ELSE age > ceiling

\* Declared carried, where a smoke allows it, it has a ceiling of its own.
FreshnessBreach(entry, made) ==
  LET age == GradedAge(entry, made)
  IN IF entry.stale = TRUE /\ tool.limit.carry # Absent THEN Past(age, tool.limit.carry)
     ELSE entry.stale = TRUE \/ Past(age, tool.limit.age)

ShapeBreach(entry) ==
  /\ HasFetchedAt(entry)
  /\ {entry.stale, entry.reason, entry.count} \cap {Absent, Malformed} # {}

Uncovered(lists, l) ==
  IF l \notin DOMAIN lists THEN TRUE
  ELSE IF lists[l].count = Absent THEN TRUE ELSE lists[l].count = 0

FreshTree(t) ==
  LET lists == DeployedTrees[t].lists
      made == DeployedTrees[t].made
  IN /\ DOMAIN lists # {}
     /\ IsListInstant(made) /\ ~Past(IF IsListInstant(made) THEN tool.day - made ELSE Null, tool.limit.age)
     /\ \A l \in DOMAIN lists : ~FreshnessBreach(lists[l], made) /\ ~ShapeBreach(lists[l])
     /\ \A l \in tool.limit.expect : ~Uncovered(lists, l)

GradeEnds ==
  /\ ToolAt("chunks") /\ tool.kind = "grade" /\ PoolDone(tool)
  /\ tool' = [tool EXCEPT !.phase = IF FreshTree(tool.pointer) THEN "passed" ELSE "failed"]
  /\ Quietly

\* What the mirror writes, in this order.
Pending == <<[file |-> "latest", of |-> tool.raw], [file |-> "manifest", of |-> tool.pointer]>>
           \o [i \in 1..Len(ChunksAsked(tool)) |-> [file |-> "chunk", of |-> ChunksAsked(tool)[i]]]

MirrorFlushes ==
  /\ ToolAt("chunks") /\ tool.kind = "mirror" /\ PoolDone(tool)
  /\ tool' = [tool EXCEPT !.phase = "writing"] /\ Quietly

MirrorWrites ==
  /\ ToolAt("writing") /\ UNCHANGED <<day, held, deploys>>
  /\ IF Len(out) < Len(Pending)
       THEN out' = Append(out, Pending[Len(out) + 1]) /\ UNCHANGED tool
       ELSE tool' = [tool EXCEPT !.phase = "passed"] /\ UNCHANGED out

DiskFull == ToolAt("writing") /\ tool' = [tool EXCEPT !.phase = "failed"] /\ Quietly

Calls == {NewTool("verify", e, Absent, "") : e \in Expected}
         \cup {NewTool("sequence", [version |-> Absent, sequence |-> Absent], Absent, "")}
         \cup {NewTool("mirror", [version |-> Absent, sequence |-> Absent], l, "") : l \in AgeLimits}
         \cup {NewTool("carry", [version |-> Absent, sequence |-> Absent], l, "list") : l \in AgeLimits}
         \cup {NewTool("grade", [version |-> Absent, sequence |-> Absent], g, "catalog") : g \in Gradings}

GateNext ==
  \/ \E t \in Tree : Deploys(t) \/ Spreads(t) \/ PointerComes(t) \/ ManifestComes(t)
  \/ \E call \in Calls : Invokes(call)
  \/ \E w \in 1..Pool : TakesChunk(w) \/ ChunkSeen(w)
  \/ DayPasses \/ RequestFails \/ TriesAgain \/ ReadsRaw
  \/ GatePasses \/ CarryEnds \/ GradeEnds \/ MirrorFlushes \/ MirrorWrites \/ DiskFull

GateSpec == GateInit /\ [][GateNext]_gateVars

-----------------------------------------------------------------------------

Whole(t) == ChunksOf(t) \subseteq tool.seen
AskedAreSeen == Range(ChunksAsked(tool)) \subseteq tool.seen
WrittenOf(kind) == {out[i].of : i \in {j \in DOMAIN out : out[j].file = kind}}

\* What the grader does not look at: where a new entry's source stands, and the flags of an
\* old one.
Unlooked(entry) ==
  IF HasFetchedAt(entry) THEN entry.source \in {Absent, Malformed}
  ELSE entry.source = Malformed \/ entry.stale = Malformed \/ entry.reason = Malformed

\* A list that is fresh has an age within its ceiling, and is carried only where a smoke
\* allows it; the browser opens it with that age and that flag, but for what is not looked at.
ListIsFresh(entry, made) ==
  LET age == ResolveListAge(entry, made)
      carried == entry.stale = TRUE
      known == ResolveListFreshness(entry, made)
  IN /\ age # Null /\ (carried => tool.limit.carry # Absent)
     /\ tool.day - age.at <= IF carried THEN tool.limit.carry ELSE tool.limit.age
     /\ IF known = Null THEN Unlooked(entry) ELSE known.age = age /\ known.stale = carried

\* A gate that passes has read the bundle it was told to expect, under our signature, and
\* every chunk of that bundle, however the edge changed under it and whatever an earlier
\* attempt read; the mirror writes nothing before as much holds for it, and what it wrote,
\* whole or not, is of that one bundle, no older than its ceiling; a list is carried from one
\* bundle, complete, with the age that it bears and that is within the ceiling; and what is
\* graded fresh has records of every list that is expected and no list older than it may be
\* (verifyPublishedOrigin.ts:1-9, mirrorPublishedOrigin.ts:17-27,
\* carryForwardList.ts:22-36, checkPublishedFreshness.ts:10-31).
GateIsSound ==
  /\ tool.kind = "verify" /\ ToolAt("passed") =>
       DeployedTrees[tool.pointer].signed /\ AsExpected(tool.pointer, tool.expects) /\ Whole(tool.pointer)
  /\ tool.kind = "mirror" /\ (out # <<>> \/ ToolAt("passed")) =>
       /\ DeployedTrees[tool.pointer].signed /\ Whole(tool.pointer)
       /\ WrittenOf("manifest") \subseteq {tool.pointer}
       /\ WrittenOf("chunk") \subseteq ChunksOf(tool.pointer)
       /\ Within(BundleAge(tool.pointer), tool.limit)
       /\ ToolAt("passed") => WrittenOf("chunk") = ChunksOf(tool.pointer)
  /\ tool.kind = "carry" /\ ToolAt("passed") =>
       LET t == DeployedTrees[tool.pointer]
       IN /\ t.signed /\ HasList(tool.pointer, tool.dir) /\ AskedAreSeen
          /\ t.counted /\ t.unsound \cap {tool.dir, "catalog"} = {}
          /\ ResolveListAge(t.lists[tool.dir], t.made) # Null
          /\ tool.result = ResolveListAge(t.lists[tool.dir], t.made).at
          /\ Within(tool.day - tool.result, tool.limit)
  /\ tool.kind = "grade" /\ ToolAt("passed") =>
       LET t == DeployedTrees[tool.pointer]
       IN /\ t.signed /\ AskedAreSeen
          /\ \A l \in tool.limit.expect : l \in DOMAIN t.lists /\ t.lists[l].count > 0
          /\ \A l \in DOMAIN t.lists : ListIsFresh(t.lists[l], t.made)
=============================================================================
