----------------------------- MODULE BundleBuild -----------------------------
(* A bundle is built list by list (buildRealBundle.ts): each is refreshed    *)
(* from its feed or, failing that, re-served from the bundle that is live,   *)
(* with the age it has.  What is staged is opened again by the browser, and  *)
(* by the next build, under one rule of freshness (watchlist.ts).  The first *)
(* live bundle may date from before a list stated an age of its own.         *)
EXTENDS Naturals, Sequences, FiniteSets, ListAge

CONSTANTS Sources,        \* BUNDLE_SOURCES, in their order
          Enriching,      \* the lists whose source adds aliases
          Ceilings,       \* the values of --max-carried-age-days, or Null
          FeedAge,        \* maximumAgeMs
          MaxClock, MaxBuilds

BundleList == {Sources[i] : i \in 1..Len(Sources)}
ASSUME BuildAssumption ==
  /\ Sources \in Seq(BundleList) /\ \A i, j \in 1..Len(Sources) : Sources[i] = Sources[j] => i = j
  /\ Enriching \subseteq BundleList
  /\ {FeedAge, MaxClock, MaxBuilds} \subseteq Nat /\ Ceilings \subseteq Nat \cup {Null}

VARIABLES clock,
          pub,      \* the build at work
          origin,   \* the bundle that is live, and whether this pipeline made it
          builds    \* bound: how many builds have begun

buildVars == <<clock, pub, origin, builds>>

Instant == 0..MaxClock

\* What a bundle says of a list, and, known to nobody, when its records were fetched and
\* whether they bear the added aliases.
Copy(v, f, s, stale, reason, when, aliased) ==
  [version |-> v, fetchedAt |-> f, source |-> s, stale |-> stale, reason |-> reason,
   obtained |-> when, aliased |-> aliased]

\* Bundles from before per-list freshness, and one whose age was written wrongly.
LegacyCopy == Copy(0, Absent, Absent, Absent, Absent, 0, FALSE)
Earlier == {LegacyCopy, [LegacyCopy EXCEPT !.fetchedAt = Malformed],
            Copy(0, 0, Null, FALSE, Null, 0, TRUE)}

Resting == [phase |-> "idle", next |-> 1, stamp |-> 0, carries |-> FALSE, ceiling |-> Null,
            lists |-> <<>>, reports |-> {}, carried |-> {}]
BuildInit ==
  /\ clock = 0 /\ pub = Resting /\ builds = 0
  /\ \E c \in Earlier :
       origin = [made |-> 0, ours |-> FALSE, lists |-> [l \in BundleList |-> c], carried |-> {},
                 mode |-> "records-only"]

BuildTypeOK ==
  /\ clock \in Instant /\ builds \in 0..MaxBuilds
  /\ pub.phase \in {"idle", "list", "fetching", "carrying"} /\ pub.next \in 1..Len(Sources) + 1
  /\ DOMAIN pub.lists \subseteq BundleList /\ pub.carried \subseteq DOMAIN pub.lists
  /\ DOMAIN origin.lists = BundleList /\ origin.carried \subseteq BundleList

-----------------------------------------------------------------------------
(* The build *)

PubAt(phase) == pub.phase = phase
Source == Sources[pub.next]

ClockTicks == clock < MaxClock /\ clock' = clock + 1 /\ UNCHANGED <<pub, origin, builds>>

\* A live origin comes with the key to verify it, or not at all.
BuildBegins ==
  /\ PubAt("idle") /\ builds < MaxBuilds /\ builds' = builds + 1
  /\ \E carries \in BOOLEAN, c \in Ceilings :
       pub' = [Resting EXCEPT !.phase = "list", !.carries = carries, !.ceiling = c]
  /\ UNCHANGED <<clock, origin>>

\* The instant is taken before the feed is asked.
SourceBegins ==
  /\ PubAt("list") /\ pub.next <= Len(Sources)
  /\ pub' = [pub EXCEPT !.phase = "fetching", !.stamp = clock]
  /\ UNCHANGED <<clock, origin, builds>>

\* A list goes into the bundle, and the next source is taken.
StagedCopy(copy, reports) ==
  [pub EXCEPT !.phase = "list", !.next = @ + 1, !.reports = reports,
              !.lists = [l \in DOMAIN @ \cup {Source} |-> IF l = Source THEN copy ELSE @[l]]]

\* The aliases are added, or the bundle is published without them.
EnrichReports(ok) ==
  IF Source \notin Enriching THEN pub.reports
  ELSE pub.reports \cup {IF ok THEN "enriched" ELSE "records-only"}

\* The feed answers with a plausible list that says when it was updated.
SourceRefreshed ==
  /\ PubAt("fetching")
  /\ \E updated \in Instant, ok \in BOOLEAN :
       /\ updated <= pub.stamp /\ pub.stamp - updated <= FeedAge
       /\ ok => Source \in Enriching
       /\ pub' = StagedCopy(Copy(builds, pub.stamp, updated, FALSE, Null, clock, ok), EnrichReports(ok))
  /\ UNCHANGED <<clock, origin, builds>>

\* Without a live origin the build ends here.
SourceFailed(reports) ==
  pub' = IF pub.carries THEN [pub EXCEPT !.phase = "carrying", !.reports = reports] ELSE Resting

\* It does not answer, or its date is missing, wrong, in the future or too old, or its count
\* is out of its band.
SourceNotRefreshed ==
  PubAt("fetching") /\ SourceFailed(pub.reports) /\ UNCHANGED <<clock, origin, builds>>

\* A record that cannot be mapped, or the embedder, after the aliases were counted.
StagingFails ==
  /\ PubAt("fetching")
  /\ \E ok \in BOOLEAN : SourceFailed(EnrichReports(ok))
  /\ UNCHANGED <<clock, origin, builds>>

\* Mutant of CarriedCopy: the date of the source is passed on as it is.
CarriedCopyAsIs(live, age) == [live EXCEPT !.fetchedAt = age.at, !.stale = TRUE, !.reason = "feed"]

\* The copy that is live, with its own version and age, marked stale.
CarriedCopy(live, age) ==
  [live EXCEPT !.fetchedAt = age.at, !.stale = TRUE, !.reason = "feed",
               !.source = IF @ = Absent THEN Null ELSE @]

WithinCeiling(age) == IF pub.ceiling = Null THEN TRUE ELSE clock - age.at <= pub.ceiling

\* A list whose age cannot be stated, or is past the ceiling, is not carried.
Recarries ==
  LET live == origin.lists[Source]
      age == ResolveListAge(live, origin.made)
  IN /\ PubAt("carrying") /\ age # Null /\ WithinCeiling(age)
     /\ pub' = [StagedCopy(CarriedCopy(live, age), pub.reports) EXCEPT !.carried = @ \cup {Source}]
     /\ UNCHANGED <<clock, origin, builds>>

\* It is not, or the origin cannot be read or verified.
CarryRefused == PubAt("carrying") /\ pub' = Resting /\ UNCHANGED <<clock, origin, builds>>

\* One degraded source degrades the whole bundle.
AliasMode == IF pub.reports = {"enriched"} THEN "enriched" ELSE "records-only"

\* The tree is staged, signed and deployed.
BundlePublished ==
  /\ PubAt("list") /\ pub.next > Len(Sources)
  /\ origin' = [made |-> clock, ours |-> TRUE, lists |-> pub.lists, carried |-> pub.carried, mode |-> AliasMode]
  /\ pub' = Resting /\ UNCHANGED <<clock, builds>>

BuildFails == ~PubAt("idle") /\ pub' = Resting /\ UNCHANGED <<clock, origin, builds>>

BuildNext == \/ ClockTicks \/ BuildBegins \/ SourceBegins \/ SourceRefreshed \/ SourceNotRefreshed
             \/ StagingFails \/ Recarries \/ CarryRefused \/ BundlePublished \/ BuildFails
BuildSpec == BuildInit /\ [][BuildNext]_buildVars

-----------------------------------------------------------------------------
(* The browser *)

\* parseBundleCatalog refuses a bundle for one entry; a list's own meta is held to the rule
\* with the bundle's stamp in it.
OpenedList(bundle, l) == ResolveListFreshness(bundle.lists[l], bundle.made)
BundleOpens(bundle) == \A l \in BundleList : OpenedList(bundle, l) # Null

\* A bundle that this pipeline made opens in the browser, whatever was live before it, whole;
\* no list looks younger than its records are, through any number of carries; a list looks
\* refreshed if and only if that build refreshed it; and a bundle that is called enriched has
\* the added aliases in every list it refreshed that has some: the carried ones may lack them
\* (watchlist.ts:156-165, "no copy of it can drift"; buildRealBundle.ts:114-116).
BundleSaysWhatItIs ==
  origin.ours =>
    /\ BundleOpens(origin)
    /\ \A l \in BundleList :
         /\ OpenedList(origin, l).age.at <= origin.lists[l].obtained
         /\ OpenedList(origin, l).stale <=> l \in origin.carried
    /\ origin.mode = "enriched" => \A l \in Enriching \ origin.carried : origin.lists[l].aliased
=============================================================================
