------------------------------ MODULE MCPages ------------------------------
(* What a user reads, for TLC: the review board, the customers page, the     *)
(* views of the signing key, the query index under a screen, the screen of   *)
(* one name with the verdict shown, and the import of customers; and the     *)
(* four tools of MCTools, which make what the lists are read from.  The ten  *)
(* share no variable: a behaviour moves one of them, chosen at the start,    *)
(* and the run explores the sum of their state spaces.                       *)
EXTENDS ReviewBoard, MCDesk, KeyViews, ListIndex, NameScreen, CustomerTransfer, MCTools

CONSTANTS t1, t2, h1, h2   \* two tabs and the indexes alive in them

Pages == {"board", "desk", "key", "index", "name", "transfer"}
pageVars == <<reviewVars, deskVars, keyVars, indexVars, nameVars, transferVars>>
TabPair == {t1, t2}
HandlePair == {h1, h2}

\* two contents of a list that differ in the keys of one entity, as after an alias was added
IndexRows(c) ==
  {[id |-> 1, vec |-> "v", keys |-> IF c = "with alias" THEN {"k", "l"} ELSE {"k"}],
   [id |-> 2, vec |-> "w", keys |-> {"k"}]}

Person(l, n, as, ds, cs) ==
  [list |-> l, name |-> n, aliases |-> as, dobs |-> ds, countries |-> cs]
\* aliases in the order of the feed, a shared word, a name in two spellings
NameEntry ==
  << Person("us", <<"ayman", "zawahiri">>, {<<"salim", "ahmad">>}, << <<1951, 6>>, <<1951>> >>, {"EG", "AF"}),
     Person("us", <<"ahmad", "fuad">>, {<<"fuad">>}, <<>>, {}),
     Person("us", <<"gamal", "trading">>, {}, <<>>, {"EG"}),
     Person("uk", <<"salem", "bank">>, {<<"ahmad", "salim", "group">>}, <<>>, {"EG"}),
     Person("uk", <<"fuad", "trading">>, {}, << <<1951>> >>, {}) >>
Ask(n, d, c) == [name |-> n, dob |-> d, country |-> c]
NameQueries ==
  {Ask(<<"dr", "ahmad", "salim">>, NoDob, NoCountry), Ask(<<"salim", "ahmad">>, <<1951>>, "EG"),
   Ask(<<"fuad", "salem">>, <<1951, 13>>, NoCountry), Ask(<<"dr">>, NoDob, NoCountry)}
NameLetters ==
  {[cosine |-> -20, sequence |-> 30, tier |-> 0], [cosine |-> 45, sequence |-> 40, tier |-> 0],
   [cosine |-> 90, sequence |-> 30, tier |-> 25]}
SoundsOf(w) == IF w \in {"salim", "salem"} THEN {"SLM"} ELSE {}
NoOverride == <<>>

TransferRefs == {"ACME", "acme", "-7", "'-7"}
KeyOfRef(r) == IF r = "acme" THEN "ACME" ELSE r
SafeOfRef(r) == IF r = "-7" THEN "'-7" ELSE r
Cell(k, r) == [kind |-> k, ref |-> r]
TransferFiles ==
  {[readable |-> TRUE, rows |-> rows] : rows \in
     { << Cell("customer", "acme"), Cell("wrong", "-7"), Cell("blank", "") >>,
       << Cell("customer", "ACME"), Cell("customer", "acme"), Cell("customer", "-7") >>,
       [n \in 1..5 |-> Cell("customer", "ACME")] }}

\* the parts that do not move stay in one initial state
PagesInit ==
  /\ part \in Pages \cup Tools /\ ReviewInit /\ IndexInit
  /\ KeyInit /\ (part # "key" => key = "k1" /\ stored /\ signer = NoKey)
  /\ TransferInit /\ onFile \subseteq IF part = "transfer" THEN {"ACME"} ELSE {}
  /\ DeskInit /\ \A c \in Customer : row[c] \in IF part = "desk" THEN {NoRow, Fresh(n1)} ELSE {NoRow}
  /\ ToolsInit
  /\ NameInit
  /\ part # "name" => asked = [query |-> Ask(<<"dr">>, NoDob, NoCountry), level |-> "strict",
                               letters |-> [e \in Persons |-> CHOOSE f \in NameLetters : f.tier = 25]]

PagesNext ==
  \/ part \in Tools /\ UNCHANGED pageVars /\ ToolsNext
  \/ part = "board" /\ UNCHANGED <<toolsVars, deskVars, keyVars, indexVars, nameVars, transferVars>> /\ ReviewNext
  \/ part = "desk" /\ UNCHANGED <<toolsVars, reviewVars, keyVars, indexVars, nameVars, transferVars>> /\ DeskNext
  \/ part = "key" /\ UNCHANGED <<toolsVars, reviewVars, deskVars, indexVars, nameVars, transferVars>> /\ KeyNext
  \/ part = "index" /\ UNCHANGED <<toolsVars, reviewVars, deskVars, keyVars, nameVars, transferVars>> /\ IndexNext
  \/ part = "name" /\ UNCHANGED <<toolsVars, reviewVars, deskVars, keyVars, indexVars, transferVars>> /\ NameNext
  \/ part = "transfer" /\ UNCHANGED <<toolsVars, reviewVars, deskVars, keyVars, indexVars, nameVars>> /\ TransferNext
PagesSpec == PagesInit /\ [][PagesNext]_<<pageVars, toolsVars>>

-----------------------------------------------------------------------------
PagesTypeOK == ReviewTypeOK /\ DeskTypeOK /\ KeyViewsTypeOK /\ IndexTypeOK /\ NameTypeOK /\ TransferTypeOK
=============================================================================
