------------------------------ MODULE Reindex ------------------------------
(* tools/search-reindex: a new index is filled from the catalog's pages, the  *)
(* alias is switched to it and the old index deleted, while the catalog       *)
(* publishes and search indexes through the alias. The catalog lists from its *)
(* replica, newest first. Elasticsearch and PostgreSQL are external.          *)
EXTENDS Integers, FiniteSets, FiniteSetsExt

CONSTANTS
    Cards,      \* the cards, numbered as they are published
    BatchSize,
    Runs,       \* bound: times the tool is run; run r makes index r
    MaxFaults   \* bound: requests that fail, with or without effect

ReindexAssumption ==
    /\ Cards \subseteq Nat \ {0} /\ BatchSize \in Nat \ {0}
    /\ Runs \in Nat /\ MaxFaults \in Nat

VARIABLES
    published,  \* the cards on the catalog's primary
    replica,    \* and on the replica
    pending,    \* listing.published events search has not handled
    docs,       \* the indices there are, with their documents
    searchable, \* what a search of an index finds: its documents at its last refresh
    alias,      \* the index the alias points to, NoIndex before there is one
    tool,       \* the run: its number, options, place, old index and cursor
    page,       \* the page it is about to write
    kept,       \* the cards found, and on the replica, when the run began
    faults
vars == <<published, replica, pending, docs, searchable, alias, tool, page, kept, faults>>

NoIndex == -1
First == 0      \* what EnsureIndex of search makes
Indices == 0..Runs
NoCursor == 0   \* the first page is asked for without one
TypeOK ==
    /\ {published, replica, pending, page, kept} \subseteq SUBSET Cards
    /\ DOMAIN docs \subseteq Indices /\ \A i \in DOMAIN docs : docs[i] \subseteq Cards
    /\ searchable \in [Indices -> SUBSET Cards]
    /\ alias \in Indices \cup {NoIndex}
    /\ tool \in [run : 0..Runs, keepOld : BOOLEAN, dryRun : BOOLEAN, old : Indices \cup {NoIndex},
                 cursor : Cards \cup {NoCursor},
                 at : {"idle", "create", "list", "write", "switch", "delete"}]
    /\ faults \in 0..MaxFaults

Found == IF alias = NoIndex THEN {} ELSE searchable[alias]
Served == IF alias = NoIndex THEN {} ELSE docs[alias]

Init ==
    /\ published = {} /\ replica = {} /\ pending = {} /\ page = {} /\ kept = {}
    /\ \/ alias = NoIndex /\ docs = [i \in {} |-> {}]
       \/ alias = First /\ docs = [i \in {First} |-> {}]
    /\ searchable = [i \in Indices |-> {}]
    /\ tool = [run |-> 0, keepOld |-> FALSE, dryRun |-> FALSE, old |-> NoIndex, cursor |-> NoCursor,
               at |-> "idle"]
    /\ faults = 0

-----------------------------------------------------------------------------
(* Around the tool.                                                           *)

Publish ==
    /\ Cards # published
    /\ LET c == Min(Cards \ published) IN
          published' = published \cup {c} /\ pending' = pending \cup {c}
    /\ UNCHANGED <<replica, docs, searchable, alias, tool, page, kept, faults>>
Replicate ==
    /\ \E c \in published \ replica : c = Min(published \ replica) /\ replica' = replica \cup {c}
    /\ UNCHANGED <<published, pending, docs, searchable, alias, tool, page, kept, faults>>
\* search writes to whatever the alias points to; it does not start without one.
Index(c) ==
    /\ c \in pending /\ alias # NoIndex
    /\ pending' = pending \ {c}
    /\ docs' = [docs EXCEPT ![alias] = @ \cup {c}]
    /\ UNCHANGED <<published, replica, searchable, alias, tool, page, kept, faults>>
\* Elasticsearch shows what was written to an index once in a while, a second by
\* default; neither search nor the tool asks for it.
Refresh(i) ==
    /\ i \in DOMAIN docs /\ searchable[i] # docs[i]
    /\ searchable' = [searchable EXCEPT ![i] = docs[i]]
    /\ UNCHANGED <<published, replica, pending, docs, alias, tool, page, kept, faults>>

-----------------------------------------------------------------------------
(* Run.                                                                       *)

world == <<published, replica, pending>>
Goto(at) == tool' = [tool EXCEPT !.at = at]
\* An error ends the run, and nothing is undone.
Fails == faults < MaxFaults /\ faults' = faults + 1 /\ Goto("idle")

CurrentIndex ==
    /\ tool.at = "idle" /\ tool.run < Runs
    /\ \E keepOld, dryRun \in BOOLEAN :
          tool' = [run |-> tool.run + 1, keepOld |-> keepOld, dryRun |-> dryRun,
                   old |-> alias, cursor |-> NoCursor,
                   at |-> IF dryRun THEN "list" ELSE "create"]
    /\ kept' = Found \cap replica
    /\ UNCHANGED <<world, docs, searchable, alias, page, faults>>
CreateIndex ==
    /\ tool.at = "create"
    /\ \/ Goto("list") /\ UNCHANGED faults
       \/ Fails
    /\ docs' = [i \in DOMAIN docs \cup {tool.run} |-> IF i = tool.run THEN {} ELSE docs[i]]
    /\ searchable' = [searchable EXCEPT ![tool.run] = {}]
    /\ UNCHANGED <<world, alias, page, kept>>
\* As if the page began one card too late.
NextPageAfter ==
    LET older == {c \in replica : tool.cursor = NoCursor \/ c + 1 < tool.cursor}
    IN  {c \in older : Cardinality({d \in older : d > c}) < BatchSize}

\* A page of the catalog, older than the cursor. countAll reads the same pages.
Older == {c \in replica : tool.cursor = NoCursor \/ c < tool.cursor}
Newer(c) == {d \in Older : d > c}
NextPage == {c \in Older : Cardinality(Newer(c)) < BatchSize}
ListListings ==
    /\ tool.at = "list"
    /\ \/ /\ page' = NextPage
          /\ IF tool.dryRun THEN Goto("idle") ELSE Goto("write")
          /\ UNCHANGED faults
       \/ Fails /\ UNCHANGED page
    /\ UNCHANGED <<world, docs, searchable, alias, kept>>
\* Without a next cursor the index is filled. A document that is there in a newer
\* version is no error.
BulkIndex ==
    /\ tool.at = "write"
    /\ \/ /\ docs' = [docs EXCEPT ![tool.run] = @ \cup page]
          /\ tool' = IF \E c \in replica : page # {} /\ c < Min(page)
                     THEN [tool EXCEPT !.at = "list", !.cursor = Min(page)]
                     ELSE [tool EXCEPT !.at = "switch"]
          /\ UNCHANGED faults
       \/ Fails /\ UNCHANGED docs
    /\ UNCHANGED <<world, searchable, alias, page, kept>>
\* One request adds the new index and removes the old one. An answer may be lost.
SwitchAlias ==
    /\ tool.at = "switch"
    /\ \/ alias' = tool.run /\ UNCHANGED faults
          /\ IF tool.old # NoIndex /\ ~tool.keepOld THEN Goto("delete") ELSE Goto("idle")
       \/ Fails /\ alias' \in {alias, tool.run}
    /\ UNCHANGED <<world, docs, searchable, page, kept>>
DeleteIndex ==
    /\ tool.at = "delete"
    /\ \/ docs' = [i \in DOMAIN docs \ {tool.old} |-> docs[i]] /\ Goto("idle") /\ UNCHANGED faults
       \/ Fails /\ docs' \in {docs, [i \in DOMAIN docs \ {tool.old} |-> docs[i]]}
    /\ UNCHANGED <<world, searchable, alias, page, kept>>

Next ==
    \/ Publish \/ Replicate \/ \E c \in Cards : Index(c)
    \/ \E i \in Indices : Refresh(i)
    \/ CurrentIndex \/ CreateIndex \/ ListListings \/ BulkIndex \/ SwitchAlias \/ DeleteIndex
Spec == Init /\ [][Next]_vars
FairSpec == Spec /\ \A i \in Indices : WF_vars(Refresh(i))

-----------------------------------------------------------------------------
\* At every moment of every run, failed ones and their repetition included, the
\* index that search reads has all that search found when the run began, as far as
\* the replica the tool reads had it.
KeptIsServed == kept \subseteq Served

\* And search finds it: at every moment, as cmd/search-reindex/main.go:11-14 has it
\* ("neither emptiness nor a jerk"), or again after the new index was refreshed.
FoundStays == kept \subseteq Found
FoundAgain == []<>FoundStays

\* The alias never points to an index that is not there.
AliasServes == alias # NoIndex => alias \in DOMAIN docs
=============================================================================
