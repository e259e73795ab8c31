-------------------------------- MODULE Pages --------------------------------
(* Keyset pages: GET /catalog/listings over the published cards of a replica, *)
(* and SearchService.Search over the documents of the index. A client walks   *)
(* from the first page to the last while cards appear. A rank is published_at *)
(* or the score, which Elasticsearch works out anew for every page, without a *)
(* point in time; PostgreSQL and Elasticsearch are external.                  *)
EXTENDS Integers, Sequences, SequencesExt, FiniteSets

CONSTANTS
    Items,                  \* the ids
    Ranks,
    DefaultLimit, MaxLimit,
    Asked                   \* the limits a client asks for

PagesAssumption ==
    /\ Items \subseteq Nat /\ Ranks \subseteq Nat
    /\ MaxLimit \in Nat /\ DefaultLimit \in 1..MaxLimit
    /\ Asked \subseteq Int

VARIABLES
    feed,   \* "catalog"; "browse", a search without text; or "search", one with text
    rank,   \* rank[i]: {} until the card is there, then its rank
    cursor, \* the client's cursor: none yet, an item's key, or no next page
    seen,   \* what the pages have shown
    first,  \* the cards that were there when the first page was asked for
    moved   \* whether the index was written to since, and with it the scores
vars == <<feed, rank, cursor, seen, first, moved>>

Start == [at |-> "start", rank |-> 0, id |-> 0]
End == [at |-> "end", rank |-> 0, id |-> 0]
FeedKinds == {"catalog", "browse", "search"}
RankOf == {{}} \cup {{r} : r \in Ranks}
Key(i) == [at |-> "key", rank |-> CHOOSE r \in rank[i] : TRUE, id |-> i]
Shown == {i \in Items : rank[i] # {}}

TypeOK ==
    /\ feed \in FeedKinds
    /\ rank \in [Items -> RankOf]
    /\ cursor \in {Start, End} \cup [at : {"key"}, rank : Ranks, id : Items]
    /\ seen \in Seq(Items)
    /\ first \subseteq Items
    /\ moved \in BOOLEAN

Init ==
    /\ feed \in FeedKinds
    /\ rank = [i \in Items |-> {}]
    /\ cursor = Start
    /\ seen = <<>>
    /\ first = {}
    /\ moved = FALSE

\* A card is published, or a document indexed: behind the walk or before it. Where
\* there is no text to compare with, match_all gives every document one score.
Appear(i) ==
    /\ feed # "search" /\ rank[i] = {}
    /\ \E r \in Ranks :
          /\ feed = "browse" => \A j \in Shown : rank[j] = {r}
          /\ rank' = [rank EXCEPT ![i] = {r}]
    /\ UNCHANGED <<feed, cursor, seen, first, moved>>

\* A document is indexed, for the first time or again. The frequencies of terms and
\* the average length move, and the scores of all that a text finds with them.
Indexed(i) ==
    /\ feed = "search"
    /\ \E scores \in [Shown \cup {i} -> Ranks] :
          rank' = [j \in Items |-> IF j \in Shown \cup {i} THEN {scores[j]} ELSE {}]
    /\ moved' = (cursor # Start)
    /\ UNCHANGED <<feed, cursor, seen, first>>

-----------------------------------------------------------------------------
\* ListListings, and resolveLimit of search.
ListLimit(asked) == IF asked <= 0 \/ asked > MaxLimit THEN DefaultLimit ELSE asked
ResolveLimit(asked) ==
    IF asked <= 0 THEN DefaultLimit ELSE IF asked > MaxLimit THEN MaxLimit ELSE asked

\* ORDER BY published_at DESC, id DESC; sort by _score desc, listing_id asc.
ListOrder(k, l) == k.rank > l.rank \/ (k.rank = l.rank /\ k.id > l.id)
SearchOrder(k, l) == k.rank > l.rank \/ (k.rank = l.rank /\ k.id < l.id)
Before(k, l) == IF feed = "catalog" THEN ListOrder(k, l) ELSE SearchOrder(k, l)

\* What the query may answer: the first of what is strictly after the cursor, in
\* order, and no more of it than LIMIT says, which is one more than the page.
After == {i \in Shown : cursor = Start \/ Before(cursor, Key(i))}
Fetched(limit) ==
    {rows \in SeqOf(After, limit + 1) :
        /\ \A m, n \in 1..Len(rows) : m < n => Before(Key(rows[m]), Key(rows[n]))
        /\ \A i \in After \ ToSet(rows) :
              /\ Len(rows) = limit + 1
              /\ \A m \in 1..Len(rows) : Before(Key(rows[m]), Key(i))}

\* As if the cursor were the row that only tells there is more.
TrimPageAfter(rows, limit) ==
    IF Len(rows) <= limit THEN [page |-> rows, next |-> End]
    ELSE [page |-> SubSeq(rows, 1, limit), next |-> Key(rows[limit + 1])]

\* trimPage, and ParseSearchResponse: the cursor is the last card that is shown.
TrimPage(rows, limit) ==
    IF Len(rows) <= limit THEN [page |-> rows, next |-> End]
    ELSE [page |-> SubSeq(rows, 1, limit), next |-> Key(rows[limit])]

Page(asked) ==
    /\ cursor # End
    /\ LET limit == IF feed = "catalog" THEN ListLimit(asked) ELSE ResolveLimit(asked)
       IN  \E rows \in Fetched(limit) :
              /\ seen' = seen \o TrimPage(rows, limit).page
              /\ cursor' = TrimPage(rows, limit).next
    /\ first' = IF cursor = Start THEN Shown ELSE first
    /\ UNCHANGED <<feed, rank, moved>>

Next == (\E i \in Items : Appear(i) \/ Indexed(i)) \/ (\E asked \in Asked : Page(asked))
Spec == Init /\ [][Next]_vars

-----------------------------------------------------------------------------
\* A walk shows no card twice, and in the order of the feed, whatever appears
\* between its pages (listing_repository.go:224-228, es/cursor.go:28-37).
SeenOnce ==
    \A m, n \in 1..Len(seen) : m < n => Before(Key(seen[m]), Key(seen[n]))

\* A walk that has come to its end has shown every card that was there before it.
NothingMissed ==
    cursor = End => first \subseteq ToSet(seen)

\* Both hold of the catalog and of a search without text whatever is written, and of
\* a search with text as long as the index is not written to between its pages: the
\* cursor holds a score that is no document's any more (query_builder.go:55-58).
WholeFeed == (feed = "search" /\ moved) \/ (SeenOnce /\ NothingMissed)
=============================================================================
