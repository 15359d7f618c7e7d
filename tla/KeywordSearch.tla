--------------------------- MODULE KeywordSearch ---------------------------
(***************************************************************************)
(* assign1: keyword search in a database of reviews.  The class amazon     *)
(* reads two mapped files, the reviews and a sorted index from keywords to *)
(* the places where they occur; amazon_search asks for queries, sorts the  *)
(* reviews that match and shows them page by page.                         *)
(*                                                                         *)
(* A letter is a number, a word a sequence of letters, and the size of a   *)
(* text the number of its words.  What the files hold is given by Reviews. *)
(***************************************************************************)
EXTENDS Integers, SequencesExt

CONSTANTS
    Reviews,            \* the database: [text : portion -> words, stars, date]
    Title, Headline, Body,  \* portions of a review
    Letters,            \* character that isalnum() accepts -> its letter
    Queries,            \* name of a query -> [terms, text]: the terms meant,
                        \* and the characters typed
    CommandLines,       \* sequences of arguments, names of queries among them
    Number,             \* arguments that are numbers -> their value
    PageSize,           \* reviews shown before the program waits: 5
    Wrap,               \* offsets are unsigned: 2^32
    MaxQueries          \* bound: queries of an interactive session

KeywordSearchAssumption ==
    /\ PageSize \in Nat \ {0} /\ MaxQueries \in Nat
    /\ \A r \in DOMAIN Reviews : \A p \in DOMAIN Reviews[r].text : Len(Reviews[r].text[p]) < Wrap

VARIABLES
    phase,              \* where main() stands
    options,            \* what parseArgs() set
    searchString,       \* the name of the query
    asked,              \* bound: queries so far
    found,              \* reviewIndexes
    sorted,             \* reviews
    shown,              \* how many of them were printed
    quit                \* the user did not want the next page

vars == <<phase, options, searchString, asked, found, sorted, shown, quit>>

None == "none"
Infinity == -1
NoOptions == [key |-> "date", reversed |-> FALSE, limit |-> Infinity, query |-> None,
              pending |-> None, failed |-> FALSE]

Init ==
    /\ phase = "start" /\ options = NoOptions /\ searchString = None /\ asked = 0
    /\ found = <<>> /\ sorted = <<>> /\ shown = 0 /\ quit = FALSE

\* The order of sequences of numbers, that of strings and of tuples.
Less(u, v) ==
    \E k \in DOMAIN v :
        /\ \A j \in 1..k-1 : j \in DOMAIN u /\ u[j] = v[j]
        /\ k \in DOMAIN u => u[k] < v[k]

-----------------------------------------------------------------------------
(* The keyword index: keywords in their order, each with the places where  *)
(* it occurs.                                                              *)

Place(r, p, offset) == [review |-> r, portion |-> p, offset |-> offset]
Portions == {Title, Headline, Body}
AllWords == UNION {ToSet(Reviews[r].text[p]) : <<r, p>> \in (DOMAIN Reviews) \X Portions}
Keywords == SetToSortSeq(AllWords, Less)
Places(word) ==
    UNION {{Place(r, p, k - 1) : k \in {j \in DOMAIN Reviews[r].text[p] : Reviews[r].text[p][j] = word}} :
           <<r, p>> \in (DOMAIN Reviews) \X Portions}

\* findKeywordPtr(): lower_bound, then a comparison.  0 if there is none.
findKeyword(word) ==
    LET atLeast == {k \in DOMAIN Keywords : ~Less(Keywords[k], word)}
        first == CHOOSE k \in atLeast : \A l \in atLeast : k <= l
    IN  IF atLeast = {} THEN 0 ELSE IF Keywords[first] # word THEN 0 ELSE first

\* Mutation: a phrase may go on in another portion of the review.
Follows_AnyPortion(place, before) ==
    \E p \in Portions :
        Place(place.review, p, (place.offset + Wrap - 1) % Wrap) \in before
Follows(place, before) == [place EXCEPT !.offset = (@ + Wrap - 1) % Wrap] \in before

\* The places where the last word of a term stands, if the words before it
\* precede it; none as soon as a word is in no review.
findReviewsContainingTerm(term) ==
    LET narrow(before, k) ==
            IF findKeyword(term[k]) = 0 THEN {}
            ELSE {p \in Places(Keywords[findKeyword(term[k])]) : k = 1 \/ Follows(p, before)}
        last == FoldLeft(narrow, {}, [k \in DOMAIN term |-> k])
    IN  {p.review : p \in last}

-----------------------------------------------------------------------------
(* convertQuery(): what is no letter, quote, blank or dash is dropped, so  *)
(* that the letters around it are one word.                                *)

EndWord(s) == IF s.word = <<>> THEN s ELSE [s EXCEPT !.words = Append(@, s.word), !.word = <<>>]
EndTerm(s) == IF s.words = <<>> THEN s ELSE [s EXCEPT !.terms = Append(@, s.words), !.words = <<>>]

TakeCharacter(s, c) ==
    CASE c = "quote" -> [(IF s.quoted THEN EndWord(s) ELSE s) EXCEPT !.quoted = ~@]
      [] c = "blank" -> IF s.quoted THEN EndWord(s) ELSE EndTerm(EndWord(s))
      [] c = "dash" -> EndWord(s)
      [] c \in DOMAIN Letters -> [s EXCEPT !.word = Append(@, Letters[c])]
      [] OTHER -> s

convertQuery(text) ==
    EndTerm(EndWord(FoldLeft(TakeCharacter,
        [terms |-> <<>>, words |-> <<>>, word |-> <<>>, quoted |-> FALSE], text))).terms

\* searchKeywordIndex(): ascending, and empty for a query without words.
searchKeywordIndex(text) ==
    LET terms == convertQuery(text)
        both(reviews, k) ==
            IF k = 1 THEN findReviewsContainingTerm(terms[1])
            ELSE findReviewsContainingTerm(terms[k]) \intersect reviews
    IN  SetToSortSeq(FoldLeft(both, {}, [k \in DOMAIN terms |-> k]), <)

-----------------------------------------------------------------------------
(* genericReviewCompare()                                                  *)

TitleRank(r) == Cardinality({s \in DOMAIN Reviews :
    Less(FlattenSeq(Reviews[s].text[Title]), FlattenSeq(Reviews[r].text[Title]))})

SortKey(r, key) ==
    LET review == Reviews[r]
        size(p) == Len(review.text[p])
    IN  CASE key = "date" -> review.date \o <<size(Body), size(Headline), review.stars, size(Title)>>
          [] key = "bodysize" -> <<size(Body)>> \o review.date \o <<size(Headline), review.stars, size(Title)>>
          [] key = "stars" -> <<review.stars, TitleRank(r)>> \o review.date \o <<size(Body), size(Headline)>>
          [] key = "titlesize" -> <<size(Title)>> \o review.date \o <<size(Body), size(Headline), review.stars>>

\* Mutation: only the first part of the key is reversed.
Before_First(r, s) ==
    LET lhs == SortKey(r, options.key)
        rhs == SortKey(s, options.key)
    IN  IF lhs[1] # rhs[1] THEN (options.reversed <=> rhs[1] < lhs[1]) ELSE Less(lhs, rhs)
Before(r, s) ==
    LET lhs == SortKey(r, options.key)
        rhs == SortKey(s, options.key)
    IN  IF options.reversed THEN Less(rhs, lhs) ELSE Less(lhs, rhs)

-----------------------------------------------------------------------------
(* amazon_search.cc                                                        *)

\* One argument of parseArgs(): an option or the value of the one before it.
TakeArgument(o, arg) ==
    CASE o.failed -> o
      [] o.pending = "-k" ->
           [o EXCEPT !.key = arg, !.pending = None,
                     !.failed = arg \notin {"date", "stars", "bodysize", "titlesize"}]
      [] o.pending = "-n" ->
           IF arg \notin DOMAIN Number THEN [o EXCEPT !.failed = TRUE]
           ELSE [o EXCEPT !.limit = IF Number[arg] < 0 THEN Infinity ELSE Number[arg], !.pending = None]
      [] o.pending \in {"-d", "-f"} -> [o EXCEPT !.pending = None]
      [] arg = "-h" -> [o EXCEPT !.failed = TRUE]
      [] arg = "-r" -> [o EXCEPT !.reversed = TRUE]
      [] arg \in {"-k", "-n", "-d", "-f"} -> [o EXCEPT !.pending = arg]
      [] OTHER -> [o EXCEPT !.query = arg]

\* A missing value is an error, except for -k.
parseArgs(args) ==
    LET o == FoldLeft(TakeArgument, NoOptions, args)
    IN  [o EXCEPT !.failed = @ \/ o.pending \in {"-n", "-d", "-f"}]

\* Whether the database and the index could be opened.
good(database, index) == database /\ index

\* main() up to its loop: either file may be missing.
Start ==
    /\ phase = "start"
    /\ \E args \in CommandLines, database, index \in BOOLEAN :
         /\ options' = parseArgs(args)
         /\ phase' = IF parseArgs(args).failed \/ ~good(database, index) THEN "failed" ELSE "ask"
    /\ UNCHANGED <<searchString, asked, found, sorted, shown, quit>>

Interactive == options.query = None

\* The next query: that of the command line, or one that is typed.
Ask ==
    /\ phase = "ask" /\ asked < MaxQueries /\ asked' = asked + 1
    /\ searchString' \in IF Interactive THEN DOMAIN Queries ELSE {options.query}
    /\ phase' = "search" /\ found' = <<>> /\ sorted' = <<>> /\ shown' = 0 /\ quit' = FALSE
    /\ UNCHANGED options

EndOfInput ==
    /\ phase = "ask" /\ Interactive /\ phase' = "done"
    /\ UNCHANGED <<options, searchString, asked, found, sorted, shown, quit>>

Search ==
    /\ phase = "search"
    /\ found' = searchKeywordIndex(Queries[searchString].text)
    /\ phase' = IF found' = <<>> THEN IF Interactive THEN "ask" ELSE "done" ELSE "sort"
    /\ UNCHANGED <<options, searchString, asked, sorted, shown, quit>>

\* getSortedReviewsFromIndexes(): std::sort orders what the comparison does
\* not tell apart as it likes.
Sort ==
    /\ phase = "sort"
    /\ \E order \in SetToSeqs(ToSet(found)) :
         /\ \A i, j \in DOMAIN order : i < j => ~Before(order[j], order[i])
         /\ sorted' = order
    /\ phase' = "show"
    /\ UNCHANGED <<options, searchString, asked, found, shown, quit>>

NumReviews == IF options.limit = Infinity \/ options.limit > Len(sorted) THEN Len(sorted) ELSE options.limit

Show ==
    /\ phase = "show" /\ shown < NumReviews
    /\ shown' = shown + 1
    /\ phase' = IF Interactive /\ shown' % PageSize = 0 THEN "page" ELSE "show"
    /\ UNCHANGED <<options, searchString, asked, found, sorted, quit>>

\* The user asks for the next page, or answers q.
Page ==
    /\ phase = "page"
    /\ \/ phase' = "show" /\ UNCHANGED quit
       \/ phase' = "ask" /\ quit' = TRUE
    /\ UNCHANGED <<options, searchString, asked, found, sorted, shown>>

EndOfReviews ==
    /\ phase = "show" /\ shown >= NumReviews
    /\ phase' = IF Interactive THEN "ask" ELSE "done"
    /\ UNCHANGED <<options, searchString, asked, found, sorted, shown, quit>>

Next == Start \/ Ask \/ EndOfInput \/ Search \/ Sort \/ Show \/ Page \/ EndOfReviews

Spec == Init /\ [][Next]_vars

-----------------------------------------------------------------------------
(* Properties.                                                             *)

Occurs(term, words) ==
    \E k \in 0..Len(words)-Len(term) : \A j \in DOMAIN term : words[k + j] = term[j]

\* The reviews found are those in which every term that the query means, a
\* word, a phrase in quotes or a hyphenated word, occurs word after word in
\* one portion, whatever the case and the punctuation of the query
\* (convertQuery, findReviewsContainingTerm, searchKeywordIndex).
SearchExact ==
    phase \in {"sort", "show", "page"} \/ (phase \in {"ask", "done"} /\ asked > 0) =>
        LET terms == Queries[searchString].terms IN
        /\ \A i, j \in DOMAIN found : i < j => found[i] < found[j]
        /\ ToSet(found) =
             {r \in DOMAIN Reviews : terms # <<>> /\ \A k \in DOMAIN terms :
                 \E p \in Portions : Occurs(terms[k], Reviews[r].text[p])}

Primary(r) ==
    CASE options.key = "date" -> Reviews[r].date
      [] options.key = "stars" -> <<Reviews[r].stars>>
      [] options.key = "bodysize" -> <<Len(Reviews[r].text[Body])>>
      [] options.key = "titlesize" -> <<Len(Reviews[r].text[Title])>>

\* The reviews come in the order of the chosen key, the other way round with
\* -r, so that what is shown under -r is the other order backwards but for
\* equal reviews; a query ends when all of them, or as many as -n asks for,
\* were shown, or at the end of a page (genericReviewCompare, main).
ShownInOrder ==
    /\ \A i, j \in DOMAIN sorted : i < j =>
         LET first == IF options.reversed THEN sorted[j] ELSE sorted[i]
             second == IF options.reversed THEN sorted[i] ELSE sorted[j]
         IN  ~Less(Primary(second), Primary(first)) /\ ~Less(SortKey(second, options.key), SortKey(first, options.key))
    /\ phase \in {"ask", "done"} /\ sorted # <<>> =>
         /\ ToSet(sorted) = ToSet(found) /\ Len(sorted) = Len(found)
         /\ shown = NumReviews \/ (quit /\ Interactive /\ shown % PageSize = 0)
=============================================================================
