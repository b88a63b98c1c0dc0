------------------------------ MODULE Community ------------------------------
(***************************************************************************)
(* What users keep about content in the core service: likes, bookmarks and *)
(* follows, which one route sets and clears; a list of challenges; and     *)
(* quizzes.  A route looks a row up and then writes, in transactions of    *)
(* their own, while other requests do the same.                            *)
(***************************************************************************)
EXTENDS Integers, FiniteSets

CONSTANTS
    Visitor,    \* users
    Item,       \* what is liked, saved or followed, and put on a list
    Http,       \* requests in progress at a time
    MaxHttp,    \* requests
    Questions   \* questions of the quiz

Kind == {"articleLike", "articleBookmark", "challengeLike", "challengeBookmark", "follow"}
Row  == Kind \X Visitor \X Item

ASSUME CommunityAssumption == MaxHttp \in Nat /\ Questions \in Nat /\ IsFiniteSet(Item)

VARIABLES
    rows,       \* rows of the five tables
    flips,      \* row -> how many requests have set or cleared it
    list,       \* ChallengeListItem of one list: item -> order, -1 for none
    reordered,  \* whether an item was removed, or two were added at the same time
    best,       \* user -> score of the best recorded attempt at the quiz, -1 for none
    quizDone,   \* users with a Completion of the quiz
    unrecorded, \* users of whom an attempt could not be recorded
    http,       \* the handler of each request
    served      \* requests so far

communityVars == <<rows, flips, list, reordered, best, quizDone, unrecorded, http, served>>

\* A request is idle, toggles a row that it has found or not, or adds an item.
NoHttp     == [pc |-> "idle"]
Toggling   == [pc: {"toggle"}, row: Row, found: BOOLEAN]
AddingItem == [pc: {"add"}, item: Item, count: Nat]

CommunityTypeOK ==
    /\ rows \subseteq Row
    /\ flips \in [Row -> 0 .. MaxHttp]
    /\ list \in [Item -> -1 .. Cardinality(Item)]
    /\ reordered \in BOOLEAN
    /\ best \in [Visitor -> -1 .. Questions]
    /\ quizDone \subseteq Visitor
    /\ unrecorded \subseteq Visitor
    /\ \A h \in Http : http[h] = NoHttp \/ http[h] \in Toggling \/ http[h] \in AddingItem
    /\ served \in 0 .. MaxHttp

CommunityInit ==
    /\ rows = {}
    /\ flips = [r \in Row |-> 0]
    /\ list = [i \in Item |-> -1]
    /\ reordered = FALSE
    /\ best = [v \in Visitor |-> -1]
    /\ quizDone = {}
    /\ unrecorded = {}
    /\ http = [h \in Http |-> NoHttp]
    /\ served = 0

-----------------------------------------------------------------------------
(* Routes that toggle                                                      *)

Arrives(h) == http[h] = NoHttp /\ served < MaxHttp /\ served' = served + 1

\* The row is looked up; the write follows from what was found.
Look(h, row) ==
    /\ Arrives(h)
    /\ http' = [http EXCEPT ![h] = [pc |-> "toggle", row |-> row, found |-> row \in rows]]
    /\ UNCHANGED <<rows, flips, list, reordered, best, quizDone, unrecorded>>

LikeArticle(h, v, i)       == Look(h, <<"articleLike", v, i>>)
BookmarkArticle(h, v, i)   == Look(h, <<"articleBookmark", v, i>>)
LikeChallenge(h, v, i)     == Look(h, <<"challengeLike", v, i>>)
BookmarkChallenge(h, v, i) == Look(h, <<"challengeBookmark", v, i>>)
Follow(h, v, i)            == v # i /\ Look(h, <<"follow", v, i>>)

\* Mutant of Write: what is there already counts as written.
WriteAnyway(h) ==
    /\ http[h].pc = "toggle"
    /\ LET row == http[h].row
       IN  /\ rows' = IF http[h].found THEN rows \ {row} ELSE rows \cup {row}
           /\ flips' = [flips EXCEPT ![row] = @ + 1]
    /\ http' = [http EXCEPT ![h] = NoHttp]
    /\ UNCHANGED <<list, reordered, best, quizDone, unrecorded, served>>

\* delete throws for a row that is gone, create for one that is there: 500, no change.
Write(h) ==
    /\ http[h].pc = "toggle"
    /\ LET row == http[h].row
       IN  IF http[h].found = (row \in rows)
           THEN /\ rows' = IF http[h].found THEN rows \ {row} ELSE rows \cup {row}
                /\ flips' = [flips EXCEPT ![row] = @ + 1]
           ELSE UNCHANGED <<rows, flips>>
    /\ http' = [http EXCEPT ![h] = NoHttp]
    /\ UNCHANGED <<list, reordered, best, quizDone, unrecorded, served>>

-----------------------------------------------------------------------------
(* A list                                                                  *)

OnList == {i \in Item : list[i] # -1}
Adding == {h \in Http : http[h].pc = "add"}

\* The items are counted; the count becomes the order of the new one.
AddItem(h, i) ==
    /\ Arrives(h)
    /\ http' = [http EXCEPT ![h] = [pc |-> "add", item |-> i, count |-> Cardinality(OnList)]]
    /\ reordered' = (reordered \/ Adding # {})
    /\ UNCHANGED <<rows, flips, list, best, quizDone, unrecorded>>

\* An item that is there already keeps its order.
UpsertItem(h) ==
    /\ http[h].pc = "add"
    /\ list' = [list EXCEPT ![http[h].item] = IF @ = -1 THEN http[h].count ELSE @]
    /\ http' = [http EXCEPT ![h] = NoHttp]
    /\ UNCHANGED <<rows, flips, reordered, best, quizDone, unrecorded, served>>

\* The others keep their order: a later item may get one that is taken.
RemoveItem(h, i) ==
    /\ Arrives(h)
    /\ list' = [list EXCEPT ![i] = -1]
    /\ reordered' = TRUE
    /\ UNCHANGED <<rows, flips, best, quizDone, unrecorded, http>>

-----------------------------------------------------------------------------
(* Quizzes                                                                 *)

\* correctCount / total >= 0.7; the quotient of a score of exactly seven tenths is rounded
\* to the same number as 0.7.
Passed(score) == Questions > 0 /\ 10 * score >= 7 * Questions

\* A quiz is graded.  The attempt is recorded, and when that fails it is ignored; a quiz
\* that is passed is completed, and stays it.
SubmitQuiz(h, v, score) ==
    /\ Arrives(h)
    /\ \/ best' = [best EXCEPT ![v] = IF score > @ THEN score ELSE @] /\ UNCHANGED unrecorded
       \/ unrecorded' = unrecorded \cup {v} /\ UNCHANGED best
    /\ quizDone' = IF Passed(score) THEN quizDone \cup {v} ELSE quizDone
    /\ UNCHANGED <<rows, flips, list, reordered, http>>

CommunityNext ==
    \E h \in Http :
        \/ \E v \in Visitor, i \in Item :
               \/ LikeArticle(h, v, i) \/ BookmarkArticle(h, v, i)
               \/ LikeChallenge(h, v, i) \/ BookmarkChallenge(h, v, i)
               \/ Follow(h, v, i)
        \/ \E i \in Item : AddItem(h, i) \/ RemoveItem(h, i)
        \/ \E v \in Visitor, score \in 0 .. Questions : SubmitQuiz(h, v, score)
        \/ Write(h) \/ UpsertItem(h)

CommunitySpec == CommunityInit /\ [][CommunityNext]_communityVars

-----------------------------------------------------------------------------
(* Safety                                                                  *)

\* Every answered toggle has changed its row: a double click whose requests overlap sets
\* a like once and answers one of them with an error; the row is there after an odd
\* number of successes and gone after an even one.
TogglesAlternate == \A r \in Row : r \in rows <=> flips[r] % 2 = 1

\* The items of a list are in the order they were added, without gaps or ties, as long
\* as none is removed and no two are added at once.
ListIsOrdered == ~reordered => {list[i] : i \in OnList} = 0 .. Cardinality(OnList) - 1

\* A quiz is completed exactly when one of the attempts reached seven tenths, whatever
\* the attempts before and after, as long as they were all recorded.
QuizCompletedForCause ==
    \A v \in Visitor \ unrecorded : v \in quizDone <=> Questions > 0 /\ 10 * best[v] >= 7 * Questions

\* Rows that are looked up and then written keep their meaning: toggles alternate, a list
\* is in order, a quiz is completed by a score.
CommunitySound == CommunityTypeOK /\ TogglesAlternate /\ ListIsOrdered /\ QuizCompletedForCause
=============================================================================
