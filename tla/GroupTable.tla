------------------------------ MODULE GroupTable ------------------------------
(***************************************************************************)
(* The documents and the standings while a group stage is played: scores   *)
(* of the fixtures of Groups, and of matches created by hand between       *)
(* groups, are sent and corrected one by one, in any order, and the tables *)
(* are computed from the stored documents after each.                      *)
(***************************************************************************)
EXTENDS MatchDocument

CONSTANTS Groups,      \* sequence of team sequences
          CrossGroup,  \* keys of hand-made matches between groups
          Goals,       \* the <<home, visitor>> numbers clients send
          IntSize      \* how many values an int has

ASSUME GroupTableAssumption ==
  /\ Groups \in Seq(Seq(Team))
  /\ IsFiniteSet(CrossGroup)
  /\ CrossGroup \subseteq {k \in MatchKey : k.home # k.visitor}
  /\ Goals \subseteq Int \X Int
  /\ IntSize \in Nat \ {0}

VARIABLE documents   \* match key -> JSON document

\* get<int>() keeps the low bits of a JSON integer, which has more.
AsInt(n) == ((n + IntSize \div 2) % IntSize) - IntSize \div 2

AsScore(sent) == <<AsInt(sent[1]), AsInt(sent[2])>>

IsValidScore(n) == n \in 0..10

Init ==
  documents = [k \in ToSet(CreateRegularPhaseMatches(Groups)) \cup CrossGroup |-> NewDocument]

Store(k, s) ==
  /\ IsValidScore(s[1]) /\ IsValidScore(s[2])
  /\ documents' = [documents EXCEPT ![k] = Rescored(@, k, s)]

PatchScore(k, sent) == Store(k, AsScore(sent))

Next == \E k \in DOMAIN documents, sent \in Goals : PatchScore(k, sent)

Spec == Init /\ [][Next]_documents

\* The matches table as the strategy reads it.
ms == [k \in DOMAIN documents |-> ResultOf(FromDocument(documents[k]))]

---------------------------------------------------------------------------
\* Whatever is sent and corrected, and in whatever order, a stored document
\* tells one story (MatchDelegate::UpdateScore, Match::from_json): it is
\* played if it has a legal score, a winner and a way it was decided; the
\* winner is one of the teams and the one with more goals, if there is one.
DocumentsCoherent ==
  \A k \in DOMAIN documents :
    LET m == FromDocument(documents[k]) IN
    \/ m = Unset
    \/ /\ m.status = "played"
       /\ m.score \in (0..10) \X (0..10)
       /\ m.winnerTeamId \in {k.home, k.visitor}
       /\ m.decidedBy = IF WinnerOf(ms, k) = NoTeam THEN "randomTieBreak" ELSE "regularTime"
       /\ WinnerOf(ms, k) \in {m.winnerTeamId, NoTeam}

\* What a client sees listed as played is what the tables count: the listing
\* goes by the status, the strategy by the score.
ListingMatchesTables ==
  /\ Listed(documents, "played") = {k \in DOMAIN documents : HasScore(ms, k)}
  /\ Listed(documents, "pending") = Listed(documents, "all") \ Listed(documents, "played")
  /\ \A i \in DOMAIN Groups :
       GroupMatches(ms, Groups, i) = {k \in Listed(documents, "played") : InGroup(Groups[i], k)}

---------------------------------------------------------------------------
Total(rows, field) == MapThenSumSet(LAMBDA r : r[field], rows)

\* The books balance in every group: each goal is scored by one team and
\* conceded by another, a decided match is worth three points, a draw none
\* (Table::addMatch), and a match between groups counts for neither.
BooksBalance ==
  \A i \in DOMAIN Groups :
    LET rows   == Standings(ms, Groups, i)
        played == {k \in DOMAIN ms : InGroup(Groups[i], k) /\ HasScore(ms, k)}
    IN  /\ Total(rows, "gf") = Total(rows, "ga")
        /\ Total(rows, "gf") = MapThenSumSet(LAMBDA k : ms[k].home + ms[k].visitor, played)
        /\ Total(rows, "points") = 3 * Cardinality({k \in played : ms[k].home # ms[k].visitor})

Tied(a, b) == ~Better(a, b) /\ ~Better(b, a)

\* The comparator std::sort gets (Table::better, WorldCupStrategy) is a strict
\* weak order on the rows of a table: anything less is undefined behaviour.
\* It is no total order, but only teams of one name are left without one.
BetterIsStrictWeakOrder ==
  \A i \in DOMAIN Groups :
    LET rows == Standings(ms, Groups, i)
    IN  /\ \A a, b \in rows : Better(a, b) => ~Better(b, a)
        /\ \A a, b, c \in rows : Better(a, b) /\ Better(b, c) => Better(a, c)
        /\ \A a, b, c \in rows : Tied(a, b) /\ Tied(b, c) => Tied(a, c)
        /\ \A a, b \in rows : Tied(a, b) => NameOf[a.team] = NameOf[b.team]

\* A team that has beaten every other team of its group leads the table, and
\* one that has lost to every other one does not go through.
RankingIsFair ==
  \A i \in DOMAIN Groups :
    LET teams == ToSet(Groups[i])
        Beat(t, u) == \E k \in DOMAIN ms : {k.home, k.visitor} = {t, u} /\ WinnerOf(ms, k) = t
        top   == TopTwo(ms, Groups, i)
        stageOver == \A k \in DOMAIN ms : InGroup(Groups[i], k) => HasScore(ms, k)
    IN  stageOver =>
          /\ \A t \in teams : (\A u \in teams \ {t} : Beat(t, u)) => top[1] = t
          /\ \A t \in teams : (\A u \in teams \ {t} : Beat(u, t)) => t \notin ToSet(top)
==============================================================================
