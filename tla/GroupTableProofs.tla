--------------------------- MODULE GroupTableProofs ---------------------------
(***************************************************************************)
(* The documents and the standings of GroupTable, for any groups, any      *)
(* numbers sent and any order of scores and corrections.                   *)
(***************************************************************************)
EXTENDS GroupTable, StrategyProofs

---------------------------------------------------------------------------
\* Documents

\* A match as the document has it once it was scored.
Scored(k, s) ==
  [status |-> "played", score |-> s, winnerTeamId |-> WinnerTeamId(k, s),
   decidedBy |-> IF s[1] = s[2] THEN "randomTieBreak" ELSE "regularTime"]

LegalScore == (0..10) \X (0..10)

Keys == ToSet(CreateRegularPhaseMatches(Groups)) \cup CrossGroup

\* Every document is one of a match that was never scored, or of one that was.
DocumentsInv ==
  /\ documents = [k \in Keys |-> documents[k]]
  /\ \A k \in Keys : \/ documents[k] = NewDocument
                     \/ \E s \in LegalScore : documents[k] = ToDocument(Scored(k, s))

\* What is left out of a document is what is missing in the match.
LEMMA DocumentRoundTrip ==
  ASSUME NEW m, m = [f \in DOMAIN Unset |-> m[f]]
  PROVE  FromDocument(ToDocument(m)) = m
<1>1. \A f \in DOMAIN Unset : FromDocument(ToDocument(m))[f] = m[f]
  BY DEF FromDocument, ToDocument
<1>2. FromDocument(ToDocument(m)) = [f \in DOMAIN Unset |-> FromDocument(ToDocument(m))[f]]
  BY DEF FromDocument
<1> QED
  BY <1>1, <1>2

LEMMA NewIsUnset == FromDocument(NewDocument) = Unset
<1>1. Unset = [f \in DOMAIN Unset |-> Unset[f]]
  BY DEF Unset
<1> QED
  BY <1>1, DocumentRoundTrip DEF NewDocument

LEMMA ScoredRoundTrip ==
  ASSUME NEW k, NEW s
  PROVE  FromDocument(ToDocument(Scored(k, s))) = Scored(k, s)
<1>1. Scored(k, s) = [f \in DOMAIN Unset |-> Scored(k, s)[f]]
  BY DEF Unset, Scored
<1> QED
  BY <1>1, DocumentRoundTrip

\* A score overwrites all that an earlier one said.
LEMMA RescoredIs ==
  ASSUME NEW d, NEW k, NEW s
  PROVE  Rescored(d, k, s) = ToDocument(Scored(k, s))
<1>1. FromDocument(d) = [f \in DOMAIN Unset |-> FromDocument(d)[f]]
  BY DEF FromDocument
<1> DEFINE m == FromDocument(d)
<1>2. m = [f \in DOMAIN Unset |-> m[f]]
  BY <1>1
<1> HIDE DEF m
<1>3. DOMAIN Unset = {"status", "score", "winnerTeamId", "decidedBy"}
  BY DEF Unset
<1> DEFINE w == WithScore(m, k, s)
<1>4. /\ w = [f \in DOMAIN Unset |-> w[f]]
      /\ w.status = "played" /\ w.score = s /\ w.winnerTeamId = WinnerTeamId(k, s)
      /\ w.decidedBy = IF s[1] = s[2] THEN "randomTieBreak" ELSE "regularTime"
  BY <1>2, <1>3 DEF WithScore
<1>5. Scored(k, s) = [f \in DOMAIN Unset |-> Scored(k, s)[f]]
  BY <1>3 DEF Scored
<1> HIDE DEF w
<1>6. \A f \in DOMAIN Unset : w[f] = Scored(k, s)[f]
  BY <1>3, <1>4 DEF Scored
<1>7. w = Scored(k, s)
  BY <1>4, <1>5, <1>6
<1> QED
  BY <1>7 DEF Rescored, m, w

LEMMA KeysType == IsFiniteSet(Keys) /\ Keys \subseteq MatchKey
<1> DEFINE fs == CreateRegularPhaseMatches(Groups)
<1>1. fs \in Seq(KeysOf("group"))
  BY GroupTableAssumption, RegularPhaseType
<1> HIDE DEF fs
<1>2. Len(fs) \in Nat /\ DOMAIN fs = 1..Len(fs) /\ \A i \in 1..Len(fs) : fs[i] \in KeysOf("group")
  BY <1>1, LenProperties, ElementOfSeq
<1>3. ToSet(fs) \subseteq MatchKey
  BY <1>2 DEF ToSet, KeysOf, MatchKey, Rounds
<1>4. fs \in Surjection(1..Len(fs), ToSet(fs))
  BY <1>1, <1>2, LenProperties DEF Surjection, ToSet
<1>5. IsFiniteSet(ToSet(fs))
  BY <1>2, <1>4, FS_Interval, FS_Surjection
<1> QED
  BY <1>3, <1>5, GroupTableAssumption, FS_Union DEF Keys, fs

LEMMA DocumentsInit == Init => DocumentsInv
  BY DEF Init, DocumentsInv, Keys

LEMMA DocumentsStep == DocumentsInv /\ [Next]_documents => DocumentsInv'
<1> SUFFICES ASSUME DocumentsInv, Next PROVE DocumentsInv'
  BY DEF DocumentsInv
<1>1. PICK k \in DOMAIN documents, sent \in Goals : PatchScore(k, sent)
  BY DEF Next
<1> DEFINE s == AsScore(sent)
<1>2. /\ s \in LegalScore
      /\ documents' = [documents EXCEPT ![k] = Rescored(documents[k], k, s)]
  BY <1>1 DEF PatchScore, Store, AsScore, IsValidScore, LegalScore
<1> HIDE DEF s
<1>3. documents' = [documents EXCEPT ![k] = ToDocument(Scored(k, s))]
  BY <1>2, RescoredIs
<1>4. k \in Keys
  BY <1>1 DEF DocumentsInv
<1> QED
  BY <1>2, <1>3, <1>4 DEF DocumentsInv

\* What the strategy reads in a document, and what scoring wrote there.
LEMMA ReadBack ==
  ASSUME DocumentsInv, NEW k \in DOMAIN documents
  PROVE  /\ k \in MatchKey /\ k \in DOMAIN ms
         /\ ms[k] = ResultOf(FromDocument(documents[k]))
         /\ \/ FromDocument(documents[k]) = Unset /\ ms[k] = NoResult
            \/ \E s \in LegalScore :
                 /\ FromDocument(documents[k]) = Scored(k, s)
                 /\ ms[k] = [home |-> s[1], visitor |-> s[2], winner |-> WinnerTeamId(k, s)]
<1>1. k \in Keys /\ k \in MatchKey
  BY KeysType DEF DocumentsInv
<1>2. ms[k] = ResultOf(FromDocument(documents[k])) /\ k \in DOMAIN ms
  BY DEF ms
<1>3. CASE documents[k] = NewDocument
  <2>1. FromDocument(documents[k]) = Unset
    BY <1>3, NewIsUnset
  <2>2. ResultOf(Unset) = NoResult
    BY DEF ResultOf, Unset
  <2> QED
    BY <1>1, <1>2, <2>1, <2>2
<1>4. ASSUME NEW s \in LegalScore, documents[k] = ToDocument(Scored(k, s))
      PROVE  /\ FromDocument(documents[k]) = Scored(k, s)
             /\ ms[k] = [home |-> s[1], visitor |-> s[2], winner |-> WinnerTeamId(k, s)]
  <2>1. FromDocument(documents[k]) = Scored(k, s)
    BY <1>4, ScoredRoundTrip
  <2>2. s # NoScore
    BY DEF LegalScore, NoScore
  <2> QED
    BY <1>2, <2>1, <2>2 DEF ResultOf, Scored
<1> QED
  BY <1>1, <1>2, <1>3, <1>4 DEF DocumentsInv

LEMMA StoredTable == ASSUME DocumentsInv PROVE MatchTable(ms) /\ DOMAIN ms = Keys
<1>1. DOMAIN ms = DOMAIN documents /\ DOMAIN documents = Keys
  BY DEF ms, DocumentsInv
<1>2. ASSUME NEW k \in DOMAIN documents PROVE ms[k] \in Result
  <2>1. k \in MatchKey /\ NoResult \in Result
    BY ReadBack DEF NoResult, Result
  <2>2. ASSUME NEW s \in LegalScore
        PROVE  [home |-> s[1], visitor |-> s[2], winner |-> WinnerTeamId(k, s)] \in Result
    BY <2>1 DEF LegalScore, Result, WinnerTeamId, PickDeterministicWinner, MatchKey
  <2> QED
    BY <2>1, <2>2, ReadBack
<1> QED
  BY <1>1, <1>2, KeysType DEF MatchTable

LEMMA DocumentsAlways == Spec => []DocumentsInv
  BY DocumentsInit, DocumentsStep, PTL DEF Spec

\* A stored document tells one story, whatever numbers are sent and corrected:
\* what UpdateScore writes, from_json reads, and a score replaces every field
\* an earlier one set.
THEOREM DocumentsTellOneStory == Spec => []DocumentsCoherent
<1>1. DocumentsInv => DocumentsCoherent
  <2> SUFFICES ASSUME DocumentsInv, NEW k \in DOMAIN documents,
                      FromDocument(documents[k]) # Unset
               PROVE  LET m == FromDocument(documents[k]) IN
                      /\ m.status = "played"
                      /\ m.score \in LegalScore
                      /\ m.winnerTeamId \in {k.home, k.visitor}
                      /\ m.decidedBy = IF WinnerOf(ms, k) = NoTeam
                                       THEN "randomTieBreak" ELSE "regularTime"
                      /\ WinnerOf(ms, k) \in {m.winnerTeamId, NoTeam}
    BY DEF DocumentsCoherent, LegalScore
  <2>1. PICK s \in LegalScore :
          /\ FromDocument(documents[k]) = Scored(k, s)
          /\ ms[k] = [home |-> s[1], visitor |-> s[2], winner |-> WinnerTeamId(k, s)]
    BY ReadBack
  <2>2. s[1] \in Nat /\ s[2] \in Nat
    BY DEF LegalScore
  <2>3. k.home # NoTeam /\ k.visitor # NoTeam
    BY ReadBack, TeamAssumption DEF MatchKey, NoTeam
  <2>4. WinnerTeamId(k, s) \in {k.home, k.visitor}
    BY DEF WinnerTeamId, PickDeterministicWinner
  <2>5. CASE s[1] = s[2]
    <3>1. WinnerOf(ms, k) = NoTeam
      BY <2>1, <2>2, <2>5 DEF WinnerOf
    <3> QED
      BY <2>1, <2>4, <2>5, <3>1 DEF Scored
  <2>6. CASE s[1] # s[2]
    <3>1. WinnerOf(ms, k) = WinnerTeamId(k, s) /\ WinnerOf(ms, k) # NoTeam
      BY <2>1, <2>2, <2>3, <2>6 DEF WinnerOf, WinnerTeamId
    <3> QED
      BY <2>1, <2>4, <2>6, <3>1 DEF Scored
  <2> QED
    BY <2>5, <2>6
<1> QED
  BY <1>1, DocumentsAlways, PTL

---------------------------------------------------------------------------
\* Standings

\* The matches of GroupTable are group matches, and no team is in two groups.
GroupStageOnly == CrossGroup \subseteq KeysOf("group") /\ Disjoint(Groups)

LEMMA KeysAreGroup == ASSUME GroupStageOnly PROVE Keys \subseteq KeysOf("group")
<1> DEFINE fs == CreateRegularPhaseMatches(Groups)
<1>1. fs \in Seq(KeysOf("group"))
  BY GroupTableAssumption, RegularPhaseType
<1> HIDE DEF fs
<1>2. ToSet(fs) \subseteq KeysOf("group")
  BY <1>1, LenProperties, ElementOfSeq DEF ToSet
<1> QED
  BY <1>2 DEF Keys, GroupStageOnly, fs

\* A scored match has a result: its winner is a team.
LEMMA PlayedIsScored ==
  ASSUME DocumentsInv, NEW k \in DOMAIN documents
  PROVE  FromDocument(documents[k]).status = "played" <=> HasScore(ms, k)
<1>1. CASE FromDocument(documents[k]) = Unset /\ ms[k] = NoResult
  <2>1. Unset.status # "played"
    BY DEF Unset
  <2> QED
    BY <1>1, <2>1 DEF HasScore
<1>2. ASSUME NEW s \in LegalScore,
             FromDocument(documents[k]) = Scored(k, s),
             ms[k] = [home |-> s[1], visitor |-> s[2], winner |-> WinnerTeamId(k, s)]
      PROVE  FromDocument(documents[k]).status = "played" /\ HasScore(ms, k)
  <2>1. WinnerTeamId(k, s) \in {k.home, k.visitor}
    BY DEF WinnerTeamId, PickDeterministicWinner
  <2>2. WinnerTeamId(k, s) # NoTeam
    BY <2>1, ReadBack, TeamAssumption DEF MatchKey, NoTeam
  <2>3. ms[k].winner # NoResult.winner
    BY <1>2, <2>2 DEF NoResult
  <2> QED
    BY <1>2, <2>3 DEF Scored, HasScore
<1> QED
  BY <1>1, <1>2, ReadBack

\* What a client sees listed as played is what the tables count: one goes by the
\* status and the other by the score, and both are set together (MatchDelegate,
\* Table::addMatch).
THEOREM TablesShowTheListing == ASSUME GroupStageOnly PROVE Spec => []ListingMatchesTables
<1>1. DocumentsInv => ListingMatchesTables
  <2> SUFFICES ASSUME DocumentsInv PROVE ListingMatchesTables
    OBVIOUS
  <2>1. Listed(documents, "played") = {k \in DOMAIN documents : HasScore(ms, k)}
    BY PlayedIsScored DEF Listed
  <2>2. Listed(documents, "pending") = Listed(documents, "all") \ Listed(documents, "played")
    BY DEF Listed
  <2>3. \A k \in DOMAIN documents : k \in KeysOf("group")
    BY KeysAreGroup DEF DocumentsInv
  <2>4. ASSUME NEW i \in DOMAIN Groups, NEW k, InGroup(Groups[i], k)
        PROVE  \A j \in 1..(i - 1) : ~InGroup(Groups[j], k)
    <3>1. DOMAIN Groups = 1..Len(Groups) /\ Len(Groups) \in Nat
      BY GroupTableAssumption, LenProperties
    <3>2. \A j \in 1..(i - 1) : j \in DOMAIN Groups /\ j # i
      BY <3>1
    <3> QED
      BY <2>4, <3>2 DEF GroupStageOnly, Disjoint, InGroup
  <2>5. DOMAIN ms = DOMAIN documents
    BY DEF ms
  <2>6. \A i \in DOMAIN Groups :
          GroupMatches(ms, Groups, i) = {k \in Listed(documents, "played") : InGroup(Groups[i], k)}
    BY <2>1, <2>3, <2>4, <2>5 DEF GroupMatches, KeysOf
  <2> QED
    BY <2>1, <2>2, <2>6 DEF ListingMatchesTables
<1> QED
  BY <1>1, DocumentsAlways, PTL

LEMMA StandingsAreTable ==
  ASSUME DocumentsInv, NEW i \in DOMAIN Groups
  PROVE  Table(Standings(ms, Groups, i))
<1>1. Groups[i] \in Seq(Team)
  BY GroupTableAssumption, ElementOfSeq, LenProperties
<1>2. GroupMatches(ms, Groups, i) \in SUBSET DOMAIN ms
  BY DEF GroupMatches
<1> QED
  BY <1>1, <1>2, StoredTable, GroupTeams, RowsAreTable DEF Standings

\* std::sort is given a strict weak order on the rows of every table, for any
\* results and any names: without that its behaviour is undefined
\* (WorldCupStrategy's Table).
THEOREM RowsHaveAnOrder == Spec => []BetterIsStrictWeakOrder
<1>1. ASSUME NEW rows, Table(rows)
      PROVE  /\ \A a, b \in rows : Better(a, b) => ~Better(b, a)
             /\ \A a, b, c \in rows : Better(a, b) /\ Better(b, c) => Better(a, c)
             /\ \A a, b, c \in rows : Tied(a, b) /\ Tied(b, c) => Tied(a, c)
             /\ \A a, b \in rows : Tied(a, b) => NameOf[a.team] = NameOf[b.team]
  <2>1. rows \subseteq Row
    BY <1>1 DEF Table
  <2>2. \A a, b \in rows : Better(a, b) => ~Better(b, a)
    BY <2>1, BetterIsAsymmetric
  <2>3. \A a, b, c \in rows : Better(a, b) /\ Better(b, c) => Better(a, c)
    BY <2>1, BetterIsTransitive
  <2>4. \A a, b, c \in rows : Tied(a, b) /\ Tied(b, c) => Tied(a, c)
    BY <2>1, NeitherIsBetter DEF Tied
  <2>5. \A a, b \in rows : Tied(a, b) => NameOf[a.team] = NameOf[b.team]
    BY <2>1, NeitherIsBetter DEF Tied
  <2> QED
    BY <2>2, <2>3, <2>4, <2>5
<1>2. ASSUME DocumentsInv PROVE BetterIsStrictWeakOrder
  <2>1. \A i \in DOMAIN Groups : Table(Standings(ms, Groups, i))
    BY <1>2, StandingsAreTable
  <2> QED
    BY <1>1, <2>1 DEF BetterIsStrictWeakOrder
<1> QED
  BY <1>2, DocumentsAlways, PTL

---------------------------------------------------------------------------
\* Adding up

\* Induction over the subsets of a finite set.
LEMMA SetInduction ==
  ASSUME NEW U, IsFiniteSet(U), NEW T, {} \in T,
         \A s \in SUBSET U : \A x \in U \ s : s \in T => s \cup {x} \in T
  PROVE  U \in T
<1> DEFINE N == {n \in Nat : \A s \in SUBSET U : Cardinality(s) = n => s \in T}
<1>1. \A s \in SUBSET U : IsFiniteSet(s) /\ Cardinality(s) \in Nat
  BY FS_Subset, FS_CardinalityType
<1>2. 0 \in N
  BY <1>1, FS_EmptySet
<1>3. ASSUME NEW n \in Nat, n \in N PROVE n + 1 \in N
  <2> SUFFICES ASSUME NEW s \in SUBSET U, Cardinality(s) = n + 1 PROVE s \in T
    OBVIOUS
  <2>1. s # {}
    BY FS_EmptySet
  <2>2. PICK x : x \in s
    BY <2>1
  <2> DEFINE r == s \ {x}
  <2>3. r \in SUBSET U /\ x \in U \ r /\ s = r \cup {x}
    BY <2>2
  <2>4. Cardinality(r) = n
    <3>1. Cardinality(r) = Cardinality(s) - 1
      BY <1>1, <2>2, FS_RemoveElement
    <3> QED
      BY <3>1
  <2> HIDE DEF r
  <2>5. r \in T
    BY <1>3, <2>3, <2>4
  <2> QED
    BY <2>3, <2>5
<1> HIDE DEF N
<1>4. Cardinality(U) \in N
  BY <1>1, <1>2, <1>3, InductiveSet
<1> QED
  BY <1>1, <1>4 DEF N

\* The partial sums of a larger set are sums.
LEMMA SumOfPart ==
  ASSUME NEW S, IsFiniteSet(S), NEW f, NEW g, IsSum(f, g, S), NEW s \in SUBSET S
  PROVE  g[s] = SumOver(f, s)
<1> DEFINE h == [r \in SUBSET s |-> g[r]]
<1>1. ASSUME NEW r \in SUBSET s PROVE h[r] = SumStep(f, h, r)
  <2>1. r \in SUBSET S /\ g[r] = SumStep(f, g, r)
    BY DEF IsSum
  <2>2. CASE r = {}
    BY <2>1, <2>2 DEF SumStep
  <2>3. CASE r # {}
    <3>1. r \ {CHOOSE x \in r : TRUE} \in SUBSET s
      OBVIOUS
    <3>2. h[r \ {CHOOSE x \in r : TRUE}] = g[r \ {CHOOSE x \in r : TRUE}]
      BY <3>1
    <3> QED
      BY <2>1, <2>3, <3>2 DEF SumStep
  <2> QED
    BY <2>2, <2>3
<1>2. h = [r \in SUBSET s |-> h[r]] /\ h[s] = g[s]
  OBVIOUS
<1> HIDE DEF h
<1>3. IsSum(f, h, s)
  BY <1>1, <1>2 DEF IsSum
<1>4. IsFiniteSet(s)
  BY FS_Subset
<1> QED
  BY <1>2, <1>3, <1>4, SumOverIs

LEMMA SumOfNothing == ASSUME NEW f PROVE SumOver(f, {}) = 0
<1>1. IsFiniteSet({})
  BY FS_EmptySet
<1>2. PICK g : IsSum(f, g, {})
  BY <1>1, SumExists
<1>3. g[{}] = 0
  BY <1>2 DEF IsSum, SumStep
<1> QED
  BY <1>1, <1>2, <1>3, SumOverIs

LEMMA SumByChoice ==
  ASSUME NEW S, IsFiniteSet(S), S # {}, NEW f
  PROVE  LET c == CHOOSE x \in S : TRUE
         IN  c \in S /\ SumOver(f, S) = f[c] + SumOver(f, S \ {c})
<1> DEFINE c == CHOOSE x \in S : TRUE
<1>1. PICK g : IsSum(f, g, S)
  BY SumExists
<1>2. S \in SUBSET S /\ S \ {c} \in SUBSET S
  OBVIOUS
<1>3. g[S] = f[c] + g[S \ {c}]
  BY <1>1, <1>2 DEF IsSum, SumStep
<1>4. c \in S
  OBVIOUS
<1> HIDE DEF c
<1>5. g[S] = SumOver(f, S) /\ g[S \ {c}] = SumOver(f, S \ {c})
  BY <1>1, <1>2, SumOfPart
<1>6. c \in S /\ SumOver(f, S) = f[c] + SumOver(f, S \ {c})
  BY <1>3, <1>4, <1>5
<1> QED
  BY <1>6 DEF c

\* Any element can be the first.
LEMMA SumByElement ==
  ASSUME NEW S, IsFiniteSet(S), NEW f, \A x \in S : f[x] \in Nat, NEW x \in S
  PROVE  SumOver(f, S) = f[x] + SumOver(f, S \ {x})
<1> DEFINE N == {n \in Nat : \A s \in SUBSET S : Cardinality(s) = n =>
                   \A y \in s : SumOver(f, s) = f[y] + SumOver(f, s \ {y})}
<1>1. \A s \in SUBSET S : IsFiniteSet(s) /\ Cardinality(s) \in Nat /\ SumOver(f, s) \in Nat
  BY FS_Subset, FS_CardinalityType, SumOverType
<1>2. 0 \in N
  BY <1>1, FS_EmptySet
<1>3. ASSUME NEW n \in Nat, n \in N PROVE n + 1 \in N
  <2> SUFFICES ASSUME NEW s \in SUBSET S, Cardinality(s) = n + 1, NEW y \in s
               PROVE  SumOver(f, s) = f[y] + SumOver(f, s \ {y})
    OBVIOUS
  <2> DEFINE c == CHOOSE z \in s : TRUE
  <2>1. IsFiniteSet(s) /\ s # {}
    BY <1>1
  <2>2. c \in s /\ SumOver(f, s) = f[c] + SumOver(f, s \ {c})
    BY <2>1, SumByChoice
  <2> HIDE DEF c
  <2>3. CASE y = c
    BY <2>2, <2>3
  <2>4. CASE y # c
    <3> DEFINE r == s \ {c, y}
    <3>1. /\ s \ {c} \in SUBSET S /\ s \ {y} \in SUBSET S /\ r \in SUBSET S
          /\ y \in s \ {c} /\ c \in s \ {y}
          /\ (s \ {c}) \ {y} = r /\ (s \ {y}) \ {c} = r
      BY <2>2, <2>4
    <3>2. Cardinality(s \ {c}) = n /\ Cardinality(s \ {y}) = n
      <4>1. /\ Cardinality(s \ {c}) = Cardinality(s) - 1
            /\ Cardinality(s \ {y}) = Cardinality(s) - 1
        BY <2>1, <2>2, FS_RemoveElement
      <4> QED
        BY <4>1
    <3> HIDE DEF r
    <3>3. /\ SumOver(f, s \ {c}) = f[y] + SumOver(f, r)
          /\ SumOver(f, s \ {y}) = f[c] + SumOver(f, r)
      BY <1>3, <3>1, <3>2
    <3>4. f[c] \in Nat /\ f[y] \in Nat /\ SumOver(f, r) \in Nat
      BY <1>1, <2>2, <3>1
    <3> QED
      BY <2>2, <3>3, <3>4
  <2> QED
    BY <2>3, <2>4
<1> HIDE DEF N
<1>4. Cardinality(S) \in N
  BY <1>1, <1>2, <1>3, InductiveSet
<1> QED
  BY <1>1, <1>4 DEF N

LEMMA SumWithElement ==
  ASSUME NEW S, IsFiniteSet(S), NEW f, NEW x, x \notin S, \A y \in S \cup {x} : f[y] \in Nat
  PROVE  SumOver(f, S \cup {x}) = f[x] + SumOver(f, S)
<1>1. IsFiniteSet(S \cup {x}) /\ x \in S \cup {x} /\ (S \cup {x}) \ {x} = S
  BY FS_AddElement
<1> QED
  BY <1>1, SumByElement

\* Only the values on the set count.
LEMMA SumSame ==
  ASSUME NEW S, IsFiniteSet(S), NEW f, NEW g, \A x \in S : f[x] = g[x] /\ f[x] \in Nat
  PROVE  SumOver(f, S) = SumOver(g, S)
<1> DEFINE T == {s \in SUBSET S : SumOver(f, s) = SumOver(g, s)}
<1>1. {} \in T
  BY SumOfNothing
<1>2. ASSUME NEW s \in SUBSET S, NEW x \in S \ s, s \in T PROVE s \cup {x} \in T
  <2>1. IsFiniteSet(s) /\ s \cup {x} \in SUBSET S
    BY FS_Subset
  <2>2. /\ SumOver(f, s \cup {x}) = f[x] + SumOver(f, s)
        /\ SumOver(g, s \cup {x}) = g[x] + SumOver(g, s)
    BY <2>1, SumWithElement
  <2> QED
    BY <1>2, <2>1, <2>2
<1>3. S \in T
  <2> HIDE DEF T
  <2> QED
    BY <1>1, <1>2, SetInduction
<1> QED
  BY <1>3

\* Adding up value by value is adding up the sums.
LEMMA SumPlus ==
  ASSUME NEW S, IsFiniteSet(S), NEW f, NEW g, NEW h,
         \A x \in S : f[x] \in Nat /\ g[x] \in Nat /\ h[x] = f[x] + g[x]
  PROVE  SumOver(h, S) = SumOver(f, S) + SumOver(g, S)
<1> DEFINE T == {s \in SUBSET S : SumOver(h, s) = SumOver(f, s) + SumOver(g, s)}
<1>1. {} \in T
  BY SumOfNothing
<1>2. ASSUME NEW s \in SUBSET S, NEW x \in S \ s, s \in T PROVE s \cup {x} \in T
  <2>1. /\ IsFiniteSet(s) /\ s \cup {x} \in SUBSET S
        /\ \A y \in S : h[y] \in Nat
    BY FS_Subset
  <2>2. /\ SumOver(f, s \cup {x}) = f[x] + SumOver(f, s)
        /\ SumOver(g, s \cup {x}) = g[x] + SumOver(g, s)
        /\ SumOver(h, s \cup {x}) = h[x] + SumOver(h, s)
    BY <2>1, SumWithElement
  <2>3. SumOver(f, s) \in Nat /\ SumOver(g, s) \in Nat
    BY <2>1, SumOverType
  <2>4. SumOver(h, s) = SumOver(f, s) + SumOver(g, s)
    BY <1>2
  <2>5. f[x] \in Nat /\ g[x] \in Nat /\ h[x] = f[x] + g[x]
    OBVIOUS
  <2>6. SumOver(h, s \cup {x}) = SumOver(f, s \cup {x}) + SumOver(g, s \cup {x})
    BY <2>2, <2>3, <2>4, <2>5
  <2> QED
    BY <2>1, <2>6
<1>3. S \in T
  <2> HIDE DEF T
  <2> QED
    BY <1>1, <1>2, SetInduction
<1> QED
  BY <1>3

LEMMA SumOfZeros ==
  ASSUME NEW S, IsFiniteSet(S), NEW f, \A x \in S : f[x] = 0
  PROVE  SumOver(f, S) = 0
<1> DEFINE T == {s \in SUBSET S : SumOver(f, s) = 0}
<1>1. {} \in T
  BY SumOfNothing
<1>2. ASSUME NEW s \in SUBSET S, NEW x \in S \ s, s \in T PROVE s \cup {x} \in T
  <2>1. /\ IsFiniteSet(s) /\ s \cup {x} \in SUBSET S
        /\ f[x] = 0 /\ \A y \in s \cup {x} : f[y] \in Nat
    BY FS_Subset
  <2>2. SumOver(f, s \cup {x}) = f[x] + SumOver(f, s)
    BY <2>1, SumWithElement
  <2> QED
    BY <1>2, <2>1, <2>2
<1>3. S \in T
  <2> HIDE DEF T
  <2> QED
    BY <1>1, <1>2, SetInduction
<1> QED
  BY <1>3

\* A sum over the values of an injection is one over its arguments.
LEMMA SumOfImage ==
  ASSUME NEW S, IsFiniteSet(S), NEW b, \A x, y \in S : b[x] = b[y] => x = y,
         NEW f, NEW g, \A x \in S : g[x] = f[b[x]] /\ g[x] \in Nat
  PROVE  SumOver(f, {b[x] : x \in S}) = SumOver(g, S)
<1> DEFINE Image(s) == {b[x] : x \in s}
           T == {s \in SUBSET S : IsFiniteSet(Image(s)) /\ SumOver(f, Image(s)) = SumOver(g, s)}
<1>1. {} \in T
  <2>1. Image({}) = {}
    OBVIOUS
  <2> QED
    BY <2>1, SumOfNothing, FS_EmptySet
<1>2. ASSUME NEW s \in SUBSET S, NEW x \in S \ s, s \in T PROVE s \cup {x} \in T
  <2>1. /\ IsFiniteSet(s) /\ s \cup {x} \in SUBSET S
        /\ Image(s \cup {x}) = Image(s) \cup {b[x]}
        /\ b[x] \notin Image(s) /\ IsFiniteSet(Image(s))
        /\ \A y \in Image(s) \cup {b[x]} : f[y] \in Nat
    BY <1>2, FS_Subset
  <2> HIDE DEF Image
  <2>2. /\ SumOver(f, Image(s) \cup {b[x]}) = f[b[x]] + SumOver(f, Image(s))
        /\ SumOver(g, s \cup {x}) = g[x] + SumOver(g, s)
    BY <2>1, SumWithElement
  <2>3. IsFiniteSet(Image(s) \cup {b[x]})
    BY <2>1, FS_AddElement
  <2> QED
    BY <1>2, <2>1, <2>2, <2>3
<1>3. S \in T
  <2> HIDE DEF T
  <2> QED
    BY <1>1, <1>2, SetInduction
<1> QED
  BY <1>3

\* A number added at two places is added twice to the sum.
LEMMA SumOfTwo ==
  ASSUME NEW S, IsFiniteSet(S), NEW f, NEW h \in S, NEW v \in S, h # v,
         f[h] \in Nat, f[v] \in Nat, \A x \in S \ {h, v} : f[x] = 0
  PROVE  SumOver(f, S) = f[h] + f[v]
<1> DEFINE R == S \ {h, v}
           Q == S \ {h}
<1>1. /\ IsFiniteSet(Q) /\ IsFiniteSet(R) /\ v \in Q /\ Q \ {v} = R
      /\ \A x \in S : f[x] \in Nat
      /\ \A x \in Q : f[x] \in Nat
      /\ \A x \in R : f[x] = 0
  BY FS_Subset
<1>2. SumOver(f, S) = f[h] + SumOver(f, Q)
  BY <1>1, SumByElement
<1> HIDE DEF Q, R
<1>3. SumOver(f, Q) = f[v] + SumOver(f, R)
  BY <1>1, SumByElement
<1>4. SumOver(f, R) = 0
  BY <1>1, SumOfZeros
<1> QED
  BY <1>2, <1>3, <1>4

\* The matches of P the team t plays.
Own(P, t) == {k \in P : t \in {k.home, k.visitor}}

\* What every match adds for its two teams can be added up by teams or by
\* matches.
LEMMA DoubleCount ==
  ASSUME NEW P, IsFiniteSet(P), NEW ts, IsFiniteSet(ts), NEW c,
         \A k \in P : /\ k.home \in ts /\ k.visitor \in ts /\ k.home # k.visitor
                      /\ \A t \in ts : c[k][t] \in Nat
  PROVE  SumOver([t \in ts |-> SumOver([k \in P |-> c[k][t]], Own(P, t))], ts)
           = SumOver([k \in P |-> c[k][k.home] + c[k][k.visitor]], P)
<1> DEFINE col(t) == [k \in P |-> c[k][t]]
           F(Q)   == [t \in ts |-> SumOver(col(t), Own(Q, t))]
           both   == [k \in P |-> c[k][k.home] + c[k][k.visitor]]
           T      == {Q \in SUBSET P : SumOver(F(Q), ts) = SumOver(both, Q)}
<1>1. {} \in T
  <2>1. \A t \in ts : F({})[t] = 0
    <3>1. \A t \in ts : Own({}, t) = {}
      BY DEF Own
    <3> HIDE DEF col
    <3> QED
      BY <3>1, SumOfNothing
  <2> HIDE DEF F
  <2>2. SumOver(F({}), ts) = 0
    BY <2>1, SumOfZeros
  <2> HIDE DEF both
  <2> QED
    BY <2>2, SumOfNothing
<1>2. ASSUME NEW Q \in SUBSET P, NEW k \in P \ Q, Q \in T PROVE Q \cup {k} \in T
  <2> DEFINE D == [t \in ts |-> IF t \in {k.home, k.visitor} THEN c[k][t] ELSE 0]
  <2>1. /\ k.home \in ts /\ k.visitor \in ts /\ k.home # k.visitor
        /\ \A t \in ts : c[k][t] \in Nat
        /\ IsFiniteSet(Q) /\ Q \cup {k} \in SUBSET P
    BY FS_Subset
  <2>2. \A t \in ts : D[t] \in Nat /\ F(Q)[t] \in Nat /\ F(Q \cup {k})[t] = F(Q)[t] + D[t]
    <3> SUFFICES ASSUME NEW t \in ts
                 PROVE  /\ D[t] \in Nat /\ SumOver(col(t), Own(Q, t)) \in Nat
                        /\ SumOver(col(t), Own(Q \cup {k}, t)) = SumOver(col(t), Own(Q, t)) + D[t]
      OBVIOUS
    <3>1. /\ \A m \in P : col(t)[m] \in Nat
          /\ col(t)[k] = c[k][t] /\ c[k][t] \in Nat
      BY <2>1
    <3>2. IsFiniteSet(Own(Q, t)) /\ Own(Q, t) \in SUBSET P /\ k \notin Own(Q, t)
      BY <2>1, FS_Subset DEF Own
    <3>3. D[t] = IF t \in {k.home, k.visitor} THEN c[k][t] ELSE 0
      OBVIOUS
    <3> HIDE DEF col, D
    <3>4. SumOver(col(t), Own(Q, t)) \in Nat
      BY <3>1, <3>2, SumOverType
    <3>5. CASE t \in {k.home, k.visitor}
      <4>1. Own(Q \cup {k}, t) = Own(Q, t) \cup {k}
        BY <3>5 DEF Own
      <4>2. SumOver(col(t), Own(Q, t) \cup {k}) = col(t)[k] + SumOver(col(t), Own(Q, t))
        BY <3>1, <3>2, SumWithElement
      <4>3. D[t] = col(t)[k] /\ D[t] \in Nat
        BY <3>1, <3>3, <3>5
      <4>4. SumOver(col(t), Own(Q \cup {k}, t)) = D[t] + SumOver(col(t), Own(Q, t))
        BY <4>1, <4>2, <4>3
      <4>5. D[t] + SumOver(col(t), Own(Q, t)) = SumOver(col(t), Own(Q, t)) + D[t]
        BY <3>4, <4>3
      <4> QED
        BY <3>4, <4>3, <4>4, <4>5
    <3>6. CASE t \notin {k.home, k.visitor}
      <4>1. Own(Q \cup {k}, t) = Own(Q, t)
        BY <3>6 DEF Own
      <4> QED
        BY <3>3, <3>4, <3>6, <4>1
    <3> QED
      BY <3>5, <3>6
  <2>3. /\ D[k.home] = c[k][k.home] /\ D[k.visitor] = c[k][k.visitor]
        /\ \A t \in ts \ {k.home, k.visitor} : D[t] = 0
        /\ D[k.home] \in Nat /\ D[k.visitor] \in Nat
    BY <2>1
  <2>4. /\ both[k] = c[k][k.home] + c[k][k.visitor]
        /\ \A m \in P : both[m] \in Nat
    OBVIOUS
  <2> HIDE DEF D, F, both
  <2>5. SumOver(F(Q \cup {k}), ts) = SumOver(F(Q), ts) + SumOver(D, ts)
    BY <2>2, SumPlus
  <2>6. SumOver(D, ts) = D[k.home] + D[k.visitor]
    BY <2>1, <2>3, SumOfTwo
  <2>7. SumOver(both, Q \cup {k}) = both[k] + SumOver(both, Q)
    BY <2>1, <2>4, SumWithElement
  <2>8. SumOver(both, Q) \in Nat /\ both[k] \in Nat
    BY <2>1, <2>4, SumOverType
  <2>9. SumOver(F(Q), ts) = SumOver(both, Q)
    BY <1>2
  <2>10. SumOver(D, ts) = both[k]
    BY <2>3, <2>4, <2>6
  <2>11. SumOver(F(Q \cup {k}), ts) = SumOver(both, Q \cup {k})
    BY <2>5, <2>7, <2>8, <2>9, <2>10
  <2> QED
    BY <2>1, <2>11
<1>3. P \in T
  <2> HIDE DEF T
  <2> QED
    BY <1>1, <1>2, SetInduction
<1>4. SumOver(F(P), ts) = SumOver(both, P)
  BY <1>3
<1> QED
  BY <1>4

\* Counting is adding up: p for each element of S that is in W.
LEMMA SumOfCount ==
  ASSUME NEW S, IsFiniteSet(S), NEW W, NEW p \in Nat, NEW f,
         \A x \in S : f[x] = IF x \in W THEN p ELSE 0
  PROVE  SumOver(f, S) = p * Cardinality(S \cap W)
<1> DEFINE T == {s \in SUBSET S : SumOver(f, s) = p * Cardinality(s \cap W)}
<1>1. {} \in T
  <2>1. {} \cap W = {} /\ Cardinality({}) = 0
    BY FS_EmptySet
  <2> QED
    BY <2>1, SumOfNothing
<1>2. ASSUME NEW s \in SUBSET S, NEW x \in S \ s, s \in T PROVE s \cup {x} \in T
  <2>1. /\ IsFiniteSet(s) /\ s \cup {x} \in SUBSET S
        /\ \A y \in s \cup {x} : f[y] \in Nat
    BY FS_Subset
  <2>2. SumOver(f, s \cup {x}) = f[x] + SumOver(f, s)
    BY <2>1, SumWithElement
  <2>3. IsFiniteSet(s \cap W) /\ Cardinality(s \cap W) \in Nat
    BY <2>1, FS_Subset, FS_CardinalityType
  <2>4. SumOver(f, s) = p * Cardinality(s \cap W)
    BY <1>2
  <2>5. SumOver(f, s \cup {x}) = p * Cardinality((s \cup {x}) \cap W)
    <3>1. CASE x \in W
      <4>1. (s \cup {x}) \cap W = (s \cap W) \cup {x} /\ x \notin s \cap W
        BY <3>1
      <4>2. Cardinality((s \cap W) \cup {x}) = Cardinality(s \cap W) + 1
        BY <2>3, <4>1, FS_AddElement
      <4>3. p * (Cardinality(s \cap W) + 1) = p + p * Cardinality(s \cap W)
        BY <2>3
      <4>4. f[x] = p
        BY <3>1
      <4> QED
        BY <2>2, <2>4, <4>1, <4>2, <4>3, <4>4
    <3>2. CASE x \notin W
      <4>1. (s \cup {x}) \cap W = s \cap W
        BY <3>2
      <4>2. 0 + p * Cardinality(s \cap W) = p * Cardinality(s \cap W)
        BY <2>3
      <4>3. f[x] = 0
        BY <3>2
      <4> QED
        BY <2>2, <2>4, <4>1, <4>2, <4>3
    <3> QED
      BY <3>1, <3>2
  <2> QED
    BY <2>1, <2>5
<1>3. S \in T
  <2> HIDE DEF T
  <2> QED
    BY <1>1, <1>2, SetInduction
<1> QED
  BY <1>3

---------------------------------------------------------------------------
\* The books

LEMMA TotalIsSum ==
  ASSUME NEW rows, IsFiniteSet(rows), NEW x
  PROVE  Total(rows, x) = SumOver([r \in rows |-> r[x]], rows)
<1> DEFINE f == [r \in rows |-> r[x]]
           Solves(g) == g = [s \in SUBSET rows |->
                               IF s = {} THEN 0
                               ELSE (CHOOSE r \in s : TRUE)[x] + g[s \ {CHOOSE r \in s : TRUE}]]
<1>1. ASSUME NEW s \in SUBSET rows, s # {}
      PROVE  (CHOOSE r \in s : TRUE)[x] = f[CHOOSE r \in s : TRUE]
  <2>1. (CHOOSE r \in s : TRUE) \in rows
    BY <1>1
  <2> QED
    BY <2>1
<1>2. \A g : Solves(g) <=> IsSum(f, g, rows)
  <2> HIDE DEF f
  <2> QED
    BY <1>1 DEF IsSum, SumStep
<1>3. \E g : Solves(g)
  <2> HIDE DEF f, Solves
  <2> QED
    BY <1>2, SumExists
<1>4. PICK g : Solves(g) /\ Total(rows, x) = g[rows]
  BY <1>3 DEF Total, MapThenSumSet, MapThenFoldSet
<1> HIDE DEF f, Solves
<1>5. Total(rows, x) = SumOver(f, rows)
  BY <1>2, <1>4, SumOverIs
<1> QED
  BY <1>5 DEF f

\* All the goals of the matches in P.
AllGoals(m, P) == MapThenSumSet(LAMBDA k : m[k].home + m[k].visitor, P)

LEMMA AllGoalsIsSum ==
  ASSUME NEW m, NEW P, IsFiniteSet(P)
  PROVE  AllGoals(m, P) = SumOver([k \in P |-> m[k].home + m[k].visitor], P)
<1> DEFINE f == [k \in P |-> m[k].home + m[k].visitor]
           Solves(g) == g = [s \in SUBSET P |->
                               IF s = {} THEN 0
                               ELSE (m[CHOOSE k \in s : TRUE].home
                                       + m[CHOOSE k \in s : TRUE].visitor)
                                      + g[s \ {CHOOSE k \in s : TRUE}]]
<1>1. ASSUME NEW s \in SUBSET P, s # {}
      PROVE  m[CHOOSE k \in s : TRUE].home + m[CHOOSE k \in s : TRUE].visitor
               = f[CHOOSE k \in s : TRUE]
  <2>1. (CHOOSE k \in s : TRUE) \in P
    BY <1>1
  <2> QED
    BY <2>1
<1>2. \A g : Solves(g) <=> IsSum(f, g, P)
  <2> HIDE DEF f
  <2> QED
    BY <1>1 DEF IsSum, SumStep
<1>3. \E g : Solves(g)
  <2> HIDE DEF f, Solves
  <2> QED
    BY <1>2, SumExists
<1>4. PICK g : Solves(g) /\ AllGoals(m, P) = g[P]
  BY <1>3 DEF AllGoals, MapThenSumSet, MapThenFoldSet
<1> HIDE DEF f, Solves
<1>5. AllGoals(m, P) = SumOver(f, P)
  BY <1>2, <1>4, SumOverIs
<1> QED
  BY <1>5 DEF f

\* What the matches of P give to the team t, and to their two teams.
Column(P, c, t) == [k \in P |-> c[k][t]]
ToBoth(P, c) == [k \in P |-> c[k][k.home] + c[k][k.visitor]]

\* A column of a table adds up what each match gives to its two teams.
LEMMA TotalByMatches ==
  ASSUME NEW m, MatchTable(m), NEW P \in SUBSET DOMAIN m,
         NEW ts, ts \subseteq Team, IsFiniteSet(ts),
         \A k \in P : k.home \in ts /\ k.visitor \in ts /\ k.home # k.visitor,
         NEW x \in {"points", "gf", "ga"},
         NEW c, \A k \in P : \A t \in ts : c[k][t] \in Nat,
         \A t \in ts : TableRow(m, P, t)[x] = SumOver(Column(P, c, t), Own(P, t))
  PROVE  Total(Rows(m, P, ts), x) = SumOver(ToBoth(P, c), P)
<1> DEFINE b == [t \in ts |-> TableRow(m, P, t)]
           rows == Rows(m, P, ts)
           g == [t \in ts |-> SumOver(Column(P, c, t), Own(P, t))]
           f == [r \in rows |-> r[x]]
<1>1. IsFiniteSet(P)
  BY FS_Subset DEF MatchTable
<1>2. \A t \in ts : b[t] \in Row /\ b[t].team = t
  BY RowType
<1>3. rows = {b[t] : t \in ts}
  BY DEF Rows
<1>4. IsFiniteSet(rows)
  BY RowsAreTable DEF Table
<1>5. \A r \in Row : r[x] \in Nat
  <2>1. \A r \in Row : r.points \in Nat /\ r.gf \in Nat /\ r.ga \in Nat
    BY DEF Row
  <2> QED
    BY <2>1
<1>6. \A t \in ts : g[t] = b[t][x]
  OBVIOUS
<1> HIDE DEF b, g, rows
<1>7. \A t, u \in ts : b[t] = b[u] => t = u
  BY <1>2
<1>8. \A t \in ts : f[b[t]] = b[t][x]
  BY <1>3
<1> HIDE DEF f
<1>9. \A t \in ts : g[t] = f[b[t]] /\ g[t] \in Nat
  BY <1>2, <1>5, <1>6, <1>8
<1>10. SumOver(f, {b[t] : t \in ts}) = SumOver(g, ts)
  BY <1>7, <1>9, SumOfImage
<1>11. Total(rows, x) = SumOver(f, rows)
  BY <1>4, TotalIsSum DEF f
<1>12. SumOver(g, ts) = SumOver(ToBoth(P, c), P)
  BY <1>1, DoubleCount DEF g, Column, ToBoth
<1> QED
  BY <1>3, <1>10, <1>11, <1>12 DEF rows

\* Each goal is scored by one team and conceded by another, and a decided match
\* gives three points (Table::addMatch).
LEMMA Balance ==
  ASSUME NEW m, MatchTable(m), NEW P \in SUBSET DOMAIN m,
         NEW ts, ts \subseteq Team, IsFiniteSet(ts),
         \A k \in P : k.home \in ts /\ k.visitor \in ts /\ k.home # k.visitor
  PROVE  /\ Total(Rows(m, P, ts), "gf") = AllGoals(m, P)
         /\ Total(Rows(m, P, ts), "ga") = AllGoals(m, P)
         /\ Total(Rows(m, P, ts), "points") = 3 * Cardinality({k \in P : m[k].home # m[k].visitor})
<1>1. IsFiniteSet(P) /\ \A t : IsFiniteSet(Own(P, t)) /\ Own(P, t) \in SUBSET P
  BY FS_Subset DEF MatchTable, Own
<1>2. \A k \in P : m[k].home \in Nat /\ m[k].visitor \in Nat
  BY DEF MatchTable, Result
<1>3. \A t : Own(P, t) = {k \in P : t \in {k.home, k.visitor}}
  BY DEF Own
<1>4. /\ \A t \in ts : TableRow(m, P, t).gf = GoalsFor(m, Own(P, t), t)
      /\ \A t \in ts : TableRow(m, P, t).ga = GoalsConceded(m, Own(P, t), t)
      /\ \A t \in ts : TableRow(m, P, t).points
                         = 3 * Cardinality({k \in Own(P, t) : WinnerOf(m, k) = t})
  BY DEF TableRow, GoalsFor, GoalsConceded, Own
<1> DEFINE goals == [k \in P |-> m[k].home + m[k].visitor]
<1>5. AllGoals(m, P) = SumOver(goals, P) /\ \A k \in P : goals[k] \in Nat
  BY <1>1, <1>2, AllGoalsIsSum
<1>6. Total(Rows(m, P, ts), "gf") = AllGoals(m, P)
  <2> DEFINE c == [k \in P |-> [t \in ts |-> GoalsOf(m, k, t)]]
             both == ToBoth(P, c)
  <2>1. \A k \in P : \A t \in ts : c[k][t] \in Nat
    BY <1>2 DEF GoalsOf
  <2>2. ASSUME NEW t \in ts
        PROVE  TableRow(m, P, t).gf = SumOver(Column(P, c, t), Own(P, t))
    <3> DEFINE f == [k \in Own(P, t) |-> GoalsOf(m, k, t)]
               g == Column(P, c, t)
    <3>1. \A k \in Own(P, t) : f[k] = g[k] /\ f[k] \in Nat
      BY <1>1, <2>1 DEF Column
    <3>2. GoalsFor(m, Own(P, t), t) = SumOver(f, Own(P, t))
      BY <1>1, GoalsForIsSum
    <3> HIDE DEF f, g
    <3>3. SumOver(f, Own(P, t)) = SumOver(g, Own(P, t))
      BY <1>1, <3>1, SumSame
    <3> QED
      BY <1>4, <3>2, <3>3 DEF g
  <2>3. \A k \in P : both[k] = goals[k]
    BY DEF GoalsOf, ToBoth
  <2>4. Total(Rows(m, P, ts), "gf") = SumOver(both, P)
    <3> DEFINE x == "gf"
    <3>1. /\ x \in {"points", "gf", "ga"}
          /\ \A t \in ts : TableRow(m, P, t)[x] = SumOver(Column(P, c, t), Own(P, t))
      BY <2>2
    <3> HIDE DEF c, x
    <3>2. Total(Rows(m, P, ts), x) = SumOver(both, P)
      BY <2>1, <3>1, TotalByMatches
    <3> QED
      BY <3>2 DEF x
  <2> HIDE DEF both, goals
  <2>5. SumOver(goals, P) = SumOver(both, P)
    BY <1>1, <1>5, <2>3, SumSame
  <2> QED
    BY <1>5, <2>4, <2>5
<1>7. Total(Rows(m, P, ts), "ga") = AllGoals(m, P)
  <2> DEFINE c == [k \in P |-> [t \in ts |-> GoalsAgainst(m, k, t)]]
             both == ToBoth(P, c)
  <2>1. \A k \in P : \A t \in ts : c[k][t] \in Nat
    BY <1>2 DEF GoalsAgainst
  <2>2. ASSUME NEW t \in ts
        PROVE  TableRow(m, P, t).ga = SumOver(Column(P, c, t), Own(P, t))
    <3> DEFINE f == [k \in Own(P, t) |-> GoalsAgainst(m, k, t)]
               g == Column(P, c, t)
    <3>1. \A k \in Own(P, t) : f[k] = g[k] /\ f[k] \in Nat
      BY <1>1, <2>1 DEF Column
    <3>2. GoalsConceded(m, Own(P, t), t) = SumOver(f, Own(P, t))
      BY <1>1, GoalsConcededIsSum
    <3> HIDE DEF f, g
    <3>3. SumOver(f, Own(P, t)) = SumOver(g, Own(P, t))
      BY <1>1, <3>1, SumSame
    <3> QED
      BY <1>4, <3>2, <3>3 DEF g
  <2>3. ASSUME NEW k \in P PROVE both[k] = goals[k]
    <3>1. c[k][k.home] = m[k].visitor /\ c[k][k.visitor] = m[k].home
      BY DEF GoalsAgainst
    <3>2. m[k].visitor + m[k].home = m[k].home + m[k].visitor
      BY <1>2
    <3> QED
      BY <3>1, <3>2 DEF ToBoth
  <2>4. Total(Rows(m, P, ts), "ga") = SumOver(both, P)
    <3> DEFINE x == "ga"
    <3>1. /\ x \in {"points", "gf", "ga"}
          /\ \A t \in ts : TableRow(m, P, t)[x] = SumOver(Column(P, c, t), Own(P, t))
      BY <2>2
    <3> HIDE DEF c, x
    <3>2. Total(Rows(m, P, ts), x) = SumOver(both, P)
      BY <2>1, <3>1, TotalByMatches
    <3> QED
      BY <3>2 DEF x
  <2> HIDE DEF both, goals
  <2>5. SumOver(goals, P) = SumOver(both, P)
    BY <1>1, <1>5, <2>3, SumSame
  <2> QED
    BY <1>5, <2>4, <2>5
<1>8. Total(Rows(m, P, ts), "points") = 3 * Cardinality({k \in P : m[k].home # m[k].visitor})
  <2> DEFINE c == [k \in P |-> [t \in ts |-> IF WinnerOf(m, k) = t THEN 3 ELSE 0]]
             both == ToBoth(P, c)
             Decided == {k \in P : m[k].home # m[k].visitor}
  <2>1. \A k \in P : \A t \in ts : c[k][t] \in Nat
    OBVIOUS
  <2>2. ASSUME NEW t \in ts
        PROVE  TableRow(m, P, t).points = SumOver(Column(P, c, t), Own(P, t))
    <3> DEFINE g == Column(P, c, t)
               Won == {k \in P : WinnerOf(m, k) = t}
    <3>1. \A k \in Own(P, t) : g[k] = IF k \in Won THEN 3 ELSE 0
      BY <1>1 DEF Column
    <3>2. Own(P, t) \cap Won = {k \in Own(P, t) : WinnerOf(m, k) = t}
      BY <1>1
    <3> HIDE DEF g, Won
    <3>3. SumOver(g, Own(P, t)) = 3 * Cardinality(Own(P, t) \cap Won)
      BY <1>1, <3>1, SumOfCount
    <3> QED
      BY <1>4, <3>2, <3>3 DEF g
  <2>3. ASSUME NEW k \in P PROVE both[k] = IF k \in Decided THEN 3 ELSE 0
    <3>1. k.home \in ts /\ k.visitor \in ts /\ k.home # k.visitor
      OBVIOUS
    <3>2. k.home # NoTeam /\ k.visitor # NoTeam
      BY <3>1, TeamAssumption DEF NoTeam
    <3>3. WinnerOf(m, k) = IF m[k].home > m[k].visitor THEN k.home
                           ELSE IF m[k].home < m[k].visitor THEN k.visitor ELSE NoTeam
      BY <1>2 DEF WinnerOf
    <3>4. /\ c[k][k.home] = IF WinnerOf(m, k) = k.home THEN 3 ELSE 0
          /\ c[k][k.visitor] = IF WinnerOf(m, k) = k.visitor THEN 3 ELSE 0
      BY <3>1
    <3> HIDE DEF c
    <3>5. c[k][k.home] + c[k][k.visitor] = IF m[k].home # m[k].visitor THEN 3 ELSE 0
      BY <1>2, <3>1, <3>2, <3>3, <3>4
    <3> QED
      BY <3>5 DEF ToBoth
  <2>4. Total(Rows(m, P, ts), "points") = SumOver(both, P)
    <3> DEFINE x == "points"
    <3>1. /\ x \in {"points", "gf", "ga"}
          /\ \A t \in ts : TableRow(m, P, t)[x] = SumOver(Column(P, c, t), Own(P, t))
      BY <2>2
    <3> HIDE DEF c, x
    <3>2. Total(Rows(m, P, ts), x) = SumOver(both, P)
      BY <2>1, <3>1, TotalByMatches
    <3> QED
      BY <3>2 DEF x
  <2>5. P \cap Decided = Decided
    OBVIOUS
  <2> HIDE DEF both, Decided
  <2>6. SumOver(both, P) = 3 * Cardinality(P \cap Decided)
    BY <1>1, <2>3, SumOfCount
  <2> QED
    BY <2>4, <2>5, <2>6 DEF Decided
<1> QED
  BY <1>6, <1>7, <1>8

---------------------------------------------------------------------------
\* Fixtures

\* A round robin pairs each team with each one listed after it.
LEMMA RoundRobinPairs ==
  ASSUME NEW ts \in Seq(Team), NEW k
  PROVE  k \in ToSet(RoundRobin(ts))
           <=> \E a, b \in 1..Len(ts) : a < b /\ k = Fixture("group", ts[a], ts[b])
<1> DEFINE n      == Len(ts)
           S      == KeysOf("group")
           row(i) == [d \in 1..(n - i) |-> Fixture("group", ts[i], ts[i + d])]
           rows   == [i \in 1..n |-> row(i)]
<1>1. n \in Nat /\ DOMAIN ts = 1..n /\ \A i \in 1..n : ts[i] \in Team
  BY LenProperties, ElementOfSeq
<1>2. ASSUME NEW i \in 1..n PROVE row(i) \in Seq(S) /\ DOMAIN row(i) = 1..(n - i)
  <2>1. n - i \in Nat /\ \A d \in 1..(n - i) : i + d \in 1..n
    BY <1>1
  <2>2. \A d \in 1..(n - i) : Fixture("group", ts[i], ts[i + d]) \in S
    BY <1>1, <2>1 DEF Fixture, KeysOf
  <2>3. row(i) \in [1..(n - i) -> S]
    BY <2>2
  <2> QED
    BY <2>1, <2>3, FunctionIsSeq
<1>3. rows \in Seq(Seq(S))
  <2>1. rows \in [1..n -> Seq(S)]
    BY <1>2
  <2> HIDE DEF rows
  <2> QED
    BY <1>1, <2>1, FunctionIsSeq
<1>4. RoundRobin(ts) = FlattenSeq(rows)
  BY <1>1 DEF RoundRobin
<1>5. ToSet(RoundRobin(ts)) = UNION {ToSet(rows[i]) : i \in DOMAIN rows}
  <2> HIDE DEF rows
  <2> QED
    BY <1>3, <1>4, FlattenElements
<1>6. k \in ToSet(RoundRobin(ts)) <=> \E i \in 1..n : k \in ToSet(row(i))
  BY <1>5
<1>7. \A i \in 1..n : ToSet(row(i)) = {row(i)[d] : d \in 1..(n - i)}
  BY <1>2 DEF ToSet
<1>8. ASSUME NEW i \in 1..n
      PROVE  k \in ToSet(row(i))
               <=> \E b \in 1..n : i < b /\ k = Fixture("group", ts[i], ts[b])
  <2>1. k \in ToSet(row(i)) <=> \E d \in 1..(n - i) : k = Fixture("group", ts[i], ts[i + d])
    BY <1>7
  <2>2. \A d \in 1..(n - i) : i + d \in 1..n /\ i < i + d
    BY <1>1
  <2>3. \A b \in 1..n : i < b => b - i \in 1..(n - i) /\ i + (b - i) = b
    BY <1>1
  <2> QED
    BY <2>1, <2>2, <2>3
<1> HIDE DEF row
<1> QED
  BY <1>6, <1>8

LEMMA RegularPhasePairs ==
  ASSUME NEW groups \in Seq(Seq(Team)), NEW k
  PROVE  k \in ToSet(CreateRegularPhaseMatches(groups))
           <=> \E i \in DOMAIN groups : k \in ToSet(RoundRobin(groups[i]))
<1> DEFINE n  == Len(groups)
           rr == [i \in 1..n |-> RoundRobin(groups[i])]
<1>1. n \in Nat /\ DOMAIN groups = 1..n /\ \A i \in 1..n : groups[i] \in Seq(Team)
  BY LenProperties, ElementOfSeq
<1>2. rr \in [1..n -> Seq(KeysOf("group"))] /\ DOMAIN rr = 1..n
  BY <1>1, RoundRobinType
<1>3. CreateRegularPhaseMatches(groups) = FlattenSeq(rr)
  BY <1>1 DEF CreateRegularPhaseMatches
<1>4. \A i \in 1..n : rr[i] = RoundRobin(groups[i])
  OBVIOUS
<1> HIDE DEF rr
<1>5. rr \in Seq(Seq(KeysOf("group")))
  BY <1>1, <1>2, FunctionIsSeq
<1>6. ToSet(CreateRegularPhaseMatches(groups)) = UNION {ToSet(rr[i]) : i \in 1..n}
  BY <1>2, <1>3, <1>5, FlattenElements
<1> QED
  BY <1>1, <1>4, <1>6

\* No group lists a team twice.
TeamsOnce ==
  \A i \in DOMAIN Groups : \A a, b \in DOMAIN Groups[i] : Groups[i][a] = Groups[i][b] => a = b

LEMMA TeamsMeetOthers ==
  ASSUME TeamsOnce, NEW k \in Keys
  PROVE  k.home # k.visitor
<1>1. CASE k \in CrossGroup
  BY <1>1, GroupTableAssumption
<1>2. CASE k \in ToSet(CreateRegularPhaseMatches(Groups))
  <2>1. PICK i \in DOMAIN Groups : k \in ToSet(RoundRobin(Groups[i]))
    BY <1>2, GroupTableAssumption, RegularPhasePairs
  <2>2. Groups[i] \in Seq(Team)
    BY GroupTableAssumption, ElementOfSeq, LenProperties
  <2>3. PICK a, b \in 1..Len(Groups[i]) : a < b /\ k = Fixture("group", Groups[i][a], Groups[i][b])
    BY <2>1, <2>2, RoundRobinPairs
  <2>4. DOMAIN Groups[i] = 1..Len(Groups[i]) /\ Len(Groups[i]) \in Nat
    BY <2>2, LenProperties
  <2>5. a # b
    BY <2>3, <2>4
  <2>6. Groups[i][a] # Groups[i][b]
    BY <2>4, <2>5 DEF TeamsOnce
  <2> QED
    BY <2>3, <2>6 DEF Fixture
<1> QED
  BY <1>1, <1>2 DEF Keys

\* The matches a table counts are the scored ones of the group.
LEMMA CountedMatches ==
  ASSUME GroupStageOnly, DocumentsInv, NEW i \in DOMAIN Groups
  PROVE  GroupMatches(ms, Groups, i)
           = {k \in DOMAIN ms : InGroup(Groups[i], k) /\ HasScore(ms, k)}
<1>1. DOMAIN Groups = 1..Len(Groups) /\ Len(Groups) \in Nat
  BY GroupTableAssumption, LenProperties
<1>2. \A j \in 1..(i - 1) : j \in DOMAIN Groups /\ j # i
  BY <1>1
<1>3. ASSUME NEW k, InGroup(Groups[i], k) PROVE \A j \in 1..(i - 1) : ~InGroup(Groups[j], k)
  BY <1>2, <1>3 DEF GroupStageOnly, Disjoint, InGroup
<1>4. \A k \in DOMAIN ms : k.round = "group"
  BY StoredTable, KeysAreGroup DEF KeysOf
<1> QED
  BY <1>3, <1>4 DEF GroupMatches

\* The books balance in every table, whatever was scored and corrected: each
\* goal is scored by one team of the group and conceded by another, a decided
\* match is worth three points and a draw none (Table::addMatch).
THEOREM BooksAlwaysBalance ==
  ASSUME GroupStageOnly, TeamsOnce
  PROVE  Spec => []BooksBalance
<1>1. DocumentsInv => BooksBalance
  <2> SUFFICES ASSUME DocumentsInv, NEW i \in DOMAIN Groups
               PROVE  LET rows   == Standings(ms, Groups, i)
                          played == {k \in DOMAIN ms : InGroup(Groups[i], k) /\ HasScore(ms, k)}
                      IN  /\ Total(rows, "gf") = Total(rows, "ga")
                          /\ Total(rows, "gf") = AllGoals(ms, played)
                          /\ Total(rows, "points")
                               = 3 * Cardinality({k \in played : ms[k].home # ms[k].visitor})
    BY DEF BooksBalance, AllGoals
  <2> DEFINE ts     == ToSet(Groups[i])
             played == {k \in DOMAIN ms : InGroup(Groups[i], k) /\ HasScore(ms, k)}
  <2>1. MatchTable(ms) /\ DOMAIN ms = Keys
    BY StoredTable
  <2>2. IsFiniteSet(ts) /\ ts \subseteq Team
    BY GroupTableAssumption, ElementOfSeq, LenProperties, GroupTeams
  <2>3. played \in SUBSET DOMAIN ms
    OBVIOUS
  <2>4. \A k \in played : k.home \in ts /\ k.visitor \in ts /\ k.home # k.visitor
    BY <2>1, TeamsMeetOthers DEF InGroup
  <2>5. Standings(ms, Groups, i) = Rows(ms, played, ts)
    BY CountedMatches DEF Standings
  <2> HIDE DEF ts, played
  <2>6. /\ Total(Rows(ms, played, ts), "gf") = AllGoals(ms, played)
        /\ Total(Rows(ms, played, ts), "ga") = AllGoals(ms, played)
        /\ Total(Rows(ms, played, ts), "points")
             = 3 * Cardinality({k \in played : ms[k].home # ms[k].visitor})
    BY <2>1, <2>2, <2>3, <2>4, Balance
  <2> QED
    BY <2>5, <2>6 DEF played
<1> QED
  BY <1>1, DocumentsAlways, PTL

---------------------------------------------------------------------------
\* The ranking

\* Every two teams of a group meet in one match, which the draw made.
FairDraw ==
  /\ ~RegularPhaseError(Groups) /\ GroupStageOnly /\ TeamsOnce
  /\ \A k \in CrossGroup, i \in DOMAIN Groups : ~InGroup(Groups[i], k)

Pair(k) == {k.home, k.visitor}

LEMMA DrawnInGroup ==
  ASSUME FairDraw, NEW i \in DOMAIN Groups, NEW k \in Keys, InGroup(Groups[i], k)
  PROVE  \E a, b \in 1..Len(Groups[i]) :
           a < b /\ k = Fixture("group", Groups[i][a], Groups[i][b])
<1>1. k \in ToSet(CreateRegularPhaseMatches(Groups))
  BY DEF FairDraw, Keys
<1>2. PICK j \in DOMAIN Groups : k \in ToSet(RoundRobin(Groups[j]))
  BY <1>1, GroupTableAssumption, RegularPhasePairs
<1>3. Groups[j] \in Seq(Team)
  BY GroupTableAssumption, ElementOfSeq, LenProperties
<1>4. InGroup(Groups[j], k)
  BY <1>2, <1>3, RoundRobinType
<1>5. j = i
  BY <1>4 DEF FairDraw, GroupStageOnly, Disjoint, InGroup
<1> QED
  BY <1>2, <1>3, <1>5, RoundRobinPairs

LEMMA OneMatchPerPair ==
  ASSUME FairDraw, NEW i \in DOMAIN Groups, NEW k \in Keys, NEW l \in Keys,
         InGroup(Groups[i], k), Pair(k) = Pair(l)
  PROVE  k = l
<1> DEFINE g == Groups[i]
<1>1. InGroup(g, l)
  BY DEF InGroup, Pair
<1>2. g \in Seq(Team)
  BY GroupTableAssumption, ElementOfSeq, LenProperties
<1>3. Len(g) \in Nat /\ DOMAIN g = 1..Len(g)
  BY <1>2, LenProperties
<1>4. PICK a, b \in 1..Len(g) : a < b /\ k = Fixture("group", g[a], g[b])
  BY DrawnInGroup
<1>5. PICK c, d \in 1..Len(g) : c < d /\ l = Fixture("group", g[c], g[d])
  BY <1>1, DrawnInGroup
<1>6. \A x, y \in 1..Len(g) : g[x] = g[y] => x = y
  BY <1>3 DEF FairDraw, TeamsOnce
<1> HIDE DEF g
<1>7. {g[a], g[b]} = {g[c], g[d]}
  BY <1>4, <1>5 DEF Pair, Fixture
<1>8. CASE g[a] = g[c] /\ g[b] = g[d]
  BY <1>4, <1>5, <1>8
<1>9. CASE g[a] = g[d] /\ g[b] = g[c]
  <2>1. a = d /\ b = c
    BY <1>6, <1>9
  <2> QED
    BY <1>3, <1>4, <1>5, <2>1
<1> QED
  BY <1>7, <1>8, <1>9

LEMMA MatchForEachPair ==
  ASSUME NEW i \in DOMAIN Groups, NEW t \in ToSet(Groups[i]), NEW u \in ToSet(Groups[i]), t # u
  PROVE  \E k \in Keys : Pair(k) = {t, u}
<1> DEFINE g == Groups[i]
<1>1. g \in Seq(Team)
  BY GroupTableAssumption, ElementOfSeq, LenProperties
<1>2. Len(g) \in Nat /\ DOMAIN g = 1..Len(g)
  BY <1>1, LenProperties
<1>3. PICK a, b \in 1..Len(g) : g[a] = t /\ g[b] = u
  BY <1>2 DEF ToSet
<1>4. a # b
  BY <1>3
<1>5. PICK c, d \in 1..Len(g) : c < d /\ {g[c], g[d]} = {t, u}
  <2>1. a < b \/ b < a
    BY <1>2, <1>4
  <2> QED
    BY <1>3, <2>1
<1> DEFINE k == Fixture("group", g[c], g[d])
<1>6. k \in ToSet(RoundRobin(g))
  BY <1>1, <1>5, RoundRobinPairs
<1>7. k \in Keys
  BY <1>6, GroupTableAssumption, RegularPhasePairs DEF Keys
<1>8. Pair(k) = {t, u}
  BY <1>5 DEF Pair, Fixture
<1> QED
  BY <1>7, <1>8

\* The matches of P a team won.
Won(m, P, t) == {k \in Own(P, t) : WinnerOf(m, k) = t}

\* The matches P of a round robin of ts.
AllMeet(P, ts) ==
  /\ \A k \in P : k.home \in ts /\ k.visitor \in ts /\ k.home # k.visitor
  /\ \A k, l \in P : Pair(k) = Pair(l) => k = l
  /\ \A t, u \in ts : t # u => \E k \in P : Pair(k) = {t, u}

BeatsIn(m, P, t, u) == \E k \in P : Pair(k) = {t, u} /\ WinnerOf(m, k) = t

LEMMA PointsAreWins ==
  ASSUME NEW m, NEW P, IsFiniteSet(P), NEW t
  PROVE  /\ IsFiniteSet(Won(m, P, t)) /\ Cardinality(Won(m, P, t)) \in Nat
         /\ TableRow(m, P, t).points = 3 * Cardinality(Won(m, P, t))
<1>1. IsFiniteSet(Won(m, P, t))
  BY FS_Subset DEF Won, Own
<1>2. TableRow(m, P, t).points = 3 * Cardinality(Won(m, P, t))
  BY DEF TableRow, Won, Own
<1> QED
  BY <1>1, <1>2, FS_CardinalityType

\* A team that beat all the others has more wins than any of them: it has one
\* against each, and they have none against it.
LEMMA ChampionHasMore ==
  ASSUME NEW m, NEW P, IsFiniteSet(P), NEW ts, IsFiniteSet(ts), AllMeet(P, ts),
         NEW t \in ts, \A v \in ts \ {t} : BeatsIn(m, P, t, v),
         NEW u \in ts \ {t}
  PROVE  Cardinality(Won(m, P, u)) < Cardinality(Won(m, P, t))
<1> DEFINE Others == ts \ {t}
           Rest   == Others \ {u}
           lost   == [k \in Won(m, P, u) |-> IF k.home = u THEN k.visitor ELSE k.home]
           match  == [v \in Others |-> CHOOSE k \in P : Pair(k) = {t, v} /\ WinnerOf(m, k) = t]
<1>1. IsFiniteSet(Others) /\ IsFiniteSet(Rest) /\ IsFiniteSet(Won(m, P, t)) /\ IsFiniteSet(Won(m, P, u))
  BY FS_RemoveElement, PointsAreWins
<1>2. ASSUME NEW k \in Won(m, P, u)
      PROVE  k \in P /\ WinnerOf(m, k) = u /\ lost[k] \in Rest /\ Pair(k) = {u, lost[k]}
  <2>1. k \in P /\ WinnerOf(m, k) = u /\ u \in Pair(k)
    BY DEF Won, Own, Pair
  <2>2. Pair(k) = {u, lost[k]} /\ lost[k] \in ts /\ lost[k] # u
    BY <2>1 DEF AllMeet, Pair
  <2> HIDE DEF lost
  <2>3. lost[k] # t
    <3> SUFFICES ASSUME lost[k] = t PROVE FALSE
      OBVIOUS
    <3>1. PICK l \in P : Pair(l) = {t, u} /\ WinnerOf(m, l) = t
      BY DEF BeatsIn
    <3>2. Pair(k) = Pair(l)
      BY <2>2, <3>1
    <3>3. k = l
      BY <2>1, <3>2 DEF AllMeet
    <3> QED
      BY <2>1, <3>1, <3>3
  <2> QED
    BY <2>1, <2>2, <2>3
<1>3. lost \in Injection(Won(m, P, u), Rest)
  <2>1. DOMAIN lost = Won(m, P, u) /\ lost = [k \in Won(m, P, u) |-> lost[k]]
    OBVIOUS
  <2> HIDE DEF lost, Rest
  <2>2. lost \in [Won(m, P, u) -> Rest]
    BY <1>2, <2>1
  <2>3. \A k, l \in Won(m, P, u) : lost[k] = lost[l] => k = l
    BY <1>2 DEF AllMeet
  <2> QED
    BY <2>2, <2>3 DEF Injection, IsInjective
<1>4. ASSUME NEW v \in Others
      PROVE  match[v] \in Won(m, P, t) /\ Pair(match[v]) = {t, v}
  <2>1. \E k \in P : Pair(k) = {t, v} /\ WinnerOf(m, k) = t
    BY DEF BeatsIn
  <2>2. match[v] \in P /\ Pair(match[v]) = {t, v} /\ WinnerOf(m, match[v]) = t
    BY <2>1
  <2> QED
    BY <2>2 DEF Won, Own, Pair
<1>5. match \in Injection(Others, Won(m, P, t))
  <2>1. match = [v \in Others |-> match[v]]
    OBVIOUS
  <2> HIDE DEF match
  <2>2. match \in [Others -> Won(m, P, t)]
    BY <1>4, <2>1
  <2>3. \A v, w \in Others : match[v] = match[w] => v = w
    BY <1>4
  <2> HIDE DEF Others
  <2> QED
    BY <2>2, <2>3 DEF Injection, IsInjective
<1>6. u \in Others
  OBVIOUS
<1> HIDE DEF lost, match, Others
<1>7. Cardinality(Others) <= Cardinality(Won(m, P, t))
  BY <1>1, <1>5, FS_Injection
<1>8. Cardinality(Rest) = Cardinality(Others) - 1
  BY <1>1, <1>6, FS_RemoveElement
<1> HIDE DEF Rest
<1>9. Cardinality(Won(m, P, u)) <= Cardinality(Rest)
  BY <1>1, <1>3, FS_Injection
<1>10. /\ Cardinality(Others) \in Nat /\ Cardinality(Rest) \in Nat
       /\ Cardinality(Won(m, P, u)) \in Nat /\ Cardinality(Won(m, P, t)) \in Nat
  BY <1>1, FS_CardinalityType
<1> QED
  BY <1>7, <1>8, <1>9, <1>10

\* A team that lost to all the others has no win, and they have one each.
LEMMA LastHasLess ==
  ASSUME NEW m, NEW P, IsFiniteSet(P), NEW ts, AllMeet(P, ts),
         NEW t \in ts, \A v \in ts \ {t} : BeatsIn(m, P, v, t),
         NEW u \in ts \ {t}
  PROVE  Cardinality(Won(m, P, t)) < Cardinality(Won(m, P, u))
<1>1. Won(m, P, t) = {}
  <2> SUFFICES ASSUME NEW k \in Won(m, P, t) PROVE FALSE
    OBVIOUS
  <2>1. k \in P /\ WinnerOf(m, k) = t /\ t \in Pair(k)
    BY DEF Won, Own, Pair
  <2>2. PICK v \in ts \ {t} : Pair(k) = {v, t}
    <3>1. /\ k.home \in ts /\ k.visitor \in ts /\ k.home # k.visitor
          /\ t \in {k.home, k.visitor}
      BY <2>1 DEF AllMeet, Pair
    <3>2. CASE t = k.home
      BY <3>1, <3>2 DEF Pair
    <3>3. CASE t = k.visitor
      BY <3>1, <3>3 DEF Pair
    <3> QED
      BY <3>1, <3>2, <3>3
  <2>3. PICK l \in P : Pair(l) = {v, t} /\ WinnerOf(m, l) = v
    BY DEF BeatsIn
  <2>4. k = l
    BY <2>1, <2>2, <2>3 DEF AllMeet
  <2> QED
    BY <2>1, <2>2, <2>3, <2>4
<1>2. PICK k \in P : Pair(k) = {u, t} /\ WinnerOf(m, k) = u
  BY DEF BeatsIn
<1>3. k \in Won(m, P, u)
  BY <1>2 DEF Won, Own, Pair
<1>4. Cardinality(Won(m, P, u)) # 0
  BY <1>3, PointsAreWins, FS_EmptySet
<1>5. Cardinality(Won(m, P, t)) = 0
  BY <1>1, FS_EmptySet
<1> QED
  BY <1>4, <1>5, PointsAreWins

LEMMA MorePointsIsBetter ==
  ASSUME NEW a \in Row, NEW b \in Row, a.points > b.points
  PROVE  Better(a, b)
<1>1. a.points \in Nat /\ b.points \in Nat
  BY DEF Row
<1> QED
  BY <1>1 DEF Better

\* The best row leads, and the last row of three or more is not among the top
\* two.
LEMMA BestLeads ==
  ASSUME NEW rows, Table(rows), NEW a \in rows, \A b \in rows \ {a} : a.points > b.points
  PROVE  TwoBest(rows)[1] = a.team
<1>1. Leader(rows) \in rows /\ \A b \in rows \ {Leader(rows)} : ~Better(b, Leader(rows))
  BY LeaderIsBest
<1> DEFINE l == Leader(rows)
<1>2. TwoBest(rows)[1] = l.team
  BY DEF TwoBest
<1> HIDE DEF l
<1>3. l = a
  <2> SUFFICES ASSUME l # a PROVE FALSE
    OBVIOUS
  <2>1. ~Better(a, l) /\ a.points > l.points /\ l \in Row /\ a \in Row
    BY <1>1 DEF Table, l
  <2> QED
    BY <2>1, MorePointsIsBetter
<1> QED
  BY <1>2, <1>3

LEMMA LastIsOut ==
  ASSUME NEW rows, Table(rows), NEW a \in rows, \A b \in rows \ {a} : b.points > a.points,
         NEW c \in rows \ {a}, NEW d \in rows \ {a, c}
  PROVE  a.team \notin {TwoBest(rows)[1], TwoBest(rows)[2]}
<1> DEFINE first  == Leader(rows)
           rest   == rows \ {first}
           second == Leader(rest)
<1>1. \A r \in rows : r \in Row /\ \A q \in rows : r.team = q.team => r = q
  BY DEF Table
<1>2. first \in rows /\ \A b \in rest : ~Better(b, first)
  BY LeaderIsBest
<1>3. TwoBest(rows)[1] = first.team /\ TwoBest(rows)[2] = second.team
  BY DEF TwoBest
<1> HIDE DEF first
<1>4. first # a
  <2> SUFFICES ASSUME first = a PROVE FALSE
    OBVIOUS
  <2>1. ~Better(c, a) /\ c.points > a.points
    BY <1>2
  <2> QED
    BY <1>1, <2>1, MorePointsIsBetter
<1>5. Table(rest) /\ rest # {}
  <2>1. IsFiniteSet(rest)
    BY FS_Subset DEF Table
  <2>2. a \in rest
    BY <1>4
  <2> QED
    BY <2>1, <2>2 DEF Table
<1>6. PICK b \in rest : b # a
  <2>1. CASE first = c
    BY <2>1
  <2>2. CASE first # c
    BY <2>2
  <2> QED
    BY <2>1, <2>2
<1>7. b \in rows /\ b.points > a.points
  BY <1>6
<1>8. second \in rest /\ \A q \in rest \ {second} : ~Better(q, second)
  <2> HIDE DEF rest
  <2> QED
    BY <1>5, LeaderIsBest
<1> HIDE DEF second
<1>9. second # a
  <2> SUFFICES ASSUME second = a PROVE FALSE
    OBVIOUS
  <2>1. ~Better(b, a)
    BY <1>6, <1>8
  <2> QED
    BY <1>1, <1>7, <2>1, MorePointsIsBetter
<1>10. second \in rows
  BY <1>8
<1> QED
  BY <1>1, <1>2, <1>3, <1>4, <1>9, <1>10

LEMMA ThreeTeams ==
  ASSUME FairDraw, NEW i \in DOMAIN Groups, NEW t
  PROVE  \E u, v \in ToSet(Groups[i]) : u # t /\ v # t /\ u # v
<1> DEFINE g == Groups[i]
<1>1. g \in Seq(Team)
  BY GroupTableAssumption, ElementOfSeq, LenProperties
<1>2. Len(g) \in Nat /\ DOMAIN g = 1..Len(g)
  BY <1>1, LenProperties
<1>3. Len(g) >= 3
  BY <1>2 DEF FairDraw, RegularPhaseError
<1>4. 1 \in DOMAIN g /\ 2 \in DOMAIN g /\ 3 \in DOMAIN g
  BY <1>2, <1>3
<1>5. g[1] # g[2] /\ g[1] # g[3] /\ g[2] # g[3]
  BY <1>4 DEF FairDraw, TeamsOnce
<1>6. g[1] \in ToSet(g) /\ g[2] \in ToSet(g) /\ g[3] \in ToSet(g)
  BY <1>4 DEF ToSet
<1> HIDE DEF g
<1>7. \E u, v \in ToSet(g) : u # t /\ v # t /\ u # v
  BY <1>5, <1>6
<1> QED
  BY <1>7 DEF g

LEMMA GroupRanking ==
  ASSUME NEW m, MatchTable(m), NEW P \in SUBSET DOMAIN m,
         NEW ts, ts \subseteq Team, IsFiniteSet(ts), AllMeet(P, ts), NEW t \in ts
  PROVE  /\ (\A u \in ts \ {t} : BeatsIn(m, P, t, u)) => TwoBest(Rows(m, P, ts))[1] = t
         /\ (\A u \in ts \ {t} : BeatsIn(m, P, u, t)) /\ (\E u, v \in ts \ {t} : u # v)
              => t \notin {TwoBest(Rows(m, P, ts))[1], TwoBest(Rows(m, P, ts))[2]}
<1> DEFINE rows == Rows(m, P, ts)
           row(x) == TableRow(m, P, x)
<1>1. IsFiniteSet(P)
  BY FS_Subset DEF MatchTable
<1>2. Table(rows)
  BY RowsAreTable
<1>3. /\ \A x \in ts : row(x) \in rows
      /\ \A r \in rows : \E x \in ts : r = row(x)
  BY DEF Rows
<1>4. \A x \in ts : row(x).team = x
  BY RowType
<1>5. \A x : /\ Cardinality(Won(m, P, x)) \in Nat
             /\ row(x).points = 3 * Cardinality(Won(m, P, x))
  BY <1>1, PointsAreWins
<1>6. \A x, y : Cardinality(Won(m, P, x)) < Cardinality(Won(m, P, y))
                  => row(y).points > row(x).points
  <2> SUFFICES ASSUME NEW x, NEW y, Cardinality(Won(m, P, x)) < Cardinality(Won(m, P, y))
               PROVE  row(y).points > row(x).points
    OBVIOUS
  <2> DEFINE p == Cardinality(Won(m, P, x))
             q == Cardinality(Won(m, P, y))
  <2>1. p \in Nat /\ q \in Nat /\ p < q /\ row(x).points = 3 * p /\ row(y).points = 3 * q
    BY <1>5
  <2> HIDE DEF p, q, row
  <2> QED
    BY <2>1
<1> HIDE DEF rows, row
<1>7. ASSUME \A u \in ts \ {t} : BeatsIn(m, P, t, u) PROVE TwoBest(rows)[1] = t
  <2>1. ASSUME NEW b \in rows \ {row(t)} PROVE row(t).points > b.points
    <3>1. PICK u \in ts : b = row(u)
      BY <1>3
    <3>2. u # t
      BY <3>1
    <3>3. Cardinality(Won(m, P, u)) < Cardinality(Won(m, P, t))
      BY <1>1, <1>7, <3>2, ChampionHasMore
    <3> QED
      BY <1>6, <3>1, <3>3
  <2> QED
    BY <1>2, <1>3, <1>4, <2>1, BestLeads
<1>8. ASSUME \A u \in ts \ {t} : BeatsIn(m, P, u, t),
             NEW u \in ts \ {t}, NEW v \in ts \ {t}, u # v
      PROVE  t \notin {TwoBest(rows)[1], TwoBest(rows)[2]}
  <2>1. ASSUME NEW b \in rows \ {row(t)} PROVE b.points > row(t).points
    <3>1. PICK w \in ts : b = row(w)
      BY <1>3
    <3>2. w # t
      BY <3>1
    <3>3. Cardinality(Won(m, P, t)) < Cardinality(Won(m, P, w))
      BY <1>1, <1>8, <3>2, LastHasLess
    <3> QED
      BY <1>6, <3>1, <3>3
  <2>2. row(u) \in rows \ {row(t)} /\ row(v) \in rows \ {row(t), row(u)}
    BY <1>3, <1>4, <1>8
  <2>3. row(t).team \notin {TwoBest(rows)[1], TwoBest(rows)[2]}
    BY <1>2, <1>3, <2>1, <2>2, LastIsOut
  <2> QED
    BY <1>4, <2>3
<1> QED
  BY <1>7, <1>8 DEF rows

\* A team that has beaten every other team of its group leads the table once
\* all are played, and one that has lost to every other one does not go through:
\* the order of Table is by points first.
THEOREM TheBestLead ==
  ASSUME FairDraw
  PROVE  Spec => []RankingIsFair
<1>1. DocumentsInv => RankingIsFair
  <2> SUFFICES ASSUME DocumentsInv, NEW i \in DOMAIN Groups,
                      \A k \in DOMAIN ms : InGroup(Groups[i], k) => HasScore(ms, k),
                      NEW t \in ToSet(Groups[i])
               PROVE  LET teams == ToSet(Groups[i])
                          Beat(x, y) == \E k \in DOMAIN ms :
                                          {k.home, k.visitor} = {x, y} /\ WinnerOf(ms, k) = x
                          top == TopTwo(ms, Groups, i)
                      IN  /\ (\A u \in teams \ {t} : Beat(t, u)) => top[1] = t
                          /\ (\A u \in teams \ {t} : Beat(u, t)) => t \notin ToSet(top)
    BY DEF RankingIsFair
  <2> DEFINE ts == ToSet(Groups[i])
             P  == GroupMatches(ms, Groups, i)
             rows == Rows(ms, P, ts)
             Beat(x, y) == \E k \in DOMAIN ms :
                             {k.home, k.visitor} = {x, y} /\ WinnerOf(ms, k) = x
             top == TopTwo(ms, Groups, i)
  <2>1. MatchTable(ms) /\ DOMAIN ms = Keys
    BY StoredTable
  <2>2. IsFiniteSet(ts) /\ ts \subseteq Team
    BY GroupTableAssumption, ElementOfSeq, LenProperties, GroupTeams
  <2>3. P = {k \in DOMAIN ms : InGroup(Groups[i], k)}
    BY CountedMatches DEF FairDraw
  <2>4. AllMeet(P, ts)
    <3>1. \A k \in P : k.home \in ts /\ k.visitor \in ts /\ k.home # k.visitor
      BY <2>1, <2>3, TeamsMeetOthers DEF InGroup, FairDraw
    <3>2. \A k, l \in P : Pair(k) = Pair(l) => k = l
      BY <2>1, <2>3, OneMatchPerPair
    <3>3. ASSUME NEW x \in ts, NEW y \in ts, x # y PROVE \E k \in P : Pair(k) = {x, y}
      <4>1. PICK k \in Keys : Pair(k) = {x, y}
        BY <3>3, MatchForEachPair
      <4>2. k \in P
        BY <2>1, <2>3, <4>1 DEF InGroup, Pair
      <4> QED
        BY <4>1, <4>2
    <3> HIDE DEF P, ts
    <3> QED
      BY <3>1, <3>2, <3>3 DEF AllMeet
  <2>5. top = TwoBest(rows) /\ ToSet(top) = {top[1], top[2]}
    <3>1. top = TwoBest(rows)
      BY DEF TopTwo, Standings
    <3>2. TwoBest(rows) = <<TwoBest(rows)[1], TwoBest(rows)[2]>>
      BY DEF TwoBest
    <3> HIDE DEF rows
    <3>3. ToSet(TwoBest(rows)) = {TwoBest(rows)[1], TwoBest(rows)[2]}
      BY <3>2 DEF ToSet
    <3> QED
      BY <3>1, <3>3
  <2>6. ASSUME NEW x \in ts, NEW y \in ts, Beat(x, y) PROVE BeatsIn(ms, P, x, y)
    BY <2>3, <2>6 DEF BeatsIn, Pair, InGroup
  <2>7. \E u, v \in ts \ {t} : u # v
    BY ThreeTeams
  <2>8. P \in SUBSET DOMAIN ms /\ t \in ts
    BY <2>3
  <2> HIDE DEF P, ts, Beat, top
  <2>9. /\ (\A u \in ts \ {t} : BeatsIn(ms, P, t, u)) => TwoBest(rows)[1] = t
        /\ (\A u \in ts \ {t} : BeatsIn(ms, P, u, t)) =>
             t \notin {TwoBest(rows)[1], TwoBest(rows)[2]}
    BY <2>1, <2>2, <2>4, <2>7, <2>8, GroupRanking
  <2> HIDE DEF rows
  <2>10. /\ (\A u \in ts \ {t} : Beat(t, u)) => top[1] = t
         /\ (\A u \in ts \ {t} : Beat(u, t)) => t \notin ToSet(top)
    BY <2>5, <2>6, <2>8, <2>9
  <2> QED
    BY <2>10 DEF ts, top, Beat
<1> QED
  BY <1>1, DocumentsAlways, PTL
===============================================================================
