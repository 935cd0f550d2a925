---------------------------- MODULE RegistryProofs ----------------------------
(***************************************************************************)
(* For any number of workers, ids, names, requests and failing repository  *)
(* calls: no group and no match outlives its tournament, the answers to    *)
(* POST /teams are true of the table, a tournament that was missing from   *)
(* the start is answered 404, and the routes of teams and of tournaments   *)
(* implement a directory.                                                  *)
(***************************************************************************)
EXTENDS Registry, TLAPS

\* The two halves of the type invariant.
TableOK(t) == DOMAIN t \subseteq Id /\ \A i \in DOMAIN t : t[i] \in Key

TablesOK ==
  /\ TableOK(teams) /\ TableOK(tournaments)
  /\ groups \subseteq Id \X Key
  /\ matches \subseteq Id \X Key

RequestsOK ==
  /\ req \in [Worker -> Request]
  /\ idBuffer \in [Worker -> MaybeId]
  /\ faults \in 0..MaxFaults /\ requests \in 0..MaxRequests

LEMMA TypeSplit == TypeOK <=> TablesOK /\ RequestsOK
  BY DEF TypeOK, TablesOK, TableOK, RequestsOK

\* A request that is under way, or answered, has a key.
Keyed == \A w \in Worker : req[w].op # "none" => req[w].key \in Key

StoredAs(i, k) == i \in DOMAIN teams /\ teams[i] = k

\* The answers to what is wrong with the id of a new team.
RefusedBody(w) == <<req[w].form, req[w].code>> \in {<<"malformed", 400>>, <<"unparsable", 500>>}

\* What the answer of a request for a team rests on: once the row is in, the
\* buffer names it; a success means that it is in; anything else, a failed
\* call and a refused body apart, means that the name or the proposed id was
\* in use.
Founded(w) ==
  /\ req[w].pc = "answer" => StoredAs(idBuffer[w], req[w].key)
  /\ req[w].pc = "done" /\ req[w].code = 201 =>
       /\ \E j \in DOMAIN teams : teams[j] = req[w].key
       /\ req[w].id = NoId => StoredAs(req[w].row, req[w].key)
  /\ req[w].pc = "done" /\ req[w].code # 201 /\ ~req[w].failed =>
       \/ req[w].id \in DOMAIN teams \/ \E j \in DOMAIN teams : teams[j] = req[w].key
       \/ RefusedBody(w)

AllFounded == \A w \in Worker : req[w].op = "SaveTeam" => Founded(w)

Safe == TablesOK /\ RequestsOK /\ Keyed /\ NoOrphans /\ AllFounded

TeamsKept == \A j \in DOMAIN teams : j \in DOMAIN teams' /\ teams'[j] = teams[j]

---------------------------------------------------------------------------
\* The statements that write.  A row of the teams is never changed or removed.

LEMMA WithRowIs ==
  ASSUME NEW t, NEW i \in Id, NEW k \in Key
  PROVE  /\ DOMAIN WithRow(t, i, k) = DOMAIN t \cup {i}
         /\ WithRow(t, i, k)[i] = k
         /\ \A j \in DOMAIN t \ {i} : WithRow(t, i, k)[j] = t[j]
         /\ TableOK(t) => TableOK(WithRow(t, i, k))
  BY DEF WithRow, TableOK

LEMMA WithoutRowIs ==
  ASSUME NEW t, NEW i \in Id
  PROVE  /\ DOMAIN WithoutRow(t, i) = DOMAIN t \ {i}
         /\ TableOK(t) => TableOK(WithoutRow(t, i))
  BY DEF WithoutRow, TableOK

LEMMA CommitKeepsTables ==
  ASSUME Safe, NEW w \in Worker, NEW i \in Id, Commit(w, i)
  PROVE  TablesOK' /\ NoOrphans'
<1>0. /\ TablesOK /\ NoOrphans /\ Allowed(w, req[w].id, req[w].key)
      /\ req[w].op # "none" => req[w].key \in Key
  BY DEF Commit, Safe, Keyed
<1> USE <1>0 DEF TablesOK, NoOrphans, At
<1>1. CASE InsertTeam(w, i)
  <2>1. req[w].key \in Key /\ teams' = WithRow(teams, i, req[w].key)
    BY <1>1 DEF InsertTeam
  <2>2. TableOK(teams')
    BY <2>1, WithRowIs
  <2> QED
    BY <1>1, <2>2 DEF InsertTeam, TableOK
<1>2. CASE InsertTournament(w, i)
  <2>1. req[w].key \in Key /\ tournaments' = WithRow(tournaments, i, req[w].key)
    BY <1>2 DEF InsertTournament
  <2>2. TableOK(tournaments') /\ DOMAIN tournaments \subseteq DOMAIN tournaments'
    BY <2>1, WithRowIs DEF TableOK, WithRow
  <2> QED
    BY <1>2, <2>2 DEF InsertTournament, TableOK
<1>3. CASE UpdateTournament(w, i)
  <2>1. req[w].key \in Key /\ tournaments' = [tournaments EXCEPT ![i] = req[w].key]
    BY <1>3 DEF UpdateTournament
  <2>2. TableOK(tournaments') /\ DOMAIN tournaments' = DOMAIN tournaments
    BY <2>1 DEF TableOK
  <2> QED
    BY <1>3, <2>2 DEF UpdateTournament, TableOK
<1>4. CASE DeleteTournament(w, i)
  <2>1. \A g \in groups : g[1] # i
    BY <1>4 DEF DeleteTournament, Allowed
  <2>2. TableOK(tournaments') /\ DOMAIN tournaments' = DOMAIN tournaments \ {i}
    BY <1>4, WithoutRowIs DEF DeleteTournament
  <2>3. /\ UNCHANGED <<teams, groups>>
        /\ matches' \subseteq matches /\ \A m \in matches' : m[1] # i
    BY <1>4 DEF DeleteTournament
  <2> QED
    BY <2>1, <2>2, <2>3 DEF TableOK
<1>5. CASE InsertGroup(w, i)
  <2>1. i \in DOMAIN tournaments /\ req[w].key \in Key
    BY <1>5 DEF InsertGroup, Allowed
  <2> QED
    BY <1>5, <2>1 DEF InsertGroup, TableOK
<1>6. CASE DeleteGroup(w, i)
  BY <1>6 DEF DeleteGroup, TableOK
<1>7. CASE InsertMatch(w, i)
  <2>1. i \in DOMAIN tournaments /\ req[w].key \in Key
    BY <1>7 DEF InsertMatch, Allowed
  <2> QED
    BY <1>7, <2>1 DEF InsertMatch, TableOK
<1> QED
  BY <1>1, <1>2, <1>3, <1>4, <1>5, <1>6, <1>7 DEF Commit

LEMMA CommitKeepsTeams ==
  ASSUME Safe, NEW w \in Worker, NEW i \in Id, Commit(w, i)
  PROVE  /\ TeamsKept
         /\ req[w].op = "SaveTeam" => i \in DOMAIN teams' /\ teams'[i] = req[w].key
<1>1. CASE InsertTeam(w, i)
  <2>1. /\ req[w].key \in Key /\ i \notin DOMAIN teams
        /\ teams' = WithRow(teams, i, req[w].key)
    BY <1>1 DEF InsertTeam, FreshTeamId, At, Safe, Keyed
  <2> QED
    BY <2>1 DEF WithRow, TeamsKept
<1>2. CASE ~InsertTeam(w, i)
  BY <1>2 DEF Commit, InsertTournament, UpdateTournament, DeleteTournament, InsertGroup,
              DeleteGroup, InsertMatch, At, TeamsKept
<1> QED
  BY <1>1, <1>2

---------------------------------------------------------------------------
\* What Go and Reply do to the requests.

Others(w) == \A v \in Worker \ {w} : req'[v] = req[v]

SameCall(w) == /\ req'[w].op = req[w].op /\ req'[w].id = req[w].id
               /\ req'[w].key = req[w].key /\ req'[w].form = req[w].form

SameMarks(w) == req'[w].absent = req[w].absent /\ req'[w].failed = req[w].failed

\* w's request becomes r, and nothing else changes.
Becomes(w, r) == req' = [req EXCEPT ![w] = r]

LEMMA BecomesIs ==
  ASSUME req \in [Worker -> Request], NEW w \in Worker, NEW r \in Request, Becomes(w, r)
  PROVE  req' \in [Worker -> Request] /\ Others(w) /\ req'[w] = r
  BY DEF Becomes, Others

LEMMA GoIs ==
  ASSUME req \in [Worker -> Request], NEW w \in Worker,
         NEW pc \in {"find", "write", "lookup", "answer"}, Go(w, pc)
  PROVE  /\ req' \in [Worker -> Request] /\ Others(w) /\ SameCall(w) /\ SameMarks(w)
         /\ req'[w].pc = pc /\ req'[w].code = req[w].code
<1> DEFINE r == [req[w] EXCEPT !.pc = pc]
<1>1. req[w] \in Request
  OBVIOUS
<1>2. r \in Request
  BY <1>1 DEF Request
<1>3. /\ r.op = req[w].op /\ r.id = req[w].id /\ r.key = req[w].key /\ r.pc = pc
      /\ r.form = req[w].form
      /\ r.code = req[w].code /\ r.absent = req[w].absent /\ r.failed = req[w].failed
  BY <1>1 DEF Request
<1>4. Becomes(w, r)
  BY DEF Go, Becomes
<1> HIDE DEF r
<1> QED
  BY <1>2, <1>3, <1>4, BecomesIs DEF SameCall, SameMarks

WithAnswer(q, code, i) == [q EXCEPT !.pc = "done", !.code = code, !.row = i]
WithFailure(q, code) == [q EXCEPT !.pc = "done", !.failed = TRUE, !.code = code]

LEMMA AnswerInRequest ==
  ASSUME NEW q \in Request, NEW code \in {201, 204, 400, 404, 409, 422, 500}, NEW i \in MaybeId
  PROVE  WithAnswer(q, code, i) \in Request
<1> DEFINE p == [q EXCEPT !.pc = "done"]
           c == [p EXCEPT !.code = code]
<1>1. p \in Request
  BY DEF Request
<1>2. WithAnswer(q, code, i) = [c EXCEPT !.row = i]
  BY DEF WithAnswer
<1> HIDE DEF p
<1>3. c \in Request
  BY <1>1 DEF Request
<1> HIDE DEF c
<1>4. [c EXCEPT !.row = i] \in Request
  BY <1>3 DEF Request
<1> QED
  BY <1>2, <1>4

LEMMA FailureInRequest ==
  ASSUME NEW q \in Request, NEW code \in {404, 500} PROVE WithFailure(q, code) \in Request
<1> DEFINE p == [q EXCEPT !.pc = "done"]
<1>1. p \in Request
  BY DEF Request
<1>2. WithFailure(q, code) = [[p EXCEPT !.failed = TRUE] EXCEPT !.code = code]
  BY DEF WithFailure
<1> HIDE DEF p
<1>3. ASSUME NEW b \in BOOLEAN PROVE [p EXCEPT !.failed = b] \in Request
  BY <1>1 DEF Request
<1> DEFINE c == [p EXCEPT !.failed = TRUE]
<1>4. c \in Request
  BY <1>3
<1> HIDE DEF c
<1>5. [c EXCEPT !.code = code] \in Request
  BY <1>4 DEF Request
<1> QED
  BY <1>2, <1>5 DEF c

LEMMA ReplyIs ==
  ASSUME req \in [Worker -> Request], NEW w \in Worker,
         NEW code \in {201, 204, 400, 404, 409, 422, 500}, NEW i \in MaybeId, Reply(w, code, i)
  PROVE  /\ req' \in [Worker -> Request] /\ Others(w) /\ SameCall(w) /\ SameMarks(w)
         /\ req'[w].pc = "done" /\ req'[w].code = code /\ req'[w].row = i
<1> DEFINE r == WithAnswer(req[w], code, i)
<1>1. req[w] \in Request
  OBVIOUS
<1>2. r \in Request
  BY <1>1, AnswerInRequest
<1>3. /\ r.op = req[w].op /\ r.id = req[w].id /\ r.key = req[w].key
      /\ r.form = req[w].form /\ r.absent = req[w].absent /\ r.failed = req[w].failed
  BY <1>1 DEF Request, WithAnswer
<1>4. r.pc = "done" /\ r.code = code /\ r.row = i
  BY <1>1 DEF Request, WithAnswer
<1>5. Becomes(w, r)
  BY DEF Reply, Becomes, WithAnswer
<1> HIDE DEF r
<1> QED
  BY <1>2, <1>3, <1>4, <1>5, BecomesIs DEF SameCall, SameMarks

\* A repository call throws: the database failed, or refused the id.
CallThrows(w) == RejectId(w) \/ RepositoryError(w)

LEMMA FailureIs ==
  ASSUME req \in [Worker -> Request], NEW w \in Worker, CallThrows(w)
  PROVE  /\ req' \in [Worker -> Request] /\ Others(w) /\ SameCall(w)
         /\ req'[w].pc = "done" /\ req'[w].failed /\ req'[w].code \in {404, 500}
         /\ req[w].op # "CreateMatch" => req'[w].code = 500
<1> DEFINE code == IF At(w, {"CreateMatch"}, "lookup") THEN 404 ELSE 500
           r    == WithFailure(req[w], code)
<1>1. Becomes(w, r)
  BY DEF CallThrows, RejectId, RepositoryError, Fail, Becomes, WithFailure
<1>2. code \in {404, 500} /\ (req[w].op # "CreateMatch" => code = 500)
  BY DEF At
<1> HIDE DEF code
<1>3. r \in Request
  BY <1>2, FailureInRequest
<1>4. /\ r.op = req[w].op /\ r.id = req[w].id /\ r.key = req[w].key /\ r.form = req[w].form
      /\ r.pc = "done" /\ r.code = code /\ r.failed
  BY DEF Request, WithFailure
<1> HIDE DEF r
<1> QED
  BY <1>1, <1>2, <1>3, <1>4, BecomesIs DEF SameCall

\* A step of w leaves what the answers of the others rest on in place.
LEMMA OthersFounded ==
  ASSUME Safe, NEW w \in Worker, Others(w), TeamsKept,
         \A v \in Worker \ {w} : idBuffer'[v] = idBuffer[v],
         req'[w].op # "none" => req'[w].key \in Key,
         req'[w].op = "SaveTeam" => Founded(w)'
  PROVE  Keyed' /\ AllFounded'
<1>1. ASSUME NEW v \in Worker \ {w}
      PROVE  /\ req'[v].op # "none" => req'[v].key \in Key
             /\ req'[v].op = "SaveTeam" => Founded(v)'
  <2>1. req'[v] = req[v] /\ idBuffer'[v] = idBuffer[v]
    BY DEF Others
  <2>2. /\ req[v].op # "none" => req[v].key \in Key
        /\ req[v].op = "SaveTeam" => Founded(v)
    BY DEF Safe, Keyed, AllFounded
  <2> QED
    BY <2>1, <2>2 DEF Founded, RefusedBody, StoredAs, TeamsKept
<1> QED
  BY <1>1 DEF Keyed, AllFounded

---------------------------------------------------------------------------
\* One lemma for each kind of step.

\* The request that Begin makes.
NewRequest(op, i, k, form) ==
  [op |-> op, pc |-> FirstCall(op), id |-> i, key |-> k, form |-> form,
   code |-> 0, row |-> NoId, absent |-> i \notin DOMAIN tournaments, failed |-> FALSE]

LEMMA BeginBecomes ==
  ASSUME NEW w \in Worker, NEW op \in OpNames, NEW i \in MaybeId, NEW k \in Key, Begin(w, op, i, k)
  PROVE  \E form \in Form :
           Becomes(w, NewRequest(op, i, k, form)) /\ NewRequest(op, i, k, form) \in Request
<1>1. Forms(op) \subseteq Form
  BY DEF Forms, Form
<1>2. PICK form \in Form : Becomes(w, NewRequest(op, i, k, form))
  BY <1>1 DEF Begin, Becomes, NewRequest
<1>3. FirstCall(op) \in {"list", "lookup"}
  BY DEF FirstCall
<1>4. NewRequest(op, i, k, form) \in Request
  BY <1>3 DEF NewRequest, Request, MaybeOp, MaybeId, MaybeKey
<1> QED
  BY <1>2, <1>4

LEMMA SafeBegin ==
  ASSUME Safe, NEW w \in Worker, NEW op \in OpNames, NEW i \in MaybeId, NEW k \in Key,
         Begin(w, op, i, k)
  PROVE  Safe'
<1>1. PICK form \in Form :
        Becomes(w, NewRequest(op, i, k, form)) /\ NewRequest(op, i, k, form) \in Request
  BY BeginBecomes
<1> DEFINE r == NewRequest(op, i, k, form)
<1>2. r.op = op /\ r.pc \in {"list", "lookup"} /\ r.key = k
  BY DEF NewRequest, FirstCall
<1> HIDE DEF r
<1>3. req' \in [Worker -> Request] /\ Others(w) /\ req'[w] = r
  BY <1>1, BecomesIs DEF Safe, RequestsOK, r
<1>4. UNCHANGED <<teams, tournaments, groups, matches, idBuffer, faults>>
  BY DEF Begin, tables
<1>5. RequestsOK'
  BY <1>3, <1>4, RegistryAssumption DEF Begin, Safe, RequestsOK
<1>6. Keyed' /\ AllFounded'
  BY <1>2, <1>3, <1>4, OthersFounded DEF Founded, TeamsKept
<1> QED
  BY <1>4, <1>5, <1>6 DEF Safe, TablesOK, TableOK, NoOrphans

\* No row has the id NoId, so a name in the list of all rows is taken.
LEMMA ListedIsTaken ==
  ASSUME TableOK(teams), NEW k
  PROVE  k \in ReadAll(teams) <=> NameTaken(teams, NoId, k)
  BY RegistryAssumption DEF TableOK, ReadAll, NameTaken

\* The lookups change nothing but the request.
LEMMA SafeRead ==
  ASSUME Safe, NEW w \in Worker,
         ListTeams(w) \/ LookUpClientId(w) \/ ListTournaments(w) \/ LookUpTournament(w)
         \/ FindGroup(w) \/ FailToWrite(w)
  PROVE  Safe'
<1>1. UNCHANGED <<teams, tournaments, groups, matches, idBuffer, faults, requests>>
  BY DEF ListTeams, LookUpClientId, ListTournaments, LookUpTournament, FindGroup, FailToWrite, tables
<1>2. req \in [Worker -> Request] /\ (req[w].op # "none" => req[w].key \in Key)
  BY DEF Safe, RequestsOK, Keyed
<1>3. \/ \E pc \in {"find", "write", "lookup"} : Go(w, pc)
      \/ \E code \in {400, 404, 409, 422, 500} :
           /\ Reply(w, code, NoId)
           /\ req[w].op = "SaveTeam" =>
                \/ req[w].id \in DOMAIN teams \/ NameTaken(teams, NoId, req[w].key)
                \/ <<req[w].form, code>> \in {<<"malformed", 400>>, <<"unparsable", 500>>}
  <2>1. req[w].key \in ReadAll(teams) <=> NameTaken(teams, NoId, req[w].key)
    BY ListedIsTaken DEF Safe, TablesOK
  <2> QED
    BY <2>1 DEF ListTeams, LookUpClientId, ListTournaments, LookUpTournament, FindGroup,
                FailToWrite, CheckBody, AfterList, Allowed, At, OpNames, ReadById
<1>4. CASE \E pc \in {"find", "write", "lookup"} : Go(w, pc)
  <2>1. /\ req' \in [Worker -> Request] /\ Others(w) /\ SameCall(w)
        /\ req'[w].pc \notin {"answer", "done"}
    BY <1>2, <1>4, GoIs
  <2>2. Keyed' /\ AllFounded'
    BY <1>1, <1>2, <2>1, OthersFounded DEF Founded, TeamsKept, SameCall
  <2> QED
    BY <1>1, <2>1, <2>2 DEF Safe, RequestsOK, TablesOK, TableOK, NoOrphans
<1>5. ASSUME NEW code \in {400, 404, 409, 422, 500}, Reply(w, code, NoId),
             req[w].op = "SaveTeam" =>
               \/ req[w].id \in DOMAIN teams \/ NameTaken(teams, NoId, req[w].key)
               \/ <<req[w].form, code>> \in {<<"malformed", 400>>, <<"unparsable", 500>>}
      PROVE  Safe'
  <2>1. /\ req' \in [Worker -> Request] /\ Others(w) /\ SameCall(w)
        /\ req'[w].pc = "done" /\ req'[w].code = code
    BY <1>2, <1>5, ReplyIs DEF MaybeId
  <2>2. req'[w].op = "SaveTeam" => Founded(w)'
    BY <1>1, <1>5, <2>1 DEF Founded, RefusedBody, NameTaken, SameCall
  <2>3. Keyed' /\ AllFounded'
    BY <1>1, <1>2, <2>1, <2>2, OthersFounded DEF TeamsKept, SameCall
  <2> QED
    BY <1>1, <2>1, <2>3 DEF Safe, RequestsOK, TablesOK, TableOK, NoOrphans
<1> QED
  BY <1>3, <1>4, <1>5

\* The thread's buffer holds the id of the row just inserted, and only its own
\* requests read it.
LEMMA SafeWrite ==
  ASSUME Safe, NEW w \in Worker, Write(w)
  PROVE  Safe'
<1>1. PICK i \in Id :
        /\ Commit(w, i)
        /\ IF req[w].op = "SaveTeam"
           THEN /\ idBuffer' = [v \in Worker |-> IF v \in SharesBuffer(w) THEN i ELSE idBuffer[v]]
                /\ Go(w, "answer")
           ELSE UNCHANGED idBuffer /\ Reply(w, SuccessCode(req[w].op), i)
  BY DEF Write
<1>2. /\ TablesOK' /\ NoOrphans' /\ TeamsKept
      /\ req[w].op = "SaveTeam" => i \in DOMAIN teams' /\ teams'[i] = req[w].key
  BY <1>1, CommitKeepsTables, CommitKeepsTeams
<1>3. /\ req \in [Worker -> Request] /\ (req[w].op # "none" => req[w].key \in Key)
      /\ idBuffer \in [Worker -> MaybeId] /\ UNCHANGED <<faults, requests>>
  BY DEF Safe, RequestsOK, Keyed, Write
<1>4. CASE req[w].op = "SaveTeam"
  <2>1. /\ req' \in [Worker -> Request] /\ Others(w) /\ SameCall(w)
        /\ req'[w].pc = "answer"
    BY <1>1, <1>3, <1>4, GoIs
  <2>2. /\ idBuffer' \in [Worker -> MaybeId] /\ idBuffer'[w] = i
        /\ \A v \in Worker \ {w} : idBuffer'[v] = idBuffer[v]
    BY <1>1, <1>3, <1>4 DEF SharesBuffer, MaybeId
  <2>3. Founded(w)'
    BY <1>2, <1>4, <2>1, <2>2 DEF Founded, StoredAs, SameCall
  <2>4. Keyed' /\ AllFounded'
    BY <1>2, <1>3, <2>1, <2>2, <2>3, OthersFounded DEF SameCall
  <2> QED
    BY <1>2, <1>3, <2>1, <2>2, <2>4 DEF Safe, RequestsOK
<1>5. CASE req[w].op # "SaveTeam"
  <2>1. SuccessCode(req[w].op) \in {201, 204} /\ UNCHANGED idBuffer
    BY <1>1, <1>5 DEF SuccessCode
  <2>2. req' \in [Worker -> Request] /\ Others(w) /\ SameCall(w)
    BY <1>1, <1>3, <1>5, <2>1, ReplyIs DEF MaybeId
  <2>3. Keyed' /\ AllFounded'
    BY <1>2, <1>3, <1>5, <2>1, <2>2, OthersFounded DEF SameCall
  <2> QED
    BY <1>2, <1>3, <2>1, <2>2, <2>3 DEF Safe, RequestsOK
<1> QED
  BY <1>4, <1>5

LEMMA SafeAnswer ==
  ASSUME Safe, NEW w \in Worker, AnswerSaveTeam(w)
  PROVE  Safe'
<1>1. /\ UNCHANGED <<teams, tournaments, groups, matches, idBuffer, faults, requests>>
      /\ req[w].op = "SaveTeam" /\ req[w].pc = "answer"
      /\ Reply(w, 201, IF req[w].id # NoId THEN req[w].id ELSE idBuffer[w])
  BY DEF AnswerSaveTeam, At, tables
<1>2. /\ req \in [Worker -> Request] /\ idBuffer \in [Worker -> MaybeId]
      /\ req[w].key \in Key /\ Founded(w)
  BY <1>1 DEF Safe, RequestsOK, Keyed, AllFounded
<1>3. req[w].id \in MaybeId /\ idBuffer[w] \in MaybeId
  BY <1>2 DEF Request
<1>4. /\ req' \in [Worker -> Request] /\ Others(w) /\ SameCall(w)
      /\ req'[w].pc = "done" /\ req'[w].code = 201
      /\ req'[w].row = IF req[w].id # NoId THEN req[w].id ELSE idBuffer[w]
  BY <1>1, <1>2, <1>3, ReplyIs
<1>5. Founded(w)'
  BY <1>1, <1>2, <1>4 DEF Founded, StoredAs, SameCall
<1>6. Keyed' /\ AllFounded'
  BY <1>1, <1>2, <1>4, <1>5, OthersFounded DEF SameCall, TeamsKept
<1> QED
  BY <1>1, <1>4, <1>6 DEF Safe, RequestsOK, TablesOK, TableOK, NoOrphans

LEMMA SafeError ==
  ASSUME Safe, NEW w \in Worker, CallThrows(w)
  PROVE  Safe'
<1>1. TablesOK' /\ NoOrphans' /\ TeamsKept
  <2>1. CASE UNCHANGED tables
    BY <2>1 DEF tables, Safe, TablesOK, TableOK, NoOrphans, TeamsKept
  <2>2. CASE \E i \in Id : Commit(w, i)
    BY <2>2, CommitKeepsTables, CommitKeepsTeams
  <2> QED
    BY <2>1, <2>2 DEF CallThrows, RejectId, RepositoryError
<1>2. /\ req \in [Worker -> Request]
      /\ req[w].op # "none" => req[w].key \in Key
  BY DEF Safe, RequestsOK, Keyed
<1>3. /\ req' \in [Worker -> Request] /\ Others(w) /\ SameCall(w)
      /\ req'[w].pc = "done" /\ req'[w].code \in {404, 500} /\ req'[w].failed
  BY <1>2, FailureIs
<1>4. UNCHANGED <<idBuffer, requests>> /\ faults' \in 0..MaxFaults
  BY RegistryAssumption DEF CallThrows, RejectId, RepositoryError, Safe, RequestsOK
<1>5. Keyed' /\ AllFounded'
  BY <1>1, <1>2, <1>3, <1>4, OthersFounded DEF Founded, SameCall
<1> QED
  BY <1>1, <1>3, <1>4, <1>5 DEF Safe, RequestsOK

---------------------------------------------------------------------------
LEMMA SafeInit == Init => Safe
<1> SUFFICES ASSUME Init PROVE Safe
  OBVIOUS
<1>1. NoRequest \in Request
  BY DEF NoRequest, Request, Form, MaybeOp, MaybeId, MaybeKey
<1>2. req \in [Worker -> Request] /\ \A w \in Worker : req[w] = NoRequest
  BY <1>1 DEF Init
<1>3. RequestsOK
  BY <1>2, RegistryAssumption DEF Init, RequestsOK, MaybeId
<1>4. Keyed /\ AllFounded
  BY <1>2 DEF Keyed, AllFounded, NoRequest
<1>5. TablesOK /\ NoOrphans
  BY DEF Init, NoRows, TablesOK, TableOK, NoOrphans
<1> QED
  BY <1>3, <1>4, <1>5 DEF Safe

LEMMA SafeStep == Safe /\ [Next]_vars => Safe'
<1> SUFFICES ASSUME Safe, [Next]_vars PROVE Safe'
  OBVIOUS
<1>1. CASE UNCHANGED vars
  BY <1>1 DEF vars, Safe, TablesOK, TableOK, RequestsOK, Keyed, NoOrphans, AllFounded, Founded,
             RefusedBody, StoredAs
<1>2. CASE Next
  BY <1>2, SafeBegin, SafeRead, SafeWrite, SafeAnswer, SafeError DEF Next, CallThrows
<1> QED
  BY <1>1, <1>2

LEMMA AlwaysSafe == Spec => []Safe
  BY SafeInit, SafeStep, PTL DEF Spec

\* The type invariant of the routes of teams and tournaments.
THEOREM TypeCorrect == Spec => []TypeOK
<1>1. Safe => TypeOK
  BY TypeSplit DEF Safe
<1> QED
  BY <1>1, AlwaysSafe, PTL

\* No group and no match is left behind by its tournament, however many
\* requests create and delete at once.
THEOREM OrphansNever == Spec => []NoOrphans
<1>1. Safe => NoOrphans
  BY DEF Safe
<1> QED
  BY <1>1, AlwaysSafe, PTL

\* The id answered to POST /teams is the row of that team, however many
\* threads insert at once.
THEOREM AnswersNameTeams == Spec => []AnswerNamesTeam
<1>1. Safe => AnswerNamesTeam
  BY DEF Safe, AllFounded, Founded, StoredAs, AnswerNamesTeam, Answered
<1> QED
  BY <1>1, AlwaysSafe, PTL

\* Whatever POST /teams answers, the name is stored, or the proposed id is, or
\* a repository call failed, or the id was refused after the list was read.
THEOREM SavedOrTakenAlways == Spec => []SavedOrTaken
<1>1. ASSUME Safe, NEW w \in Worker, Answered(w), req[w].op = "SaveTeam",
             ~req[w].failed, req[w].id \notin DOMAIN teams
      PROVE  \/ NameTaken(teams, NoId, req[w].key)
             \/ req[w].form = "malformed" /\ req[w].code = 400
             \/ req[w].form = "unparsable" /\ req[w].code = 500
  <2>1. NoId \notin DOMAIN teams
    BY <1>1, RegistryAssumption DEF Safe, TablesOK, TableOK
  <2>2. RefusedBody(w) \/ \E j \in DOMAIN teams : teams[j] = req[w].key
    BY <1>1 DEF Safe, AllFounded, Founded, Answered
  <2> QED
    BY <2>1, <2>2 DEF NameTaken, RefusedBody
<1>2. Safe => SavedOrTaken
  BY <1>1 DEF SavedOrTaken
<1> QED
  BY <1>2, AlwaysSafe, PTL

---------------------------------------------------------------------------
\* Requests on missing tournaments

\* Only an answered request has a code, and only an idle worker has none.
Stage(w) ==
  /\ req[w].op = "none" <=> req[w].pc = "idle"
  /\ req[w].code = 0 <=> req[w].pc # "done"

LooksUp == {"UpdateTournament", "DeleteTournament", "CreateGroup", "RemoveGroup"}

\* A tournament missing at the start never comes into being while the request
\* is under way, since no id is drawn twice.
StaysAbsent(w) ==
  req[w].op \in LooksUp /\ req[w].absent /\ ~req[w].failed =>
    IF req[w].pc = "done" THEN req[w].code = 404
    ELSE req[w].pc = "lookup" /\ req[w].id \notin DOMAIN tournaments

Staged == \A w \in Worker : Stage(w)
AllStayAbsent == \A w \in Worker : StaysAbsent(w)

---------------------------------------------------------------------------
\* What a step of w does to its own request.

LEMMA BeginIs ==
  ASSUME Safe, NEW w \in Worker, NEW op \in OpNames, NEW i \in MaybeId, NEW k \in Key,
         Begin(w, op, i, k)
  PROVE  /\ req'[w].op = op /\ req'[w].pc = FirstCall(op) /\ req'[w].id = i
         /\ req'[w].key = k /\ req'[w].code = 0
         /\ req'[w].absent => i \notin DOMAIN tournaments
         /\ Others(w) /\ UNCHANGED <<teams, tournaments, groups, matches, idBuffer>>
         /\ req[w].pc \in {"idle", "done"}
<1>1. PICK form \in Form : Becomes(w, NewRequest(op, i, k, form))
  BY BeginBecomes
<1> DEFINE r == NewRequest(op, i, k, form)
<1>2. /\ r.op = op /\ r.pc = FirstCall(op) /\ r.id = i /\ r.key = k /\ r.code = 0
      /\ r.absent => i \notin DOMAIN tournaments
  BY DEF NewRequest
<1>3. req \in [Worker -> Request] /\ Becomes(w, r)
  BY <1>1 DEF Safe, RequestsOK
<1> HIDE DEF r
<1>4. req'[w] = r /\ Others(w)
  BY <1>3 DEF Becomes, Others
<1> QED
  BY <1>2, <1>4 DEF Begin, tables

\* A read, or the failure of a write, goes on or answers; only a tournament
\* looked up and not found, or a group, is answered 404.
LEMMA ReadIs ==
  ASSUME Safe, NEW w \in Worker,
         ListTeams(w) \/ LookUpClientId(w) \/ ListTournaments(w) \/ LookUpTournament(w)
         \/ FindGroup(w) \/ FailToWrite(w)
  PROVE  /\ UNCHANGED <<teams, tournaments, groups, matches, idBuffer>>
         /\ Others(w) /\ SameCall(w) /\ SameMarks(w)
         /\ req[w].pc \in {"list", "lookup", "find", "write"} /\ req[w].op # "none"
         /\ \/ /\ req'[w].pc \in {"find", "write", "lookup"} /\ req'[w].code = req[w].code
            \/ /\ req'[w].pc = "done" /\ req'[w].code \in {400, 404, 409, 422, 500}
<1>1. req \in [Worker -> Request]
  BY DEF Safe, RequestsOK
<1>2. /\ UNCHANGED <<teams, tournaments, groups, matches, idBuffer>>
      /\ req[w].pc \in {"list", "lookup", "find", "write"}
  BY DEF ListTeams, LookUpClientId, ListTournaments, LookUpTournament, FindGroup, FailToWrite,
         At, tables
<1>3. \/ \E pc \in {"find", "write", "lookup"} : Go(w, pc)
      \/ \E code \in {400, 404, 409, 422, 500} : Reply(w, code, NoId)
  BY DEF ListTeams, LookUpClientId, ListTournaments, LookUpTournament, FindGroup, FailToWrite,
         CheckBody, AfterList
<1>4. req[w].op # "none"
  BY DEF ListTeams, LookUpClientId, ListTournaments, LookUpTournament, FindGroup, FailToWrite,
         At, OpNames, Allowed
<1> QED
  BY <1>1, <1>2, <1>3, <1>4, GoIs, ReplyIs DEF MaybeId

\* The statement that writes, and its answer.
LEMMA WriteIs ==
  ASSUME Safe, NEW w \in Worker, Write(w)
  PROVE  \E i \in Id :
           /\ Commit(w, i) /\ req[w].pc = "write" /\ req[w].op # "none"
           /\ Others(w) /\ SameCall(w) /\ SameMarks(w)
           /\ IF req[w].op = "SaveTeam"
              THEN /\ req'[w].pc = "answer" /\ req'[w].code = req[w].code
                   /\ idBuffer'[w] = i
                   /\ \A v \in Worker \ {w} : idBuffer'[v] = idBuffer[v]
              ELSE /\ req'[w].pc = "done" /\ req'[w].code = SuccessCode(req[w].op)
                   /\ req'[w].row = i /\ UNCHANGED idBuffer
<1>1. PICK i \in Id :
        /\ Commit(w, i)
        /\ IF req[w].op = "SaveTeam"
           THEN /\ idBuffer' = [v \in Worker |-> IF v \in SharesBuffer(w) THEN i ELSE idBuffer[v]]
                /\ Go(w, "answer")
           ELSE UNCHANGED idBuffer /\ Reply(w, SuccessCode(req[w].op), i)
  BY DEF Write
<1>2. req \in [Worker -> Request]
  BY DEF Safe, RequestsOK
<1>3. req[w].pc = "write" /\ req[w].op # "none"
  BY <1>1 DEF Commit, InsertTeam, InsertTournament, UpdateTournament, DeleteTournament, InsertGroup,
              DeleteGroup, InsertMatch, At
<1>4. CASE req[w].op = "SaveTeam"
  BY <1>1, <1>2, <1>3, <1>4, GoIs DEF SharesBuffer
<1>5. CASE req[w].op # "SaveTeam"
  <2>1. SuccessCode(req[w].op) \in {201, 204}
    BY DEF SuccessCode
  <2> QED
    BY <1>1, <1>2, <1>3, <1>5, <2>1, ReplyIs DEF MaybeId
<1> QED
  BY <1>4, <1>5

LEMMA AnswerIs ==
  ASSUME Safe, NEW w \in Worker, AnswerSaveTeam(w)
  PROVE  /\ UNCHANGED <<teams, tournaments, groups, matches, idBuffer>>
         /\ Others(w) /\ SameCall(w) /\ SameMarks(w)
         /\ req[w].op = "SaveTeam" /\ req[w].pc = "answer"
         /\ req'[w].pc = "done" /\ req'[w].code = 201
<1>1. /\ req \in [Worker -> Request] /\ idBuffer \in [Worker -> MaybeId]
      /\ req[w].id \in MaybeId
  BY DEF Safe, RequestsOK, Request
<1>2. Reply(w, 201, IF req[w].id # NoId THEN req[w].id ELSE idBuffer[w])
  BY DEF AnswerSaveTeam
<1>3. (IF req[w].id # NoId THEN req[w].id ELSE idBuffer[w]) \in MaybeId
  BY <1>1
<1> QED
  BY <1>1, <1>2, <1>3, ReplyIs DEF AnswerSaveTeam, At, tables

LEMMA ErrorIs ==
  ASSUME Safe, NEW w \in Worker, CallThrows(w)
  PROVE  /\ UNCHANGED tables \/ \E i \in Id : Commit(w, i)
         /\ Others(w) /\ SameCall(w) /\ UNCHANGED idBuffer
         /\ req[w].pc \in {"list", "lookup", "find", "write"}
         /\ req'[w].pc = "done" /\ req'[w].failed /\ req'[w].code \in {404, 500}
         /\ req[w].op # "CreateMatch" => req'[w].code = 500
<1>1. req \in [Worker -> Request]
  BY DEF Safe, RequestsOK
<1>2. /\ UNCHANGED tables \/ \E i \in Id : Commit(w, i)
      /\ UNCHANGED idBuffer /\ req[w].pc \in {"list", "lookup", "find", "write"}
  BY DEF CallThrows, RejectId, RepositoryError
<1> QED
  BY <1>1, <1>2, FailureIs

---------------------------------------------------------------------------
LEMMA StagedStep ==
  ASSUME Safe, Staged, [Next]_vars
  PROVE  Staged'
<1>1. ASSUME NEW w \in Worker, Others(w), Stage(w)' PROVE Staged'
  BY <1>1 DEF Others, Staged, Stage
<1>2. CASE UNCHANGED vars
  BY <1>2 DEF vars, Staged, Stage
<1>3. ASSUME NEW w \in Worker, NEW op \in OpNames, NEW i \in MaybeId, NEW k \in Key,
             Begin(w, op, i, k)
      PROVE  Staged'
  <2>1. /\ Others(w) /\ req'[w].op = op /\ req'[w].pc = FirstCall(op) /\ req'[w].code = 0
    BY <1>3, BeginIs
  <2>2. op # "none" /\ FirstCall(op) \in {"list", "lookup"}
    BY DEF OpNames, FirstCall
  <2> QED
    BY <1>1, <2>1, <2>2 DEF Stage
<1>4. ASSUME NEW w \in Worker,
             ListTeams(w) \/ LookUpClientId(w) \/ ListTournaments(w) \/ LookUpTournament(w)
             \/ FindGroup(w) \/ FailToWrite(w)
      PROVE  Staged'
  BY <1>1, <1>4, ReadIs DEF Staged, Stage, SameCall
<1>5. ASSUME NEW w \in Worker, Write(w) PROVE Staged'
  BY <1>1, <1>5, WriteIs DEF Staged, Stage, SameCall, SuccessCode
<1>6. ASSUME NEW w \in Worker, AnswerSaveTeam(w) PROVE Staged'
  BY <1>1, <1>6, AnswerIs DEF Stage, SameCall
<1>7. ASSUME NEW w \in Worker, CallThrows(w) PROVE Staged'
  BY <1>1, <1>7, ErrorIs DEF Staged, Stage, SameCall
<1> QED
  BY <1>2, <1>3, <1>4, <1>5, <1>6, <1>7 DEF Next, CallThrows

LEMMA AbsentStep ==
  ASSUME Safe, Staged, AllStayAbsent, [Next]_vars
  PROVE  AllStayAbsent'
\* No statement of w brings in a tournament that a lookup has missed.
<1>1. ASSUME NEW w \in Worker, NEW i \in Id, Commit(w, i),
             NEW v \in Worker, req[v].op \in LooksUp, req[v].id \notin DOMAIN tournaments
      PROVE  req[v].id \notin DOMAIN tournaments'
  <2>1. req[v].op # "SaveTeam"
    BY <1>1 DEF LooksUp
  <2>2. CASE InsertTournament(w, i)
    BY <1>1, <2>1, <2>2 DEF InsertTournament, FreshTournamentId, WithRow
  <2>3. CASE ~InsertTournament(w, i)
    BY <1>1, <2>3 DEF Commit, InsertTeam, UpdateTournament, DeleteTournament, InsertGroup,
                      DeleteGroup, InsertMatch, WithoutRow
  <2> QED
    BY <2>2, <2>3
<1>2. ASSUME NEW w \in Worker, Others(w), StaysAbsent(w)',
             UNCHANGED tournaments \/ \E i \in Id : Commit(w, i)
      PROVE  AllStayAbsent'
  <2>1. ASSUME NEW v \in Worker \ {w} PROVE StaysAbsent(v)'
    BY <1>1, <1>2 DEF Others, AllStayAbsent, StaysAbsent
  <2> QED
    BY <1>2, <2>1 DEF AllStayAbsent
<1>3. CASE UNCHANGED vars
  BY <1>3 DEF vars, AllStayAbsent, StaysAbsent
<1>4. ASSUME NEW w \in Worker, NEW op \in OpNames, NEW i \in MaybeId, NEW k \in Key,
             Begin(w, op, i, k)
      PROVE  AllStayAbsent'
  <2>1. /\ req'[w].op = op /\ req'[w].pc = FirstCall(op) /\ req'[w].id = i
        /\ req'[w].absent => i \notin DOMAIN tournaments
        /\ Others(w) /\ UNCHANGED tournaments
    BY <1>4, BeginIs
  <2>2. op \in LooksUp => FirstCall(op) = "lookup"
    BY DEF LooksUp, FirstCall
  <2> QED
    BY <1>2, <2>1, <2>2 DEF StaysAbsent
<1>5. ASSUME NEW w \in Worker,
             ListTeams(w) \/ LookUpClientId(w) \/ ListTournaments(w) \/ LookUpTournament(w)
             \/ FindGroup(w) \/ FailToWrite(w)
      PROVE  AllStayAbsent'
  <2>1. /\ Others(w) /\ SameCall(w) /\ SameMarks(w) /\ UNCHANGED tournaments
        /\ req[w].pc # "done"
    BY <1>5, ReadIs
  <2>2. CASE req[w].op \in LooksUp /\ req[w].absent /\ ~req[w].failed
    <3>1. /\ req[w].pc = "lookup" /\ req[w].id \notin DOMAIN tournaments
          /\ req[w].op \notin {"SaveTeam", "CreateMatch"}
      BY <2>1, <2>2 DEF AllStayAbsent, StaysAbsent, LooksUp
    <3>2. Reply(w, 404, NoId)
      BY <1>5, <3>1 DEF ListTeams, LookUpClientId, ListTournaments, LookUpTournament, FindGroup,
                        FailToWrite, At, ReadById
    <3>3. req'[w].pc = "done" /\ req'[w].code = 404
      BY <3>2, ReplyIs DEF Safe, RequestsOK, MaybeId
    <3> QED
      BY <1>2, <2>1, <3>3 DEF StaysAbsent
  <2>3. CASE ~(req[w].op \in LooksUp /\ req[w].absent /\ ~req[w].failed)
    BY <1>2, <2>1, <2>3 DEF StaysAbsent, SameCall, SameMarks
  <2> QED
    BY <2>2, <2>3
<1>6. ASSUME NEW w \in Worker, Write(w) PROVE AllStayAbsent'
  <2>1. PICK i \in Id : /\ Commit(w, i) /\ req[w].pc = "write"
                        /\ Others(w) /\ SameCall(w) /\ SameMarks(w)
    BY <1>6, WriteIs
  <2> QED
    BY <1>2, <2>1 DEF AllStayAbsent, StaysAbsent, SameCall, SameMarks
<1>7. ASSUME NEW w \in Worker, AnswerSaveTeam(w) PROVE AllStayAbsent'
  BY <1>2, <1>7, AnswerIs DEF StaysAbsent, SameCall, LooksUp
<1>8. ASSUME NEW w \in Worker, CallThrows(w) PROVE AllStayAbsent'
  BY <1>2, <1>8, ErrorIs DEF StaysAbsent, tables
<1> QED
  BY <1>3, <1>4, <1>5, <1>6, <1>7, <1>8 DEF Next, CallThrows

---------------------------------------------------------------------------
\* A call of a directory is answered in two fields of its record.
AnswerFields(f, w, i, a) == [f EXCEPT ![w].id = i, ![w].answer = a]

LEMMA AnswerIn ==
  ASSUME NEW f, f = [v \in Worker |-> f[v]], NEW w \in Worker, NEW o, NEW x, NEW k, NEW b, NEW i, NEW a,
         f[w] = [op |-> o, id |-> x, key |-> k, answer |-> b]
  PROVE  AnswerFields(f, w, i, a)
           = [f EXCEPT ![w] = [op |-> o, id |-> i, key |-> k, answer |-> a]]
<1> DEFINE p == [op |-> o, id |-> i, key |-> k, answer |-> b]
           q == [op |-> o, id |-> i, key |-> k, answer |-> a]
           g == [f EXCEPT ![w] = p]
<1>1. [f[w] EXCEPT !.id = i] = p /\ [p EXCEPT !.answer = a] = q
  OBVIOUS
<1>2. [f EXCEPT ![w].id = i] = g
  BY <1>1
<1>3. g[w] = p /\ [g EXCEPT ![w] = q] = [f EXCEPT ![w] = q]
  BY DEF g
<1> HIDE DEF p, q
<1>4. [g EXCEPT ![w].answer = a] = [g EXCEPT ![w] = q]
  BY <1>1, <1>3
<1> HIDE DEF g
<1> QED
  BY <1>2, <1>3, <1>4 DEF q, AnswerFields

\* The tournaments as a directory sees them.

TournamentCalls == [w \in Worker |-> TournamentCall(w)]

TournamentOps == {"CreateTournament", "UpdateTournament", "DeleteTournament"}

LEMMA TournamentChange ==
  ASSUME NEW w \in Worker, Others(w)
  PROVE  TournamentCalls' = [TournamentCalls EXCEPT ![w] = TournamentCall(w)']
<1>1. ASSUME NEW v \in Worker \ {w} PROVE TournamentCall(v)' = TournamentCall(v)
  BY DEF Others, TournamentCall
<1> QED
  BY <1>1 DEF TournamentCalls

LEMMA TournamentStutter ==
  ASSUME NEW w \in Worker, Others(w), TournamentCall(w)' = TournamentCall(w)
  PROVE  UNCHANGED TournamentCalls
  BY TournamentChange DEF TournamentCalls

LEMMA TournamentAnswer ==
  ASSUME NEW w \in Worker, Others(w), NEW o, NEW x, NEW k, NEW b, NEW i, NEW a,
         TournamentCall(w) = [op |-> o, id |-> x, key |-> k, answer |-> b],
         TournamentCall(w)' = [op |-> o, id |-> i, key |-> k, answer |-> a]
  PROVE  TournamentDirectory!Answer(w, i, a)
<1>1. /\ TournamentCalls = [v \in Worker |-> TournamentCalls[v]]
      /\ TournamentCalls[w] = [op |-> o, id |-> x, key |-> k, answer |-> b]
  BY DEF TournamentCalls
<1>2. AnswerFields(TournamentCalls, w, i, a)
        = [TournamentCalls EXCEPT ![w] = [op |-> o, id |-> i, key |-> k, answer |-> a]]
  BY <1>1, AnswerIn
<1> QED
  BY <1>2, TournamentChange DEF TournamentDirectory!Answer, TournamentCalls, AnswerFields

LEMMA TournamentAsk ==
  ASSUME Safe, Staged, NEW w \in Worker, NEW op \in OpNames, NEW i \in MaybeId, NEW k \in Key,
         Begin(w, op, i, k)
  PROVE  TournamentDirectory!Ask(w)
<1>1. /\ req'[w].op = op /\ req'[w].id = i /\ req'[w].key = k /\ req'[w].code = 0
      /\ Others(w) /\ UNCHANGED tournaments /\ req[w].pc \in {"idle", "done"}
  BY BeginIs
<1>2. TournamentCalls[w].answer # "pending"
  BY <1>1 DEF Staged, Stage, TournamentCalls, TournamentCall, AnswerOf, Quiet
<1>3. TournamentCalls'[w] = TournamentCall(w)'
  BY DEF TournamentCalls
<1>4. \/ TournamentCalls'[w] = TournamentDirectory!Quiet
      \/ TournamentCalls'[w] \in TournamentDirectory!Call /\ TournamentCalls'[w].answer = "pending"
  <2>1. CASE op \notin TournamentOps
    BY <1>1, <1>3, <2>1 DEF TournamentOps, TournamentCall, Quiet, NoId, NoKey,
                            TournamentDirectory!Quiet, TournamentDirectory!NoId
  <2>2. CASE op \in TournamentOps
    <3> DEFINE o == TournamentOp(op)
    <3>1. TournamentCalls'[w] = [op |-> o, id |-> i, key |-> k, answer |-> "pending"]
      BY <1>1, <1>3, <2>2 DEF TournamentOps, TournamentCall, AnswerOf
    <3>2. o \in {"create", "rename", "remove"}
      BY DEF TournamentOp
    <3>3. i \in Id \cup {TournamentDirectory!NoId}
      BY DEF MaybeId, NoId, TournamentDirectory!NoId
    <3> QED
      BY <3>1, <3>2, <3>3 DEF TournamentDirectory!Call
  <2> QED
    BY <2>1, <2>2
<1>5. TournamentCalls' = [TournamentCalls EXCEPT ![w] = TournamentCalls'[w]]
  BY <1>1, <1>3, TournamentChange
<1> QED
  BY <1>1, <1>2, <1>4, <1>5 DEF TournamentDirectory!Ask, TournamentCalls

\* A call that is under way, and one that has got its answer.
LEMMA TournamentPending ==
  ASSUME Staged, NEW w \in Worker, req[w].pc # "done", req[w].op \in TournamentOps
  PROVE  TournamentCall(w) = [op |-> TournamentOp(req[w].op), id |-> req[w].id,
                              key |-> req[w].key, answer |-> "pending"]
  BY DEF Staged, Stage, TournamentCall, TournamentOps, AnswerOf

LEMMA TournamentAnswered ==
  ASSUME Staged, NEW w \in Worker, req[w].pc # "done", req[w].op \in TournamentOps,
         Others(w), SameCall(w)
  PROVE  TournamentDirectory!Answer(w, IF req'[w].code = 201 THEN req'[w].row ELSE req[w].id,
                                    AnswerOf(req'[w].code))
<1> DEFINE i == IF req'[w].code = 201 THEN req'[w].row ELSE req[w].id
           a == AnswerOf(req'[w].code)
<1>1. TournamentCall(w)' = [op |-> TournamentOp(req[w].op), id |-> i, key |-> req[w].key,
                            answer |-> a]
  BY DEF TournamentCall, TournamentOps, SameCall
<1> HIDE DEF i, a
<1>2. TournamentDirectory!Answer(w, i, a)
  BY <1>1, TournamentPending, TournamentAnswer
<1> QED
  BY <1>2 DEF i, a

LEMMA TournamentCommit ==
  ASSUME Safe, Staged, NEW w \in Worker, NEW i \in Id, Commit(w, i), req[w].pc = "write"
  PROVE  IF req[w].op \in TournamentOps
         THEN /\ TournamentDirectory!Change(w, i)
              /\ req[w].op # "CreateTournament" => i = req[w].id
         ELSE UNCHANGED tournaments
<1>1. req[w].op \in TournamentOps =>
        /\ TournamentCalls[w].op = TournamentOp(req[w].op)
        /\ TournamentCalls[w].id = req[w].id
        /\ TournamentCalls[w].key = req[w].key
        /\ TournamentCalls[w].answer = "pending"
  BY TournamentPending DEF TournamentCalls
<1>2. CASE InsertTournament(w, i)
  <2>1. /\ req[w].op = "CreateTournament" /\ i \notin DOMAIN tournaments
        /\ ~NameTaken(tournaments, NoId, req[w].key)
        /\ tournaments' = WithRow(tournaments, i, req[w].key)
    BY <1>2 DEF InsertTournament, FreshTournamentId, Commit, Allowed, At
  <2>2. TournamentDirectory!Create(w, i)
    BY <1>1, <2>1 DEF TournamentOps, TournamentOp, TournamentDirectory!Create,
         TournamentDirectory!Pending, TournamentDirectory!Taken, TournamentDirectory!NoId, NoId,
         NameTaken, WithRow, TournamentCalls
  <2> QED
    BY <2>1, <2>2 DEF TournamentOps, TournamentDirectory!Change
<1>3. CASE UpdateTournament(w, i)
  <2>1. /\ req[w].op = "UpdateTournament" /\ i = req[w].id /\ i \in DOMAIN tournaments
        /\ ~NameTaken(tournaments, i, req[w].key)
        /\ tournaments' = [tournaments EXCEPT ![i] = req[w].key]
    BY <1>3 DEF UpdateTournament, Commit, Allowed, At
  <2>2. TournamentDirectory!Rename(w, i)
    BY <1>1, <2>1 DEF TournamentOps, TournamentOp, TournamentDirectory!Rename,
         TournamentDirectory!Pending, TournamentDirectory!Taken, NameTaken, TournamentCalls
  <2> QED
    BY <2>1, <2>2 DEF TournamentOps, TournamentDirectory!Change
<1>4. CASE DeleteTournament(w, i)
  <2>1. /\ req[w].op = "DeleteTournament" /\ i = req[w].id /\ i \in DOMAIN tournaments
        /\ tournaments' = WithoutRow(tournaments, i)
    BY <1>4 DEF DeleteTournament, Commit, Allowed, At
  <2>2. TournamentDirectory!Remove(w, i)
    BY <1>1, <2>1 DEF TournamentOps, TournamentOp, TournamentDirectory!Remove,
         TournamentDirectory!Pending, WithoutRow, TournamentCalls
  <2> QED
    BY <2>1, <2>2 DEF TournamentOps, TournamentDirectory!Change
<1>5. CASE InsertTeam(w, i) \/ InsertGroup(w, i) \/ DeleteGroup(w, i) \/ InsertMatch(w, i)
  BY <1>5 DEF InsertTeam, InsertGroup, DeleteGroup, InsertMatch, At, TournamentOps
<1> QED
  BY <1>2, <1>3, <1>4, <1>5 DEF Commit

\* Every step of the routes is a step of the tournaments' directory or a stutter.
LEMMA TournamentStep ==
  ASSUME Safe, Staged, [Next]_vars
  PROVE  [TournamentDirectory!Next]_<<tournaments, TournamentCalls>>
<1>1. ASSUME NEW w \in Worker, Others(w), SameCall(w), req[w].op \notin TournamentOps
      PROVE  UNCHANGED TournamentCalls
  BY <1>1, TournamentStutter DEF TournamentCall, TournamentOps, SameCall
<1>2. CASE UNCHANGED vars
  BY <1>2 DEF vars, TournamentCalls, TournamentCall
<1>3. ASSUME NEW w \in Worker, NEW op \in OpNames, NEW i \in MaybeId, NEW k \in Key,
             Begin(w, op, i, k)
      PROVE  TournamentDirectory!Next
  BY <1>3, TournamentAsk DEF TournamentDirectory!Next
<1>4. ASSUME NEW w \in Worker,
             ListTeams(w) \/ LookUpClientId(w) \/ ListTournaments(w) \/ LookUpTournament(w)
             \/ FindGroup(w) \/ FailToWrite(w)
      PROVE  [TournamentDirectory!Next]_<<tournaments, TournamentCalls>>
  <2>1. /\ Others(w) /\ SameCall(w) /\ UNCHANGED tournaments /\ req[w].pc # "done"
        /\ \/ req'[w].pc # "done" /\ req'[w].code = req[w].code
           \/ req'[w].pc = "done" /\ req'[w].code \in {400, 404, 409, 422, 500}
    BY <1>4, ReadIs
  <2>2. CASE req'[w].code = req[w].code
    <3>1. req[w].code # 201
      BY <2>1 DEF Staged, Stage
    <3>2. TournamentCall(w)' = TournamentCall(w)
      BY <2>1, <2>2, <3>1 DEF TournamentCall, SameCall
    <3> QED
      BY <2>1, <3>2, TournamentStutter
  <2>3. CASE req[w].op \in TournamentOps /\ req'[w].pc = "done"
    <3> DEFINE a == AnswerOf(req'[w].code)
    <3>1. TournamentDirectory!Answer(w, req[w].id, a)
      BY <2>1, <2>3, TournamentAnswered
    <3>2. /\ TournamentCalls[w].op = TournamentOp(req[w].op)
          /\ TournamentCalls[w].id = req[w].id
          /\ TournamentCalls[w].key = req[w].key
          /\ TournamentCalls[w].answer = "pending"
      BY <2>1, <2>3, TournamentPending DEF TournamentCalls
    <3>3. CASE ListTournaments(w)
      <4>1. /\ req[w].op = "CreateTournament"
            /\ \/ req'[w].code = 409 /\ req[w].key \in ReadAll(tournaments)
               \/ req'[w].code \in {400, 500}
        BY <2>3, <3>3, GoIs, ReplyIs DEF ListTournaments, CheckBody, At, Safe, RequestsOK, MaybeId
      <4>2. CASE req'[w].code \in {400, 500}
        BY <2>1, <3>1, <3>2, <4>2 DEF AnswerOf, TournamentCalls, TournamentDirectory!Reject,
           TournamentDirectory!GiveUp, TournamentDirectory!Next
      <4>3. CASE req'[w].code = 409
        <5>1. TournamentDirectory!Taken(NoId, req[w].key)
          BY <4>1, <4>3, RegistryAssumption
             DEF ReadAll, TournamentDirectory!Taken, Safe, TablesOK, TableOK
        <5> QED
          BY <2>1, <3>1, <3>2, <4>1, <4>3, <5>1 DEF TournamentOp, AnswerOf, NoId, TournamentCalls,
             TournamentDirectory!NoId, TournamentDirectory!RefuseCreate,
             TournamentDirectory!Pending, TournamentDirectory!Next
      <4> QED
        BY <4>1, <4>2, <4>3
    <3>4. CASE LookUpTournament(w)
      <4>1. /\ req[w].op \in {"UpdateTournament", "DeleteTournament"}
            /\ \/ req'[w].code = 404 /\ req[w].id \notin DOMAIN tournaments
               \/ req'[w].code \in {400, 500}
        BY <2>3, <3>4, GoIs, ReplyIs
           DEF LookUpTournament, CheckBody, At, ReadById, TournamentOps, Safe, RequestsOK, MaybeId
      <4>2. CASE req'[w].code = 404
        BY <2>1, <3>1, <3>2, <4>1, <4>2 DEF TournamentOp, AnswerOf, TournamentCalls,
           TournamentDirectory!RefuseId, TournamentDirectory!Pending, TournamentDirectory!Next
      <4>3. CASE req'[w].code \in {400, 500}
        BY <2>1, <3>1, <3>2, <4>3 DEF AnswerOf, TournamentCalls, TournamentDirectory!Reject,
           TournamentDirectory!GiveUp, TournamentDirectory!Next
      <4> QED
        BY <4>1, <4>2, <4>3
    <3>5. CASE FailToWrite(w)
      <4>1. req'[w].code = 500
        BY <3>5, ReplyIs DEF FailToWrite, Safe, RequestsOK, MaybeId
      <4> QED
        BY <2>1, <3>1, <3>2, <4>1 DEF AnswerOf, TournamentCalls, TournamentDirectory!GiveUp,
           TournamentDirectory!Next
    <3>6. ~(ListTeams(w) \/ LookUpClientId(w) \/ FindGroup(w))
      BY <2>3 DEF TournamentOps, ListTeams, LookUpClientId, FindGroup, At
    <3> QED
      BY <1>4, <3>3, <3>4, <3>5, <3>6
  <2> QED
    BY <2>1, <2>2, <2>3, <1>1
<1>5. ASSUME NEW w \in Worker, Write(w)
      PROVE  [TournamentDirectory!Next]_<<tournaments, TournamentCalls>>
  <2>1. PICK i \in Id :
          /\ Commit(w, i) /\ req[w].pc = "write" /\ Others(w) /\ SameCall(w)
          /\ req[w].op # "SaveTeam" =>
               /\ req'[w].pc = "done" /\ req'[w].code = SuccessCode(req[w].op)
               /\ req'[w].row = i
    BY <1>5, WriteIs
  <2>2. CASE req[w].op \in TournamentOps
    <3>1. /\ TournamentDirectory!Change(w, i)
          /\ req[w].op # "CreateTournament" => i = req[w].id
      BY <2>1, <2>2, TournamentCommit
    <3>2. /\ (IF req'[w].code = 201 THEN req'[w].row ELSE req[w].id) = i
          /\ AnswerOf(req'[w].code) = "done"
      BY <2>1, <2>2, <3>1 DEF TournamentOps, SuccessCode, AnswerOf
    <3>3. TournamentDirectory!Answer(w, i, "done")
      BY <2>1, <2>2, <3>2, TournamentAnswered
    <3> QED
      BY <3>1, <3>3 DEF TournamentDirectory!Next, TournamentDirectory!Succeed
  <2> QED
    BY <1>1, <2>1, <2>2, TournamentCommit
<1>6. ASSUME NEW w \in Worker, AnswerSaveTeam(w) PROVE UNCHANGED <<tournaments, TournamentCalls>>
  BY <1>1, <1>6, AnswerIs DEF TournamentOps
<1>7. ASSUME NEW w \in Worker, CallThrows(w)
      PROVE  [TournamentDirectory!Next]_<<tournaments, TournamentCalls>>
  <2>1. /\ UNCHANGED tournaments
           \/ \E i \in Id : Commit(w, i)
        /\ Others(w) /\ SameCall(w) /\ req[w].pc # "done"
        /\ req[w].op # "CreateMatch" => req'[w].code = 500
    BY <1>7, ErrorIs DEF tables
  <2>2. (\E i \in Id : Commit(w, i)) => req[w].pc = "write"
    BY DEF Commit, InsertTeam, InsertTournament, UpdateTournament, DeleteTournament, InsertGroup,
           DeleteGroup, InsertMatch, At
  <2>3. CASE req[w].op \in TournamentOps
    <3>1. TournamentDirectory!Answer(w, req[w].id, "error")
      BY <2>1, <2>3, TournamentAnswered DEF AnswerOf, TournamentOps
    <3>2. TournamentCalls[w].id = req[w].id /\ TournamentCalls[w].answer = "pending"
      BY <2>1, <2>3, TournamentPending DEF TournamentCalls
    <3>3. UNCHANGED tournaments \/ \E i \in Id : TournamentDirectory!Change(w, i)
      BY <2>1, <2>2, <2>3, TournamentCommit
    <3> QED
      BY <3>1, <3>2, <3>3 DEF TournamentCalls, TournamentDirectory!GiveUp, TournamentDirectory!Next
  <2> QED
    BY <1>1, <2>1, <2>2, <2>3, TournamentCommit
<1> QED
  BY <1>2, <1>3, <1>4, <1>5, <1>6, <1>7 DEF Next, CallThrows

---------------------------------------------------------------------------
\* The teams as a directory sees them.

TeamCalls == [w \in Worker |-> TeamCall(w)]

\* The others answer from their own buffers.
LEMMA TeamChange ==
  ASSUME NEW w \in Worker, Others(w), \A v \in Worker \ {w} : idBuffer'[v] = idBuffer[v]
  PROVE  TeamCalls' = [TeamCalls EXCEPT ![w] = TeamCall(w)']
<1>1. ASSUME NEW v \in Worker \ {w} PROVE TeamCall(v)' = TeamCall(v)
  BY DEF Others, TeamCall
<1> QED
  BY <1>1 DEF TeamCalls

LEMMA TeamStutter ==
  ASSUME NEW w \in Worker, Others(w), UNCHANGED idBuffer, TeamCall(w)' = TeamCall(w)
  PROVE  UNCHANGED TeamCalls
  BY TeamChange DEF TeamCalls

LEMMA TeamPending ==
  ASSUME Staged, NEW w \in Worker, req[w].pc \notin {"answer", "done"}, req[w].op = "SaveTeam"
  PROVE  TeamCall(w) = [op |-> "create", id |-> req[w].id, key |-> req[w].key,
                        answer |-> "pending"]
  BY DEF Staged, Stage, TeamCall, AnswerOf

LEMMA TeamAnswer ==
  ASSUME Staged, NEW w \in Worker, req[w].pc \notin {"answer", "done"}, req[w].op = "SaveTeam",
         Others(w), \A v \in Worker \ {w} : idBuffer'[v] = idBuffer[v], NEW i, NEW a,
         TeamCall(w)' = [op |-> "create", id |-> i, key |-> req[w].key, answer |-> a]
  PROVE  TeamDirectory!Answer(w, i, a)
<1>1. /\ TeamCalls = [v \in Worker |-> TeamCalls[v]]
      /\ TeamCalls[w] = [op |-> "create", id |-> req[w].id, key |-> req[w].key,
                         answer |-> "pending"]
  BY TeamPending DEF TeamCalls
<1>2. AnswerFields(TeamCalls, w, i, a)
        = [TeamCalls EXCEPT ![w] = [op |-> "create", id |-> i, key |-> req[w].key, answer |-> a]]
  BY <1>1, AnswerIn
<1> QED
  BY <1>2, TeamChange DEF TeamDirectory!Answer, TeamCalls, AnswerFields

LEMMA TeamAsk ==
  ASSUME Safe, Staged, NEW w \in Worker, NEW op \in OpNames, NEW i \in MaybeId, NEW k \in Key,
         Begin(w, op, i, k)
  PROVE  TeamDirectory!Ask(w)
<1>1. /\ req'[w].op = op /\ req'[w].id = i /\ req'[w].key = k /\ req'[w].code = 0
      /\ req'[w].pc \in {"list", "lookup"}
      /\ Others(w) /\ UNCHANGED <<teams, idBuffer>> /\ req[w].pc \in {"idle", "done"}
  BY BeginIs DEF FirstCall
<1>2. TeamCalls[w].answer # "pending"
  BY <1>1 DEF Staged, Stage, TeamCalls, TeamCall, AnswerOf, Quiet
<1>3. TeamCalls'[w] = TeamCall(w)'
  BY DEF TeamCalls
<1>4. \/ TeamCalls'[w] = TeamDirectory!Quiet
      \/ TeamCalls'[w] \in TeamDirectory!Call /\ TeamCalls'[w].answer = "pending"
  <2>1. CASE op # "SaveTeam"
    BY <1>1, <1>3, <2>1 DEF TeamCall, Quiet, NoId, NoKey, TeamDirectory!Quiet, TeamDirectory!NoId
  <2>2. CASE op = "SaveTeam"
    <3>1. TeamCalls'[w] = [op |-> "create", id |-> i, key |-> k, answer |-> "pending"]
      BY <1>1, <1>3, <2>2 DEF TeamCall, AnswerOf
    <3>2. i \in Id \cup {TeamDirectory!NoId}
      BY DEF MaybeId, NoId, TeamDirectory!NoId
    <3> QED
      BY <3>1, <3>2 DEF TeamDirectory!Call
  <2> QED
    BY <2>1, <2>2
<1>5. TeamCalls' = [TeamCalls EXCEPT ![w] = TeamCalls'[w]]
  BY <1>1, <1>3, TeamChange
<1> QED
  BY <1>1, <1>2, <1>4, <1>5 DEF TeamDirectory!Ask, TeamCalls

LEMMA TeamCommit ==
  ASSUME Safe, Staged, NEW w \in Worker, NEW i \in Id, Commit(w, i), req[w].pc = "write"
  PROVE  IF req[w].op = "SaveTeam" THEN TeamDirectory!Change(w, i) ELSE UNCHANGED teams
<1>1. CASE InsertTeam(w, i)
  <2>1. /\ req[w].op = "SaveTeam" /\ i \notin DOMAIN teams
        /\ ~NameTaken(teams, NoId, req[w].key)
        /\ teams' = WithRow(teams, i, req[w].key)
    BY <1>1 DEF InsertTeam, FreshTeamId, Commit, Allowed, At
  <2>2. /\ TeamCalls[w].op = "create" /\ TeamCalls[w].answer = "pending"
        /\ TeamCalls[w].key = req[w].key
    BY <2>1, TeamPending DEF TeamCalls
  <2>3. TeamDirectory!Create(w, i)
    BY <2>1, <2>2 DEF TeamDirectory!Create, TeamDirectory!Pending, TeamDirectory!Taken,
                      TeamDirectory!NoId, NoId, NameTaken, WithRow, TeamCalls
  <2> QED
    BY <2>1, <2>3 DEF TeamDirectory!Change
<1>2. CASE ~InsertTeam(w, i)
  BY <1>2 DEF Commit, InsertTournament, UpdateTournament, DeleteTournament, InsertGroup,
              DeleteGroup, InsertMatch, At
<1> QED
  BY <1>1, <1>2

\* Every step of the routes is a step of the teams' directory or a stutter; a
\* new team is known from its INSERT on.
LEMMA TeamStep ==
  ASSUME Safe, Staged, [Next]_vars
  PROVE  [TeamDirectory!Next]_<<teams, TeamCalls>>
<1>1. ASSUME NEW w \in Worker, Others(w), SameCall(w), UNCHANGED idBuffer,
             req[w].op # "SaveTeam"
      PROVE  UNCHANGED TeamCalls
  BY <1>1, TeamStutter DEF TeamCall, SameCall
<1>2. CASE UNCHANGED vars
  BY <1>2 DEF vars, TeamCalls, TeamCall
<1>3. ASSUME NEW w \in Worker, NEW op \in OpNames, NEW i \in MaybeId, NEW k \in Key,
             Begin(w, op, i, k)
      PROVE  TeamDirectory!Next
  BY <1>3, TeamAsk DEF TeamDirectory!Next
<1>4. ASSUME NEW w \in Worker,
             ListTeams(w) \/ LookUpClientId(w) \/ ListTournaments(w) \/ LookUpTournament(w)
             \/ FindGroup(w) \/ FailToWrite(w)
      PROVE  [TeamDirectory!Next]_<<teams, TeamCalls>>
  <2>1. /\ Others(w) /\ SameCall(w) /\ UNCHANGED <<teams, idBuffer>>
        /\ req[w].pc \notin {"answer", "done"}
        /\ \/ req'[w].pc \notin {"answer", "done"} /\ req'[w].code = req[w].code
           \/ req'[w].pc = "done" /\ req'[w].code \in {400, 404, 409, 422, 500}
    BY <1>4, ReadIs
  <2>2. CASE req'[w].pc # "done"
    <3>1. TeamCall(w)' = TeamCall(w)
      BY <2>1, <2>2 DEF TeamCall, SameCall
    <3> QED
      BY <2>1, <3>1, TeamStutter
  <2>3. CASE req[w].op = "SaveTeam" /\ req'[w].pc = "done"
    <3> DEFINE a == AnswerOf(req'[w].code)
    <3>1. TeamCall(w)' = [op |-> "create", id |-> req[w].id, key |-> req[w].key, answer |-> a]
      BY <2>1, <2>3 DEF TeamCall, SameCall
    <3>2. TeamDirectory!Answer(w, req[w].id, a)
      BY <2>1, <2>3, <3>1, TeamAnswer
    <3>3. /\ TeamCalls[w].op = "create" /\ TeamCalls[w].answer = "pending"
          /\ TeamCalls[w].id = req[w].id /\ TeamCalls[w].key = req[w].key
      BY <2>1, <2>3, TeamPending DEF TeamCalls
    <3>4. CASE ListTeams(w) \/ LookUpClientId(w)
      <4>1. \/ /\ req'[w].code = 409
               /\ req[w].key \in ReadAll(teams) \/ req[w].id \in DOMAIN teams
            \/ req'[w].code \in {400, 500}
        BY <2>3, <3>4, GoIs, ReplyIs
           DEF ListTeams, LookUpClientId, CheckBody, AfterList, At, ReadById, Safe, RequestsOK,
               MaybeId
      <4>2. CASE req'[w].code = 409
        <5>1. TeamDirectory!Taken(TeamDirectory!NoId, req[w].key) \/ req[w].id \in DOMAIN teams
          BY <4>1, <4>2, RegistryAssumption
             DEF ReadAll, TeamDirectory!Taken, TeamDirectory!NoId, NoId, Safe, TablesOK, TableOK
        <5> QED
          BY <2>1, <3>2, <3>3, <4>2, <5>1 DEF AnswerOf, TeamCalls, TeamDirectory!RefuseCreate,
             TeamDirectory!Pending, TeamDirectory!Next
      <4>3. CASE req'[w].code \in {400, 500}
        BY <2>1, <3>2, <3>3, <4>3 DEF AnswerOf, TeamCalls, TeamDirectory!Reject,
           TeamDirectory!GiveUp, TeamDirectory!Next
      <4> QED
        BY <4>1, <4>2, <4>3
    <3>5. CASE FailToWrite(w)
      <4>1. req'[w].code = 500
        BY <3>5, ReplyIs DEF FailToWrite, Safe, RequestsOK, MaybeId
      <4> QED
        BY <2>1, <3>2, <3>3, <4>1 DEF AnswerOf, TeamCalls, TeamDirectory!GiveUp,
           TeamDirectory!Next
    <3>6. ~(ListTournaments(w) \/ LookUpTournament(w) \/ FindGroup(w))
      BY <2>3 DEF ListTournaments, LookUpTournament, FindGroup, At, OpNames
    <3> QED
      BY <1>4, <3>4, <3>5, <3>6
  <2> QED
    BY <2>1, <2>2, <2>3, <1>1
<1>5. ASSUME NEW w \in Worker, Write(w)
      PROVE  [TeamDirectory!Next]_<<teams, TeamCalls>>
  <2>1. PICK i \in Id :
          /\ Commit(w, i) /\ req[w].pc = "write" /\ Others(w) /\ SameCall(w)
          /\ IF req[w].op = "SaveTeam"
             THEN /\ req'[w].pc = "answer" /\ idBuffer'[w] = i
                  /\ \A v \in Worker \ {w} : idBuffer'[v] = idBuffer[v]
             ELSE UNCHANGED idBuffer
    BY <1>5, WriteIs
  <2>2. CASE req[w].op = "SaveTeam"
    <3>1. TeamDirectory!Change(w, i)
      BY <2>1, <2>2, TeamCommit
    <3>2. TeamCall(w)' = [op |-> "create", id |-> i, key |-> req[w].key, answer |-> "done"]
      BY <2>1, <2>2 DEF TeamCall, SameCall
    <3>3. TeamDirectory!Answer(w, i, "done")
      BY <2>1, <2>2, <3>2, TeamAnswer
    <3> QED
      BY <3>1, <3>3 DEF TeamDirectory!Next, TeamDirectory!Succeed
  <2> QED
    BY <1>1, <2>1, <2>2, TeamCommit
<1>6. ASSUME NEW w \in Worker, AnswerSaveTeam(w) PROVE UNCHANGED <<teams, TeamCalls>>
  <2>1. TeamCall(w)' = TeamCall(w)
    BY <1>6, AnswerIs DEF TeamCall, SameCall
  <2> QED
    BY <1>6, <2>1, AnswerIs, TeamStutter
<1>7. ASSUME NEW w \in Worker, CallThrows(w)
      PROVE  [TeamDirectory!Next]_<<teams, TeamCalls>>
  <2>1. /\ UNCHANGED teams \/ \E i \in Id : Commit(w, i)
        /\ Others(w) /\ SameCall(w) /\ UNCHANGED idBuffer
        /\ req[w].pc \notin {"answer", "done"}
        /\ req'[w].pc = "done"
        /\ req[w].op # "CreateMatch" => req'[w].code = 500
    BY <1>7, ErrorIs DEF tables
  <2>2. (\E i \in Id : Commit(w, i)) => req[w].pc = "write"
    BY DEF Commit, InsertTeam, InsertTournament, UpdateTournament, DeleteTournament, InsertGroup,
           DeleteGroup, InsertMatch, At
  <2>3. CASE req[w].op = "SaveTeam"
    <3>1. TeamCall(w)' = [op |-> "create", id |-> req[w].id, key |-> req[w].key,
                          answer |-> "error"]
      BY <2>1, <2>3 DEF TeamCall, SameCall, AnswerOf
    <3>2. TeamDirectory!Answer(w, req[w].id, "error")
      BY <2>1, <2>3, <3>1, TeamAnswer
    <3>3. TeamCalls[w].id = req[w].id /\ TeamCalls[w].answer = "pending"
      BY <2>1, <2>3, TeamPending DEF TeamCalls
    <3>4. UNCHANGED teams \/ \E i \in Id : TeamDirectory!Change(w, i)
      BY <2>1, <2>2, <2>3, TeamCommit
    <3> QED
      BY <3>2, <3>3, <3>4 DEF TeamCalls, TeamDirectory!GiveUp, TeamDirectory!Next
  <2> QED
    BY <1>1, <2>1, <2>2, <2>3, TeamCommit
<1> QED
  BY <1>2, <1>3, <1>4, <1>5, <1>6, <1>7 DEF Next, CallThrows

---------------------------------------------------------------------------
LEMMA StagedInit == Init => Staged /\ AllStayAbsent
<1> SUFFICES ASSUME Init PROVE Staged /\ AllStayAbsent
  OBVIOUS
<1>1. \A w \in Worker : req[w] = NoRequest
  BY DEF Init
<1> QED
  BY <1>1 DEF NoRequest, Staged, Stage, AllStayAbsent, StaysAbsent, LooksUp

LEMMA AlwaysStaged == Spec => [](Safe /\ Staged /\ AllStayAbsent)
<1>1. Safe /\ Staged /\ AllStayAbsent /\ [Next]_vars => (Safe /\ Staged /\ AllStayAbsent)'
  BY SafeStep, StagedStep, AbsentStep
<1> QED
  BY <1>1, SafeInit, StagedInit, PTL DEF Spec

\* A tournament that was missing when the request came is answered 404, except
\* to POST of a match, however many requests create tournaments meanwhile.
THEOREM AbsentIsNotFound == Spec => []AbsentMeansNotFound
<1>1. Safe /\ Staged /\ AllStayAbsent => AbsentMeansNotFound
  <2> SUFFICES ASSUME Safe, Staged, AllStayAbsent, NEW w \in Worker, Answered(w), req[w].absent,
                      ~req[w].failed, req[w].op \notin {"SaveTeam", "CreateTournament", "CreateMatch"}
               PROVE  req[w].code = 404
    BY DEF AbsentMeansNotFound
  <2>1. req[w].op \in LooksUp
    BY DEF Answered, Staged, Stage, Safe, RequestsOK, Request, MaybeOp, OpNames, LooksUp
  <2> QED
    BY <2>1 DEF Answered, AllStayAbsent, StaysAbsent
<1> QED
  BY <1>1, AlwaysStaged, PTL

\* Every answer to POST, PATCH and DELETE of a tournament is true at one moment
\* of the call, although the check and the write are transactions of their own.
THEOREM TournamentsImplementDirectory == Spec => TournamentsRefineDirectory
<1>1. Init => TournamentDirectory!Init
  <2>1. ASSUME Init, NEW w \in Worker PROVE TournamentCall(w) = TournamentDirectory!Quiet
    BY <2>1 DEF Init, NoRequest, TournamentCall, Quiet, NoId, NoKey, TournamentDirectory!Quiet,
                TournamentDirectory!NoId
  <2> QED
    BY <2>1 DEF Init, NoRows, TournamentDirectory!Init
<1>2. Safe /\ Staged /\ [Next]_vars
        => [TournamentDirectory!Next]_<<tournaments, [w \in Worker |-> TournamentCall(w)]>>
  BY TournamentStep DEF TournamentCalls
<1> QED
  BY <1>1, <1>2, AlwaysStaged, PTL DEF Spec, TournamentsRefineDirectory, TournamentDirectory!Spec

\* Every answer to POST /teams is true at one moment of the call, although the
\* checks and the INSERT are transactions of their own.
THEOREM TeamsImplementDirectory == Spec => TeamsRefineDirectory
<1>1. Init => TeamDirectory!Init
  <2>1. ASSUME Init, NEW w \in Worker PROVE TeamCall(w) = TeamDirectory!Quiet
    BY <2>1 DEF Init, NoRequest, TeamCall, Quiet, NoId, NoKey, TeamDirectory!Quiet,
                TeamDirectory!NoId
  <2> QED
    BY <2>1 DEF Init, NoRows, TeamDirectory!Init
<1>2. Safe /\ Staged /\ [Next]_vars
        => [TeamDirectory!Next]_<<teams, [w \in Worker |-> TeamCall(w)]>>
  BY TeamStep DEF TeamCalls
<1> QED
  BY <1>1, <1>2, AlwaysStaged, PTL DEF Spec, TeamsRefineDirectory, TeamDirectory!Spec
==============================================================================
