------------------------------- MODULE Registry -------------------------------
(***************************************************************************)
(* The routes that keep teams and tournaments, and the rows that hang off  *)
(* a tournament: its groups and matches.  A worker is an HTTP thread and   *)
(* serves one request at a time; each repository call is a                 *)
(* transaction of its own, so a name found free, or a tournament found, is *)
(* only known to have been so.                                             *)
(*                                                                         *)
(* A key is what a row is unique by: the name of a team, of a tournament,  *)
(* of a group in its tournament; round and teams of a match in its         *)
(* tournament.  A request that is answered before any repository call is   *)
(* not a step; what is wrong with one that is found out later, its form    *)
(* tells.                                                                  *)
(***************************************************************************)
EXTENDS Naturals

CONSTANTS Worker,
          Id,          \* ids the database can draw
          Name,        \* names of teams and of tournaments
          Entry,       \* keys of groups and matches in their tournament
          MaxFaults,   \* bound on failing repository calls
          MaxRequests  \* bound on requests

Key == Name \cup Entry

NoId    == 0
MaybeId == Id \cup {NoId}

NoKey    == ""
MaybeKey == Key \cup {NoKey}

ASSUME RegistryAssumption ==
  /\ NoId \notin Id /\ NoKey \notin Key
  /\ MaxFaults \in Nat /\ MaxRequests \in Nat

VARIABLES teams,         \* id -> name
          tournaments,   \* id -> name
          groups,        \* <<tournament, name>>
          matches,       \* <<tournament, key>>
          req,           \* the request of each worker, or the answered one
          idBuffer,      \* thread_local id_buffer of TeamRepository::Create
          faults,
          requests       \* requests begun so far

tables == <<teams, tournaments, groups, matches>>
vars   == <<teams, tournaments, groups, matches, req, idBuffer, faults, requests>>

OpNames == {"SaveTeam", "CreateTournament", "UpdateTournament", "DeleteTournament",
            "CreateGroup", "RemoveGroup", "CreateMatch"}
MaybeOp == OpNames \cup {"none"}

\* A body with a field that the route refuses, one with a field of a JSON type
\* that from_json() does not take, and an id that is no UUID: what the
\* database does with that one is to throw.
Form == {"good", "malformed", "unparsable", "noUuid"}

\* id is the tournament of the path, or the id the client chose for a team, and
\* NoId if that is no UUID; code and row are the answer, row the id it gives;
\* absent tells whether id was no tournament when the request came, failed
\* whether one of its repository calls failed.
Request ==
  [op     : MaybeOp,
   pc     : {"idle", "list", "lookup", "find", "write", "answer", "done"},
   id     : MaybeId,
   key    : MaybeKey,
   form   : Form,
   code   : {0, 201, 204, 400, 404, 409, 422, 500},
   row    : MaybeId,
   absent : BOOLEAN,
   failed : BOOLEAN]

NoRequest == [op |-> "none", pc |-> "idle", id |-> NoId, key |-> NoKey, form |-> "good",
              code |-> 0, row |-> NoId, absent |-> FALSE, failed |-> FALSE]

TypeOK ==
  /\ DOMAIN teams \subseteq Id /\ \A i \in DOMAIN teams : teams[i] \in Key
  /\ DOMAIN tournaments \subseteq Id /\ \A i \in DOMAIN tournaments : tournaments[i] \in Key
  /\ groups \subseteq Id \X Key
  /\ matches \subseteq Id \X Key
  /\ req \in [Worker -> Request]
  /\ idBuffer \in [Worker -> MaybeId]
  /\ faults \in 0..MaxFaults /\ requests \in 0..MaxRequests

NoRows == [i \in {} |-> ""]

Init ==
  /\ teams = NoRows /\ tournaments = NoRows
  /\ groups = {} /\ matches = {}
  /\ req = [w \in Worker |-> NoRequest]
  /\ idBuffer = [w \in Worker |-> NoId]
  /\ faults = 0 /\ requests = 0

At(w, ops, pc) == req[w].op \in ops /\ req[w].pc = pc

Go(w, pc) == req' = [req EXCEPT ![w].pc = pc]

Reply(w, code, i) ==
  req' = [req EXCEPT ![w] = [@ EXCEPT !.pc = "done", !.code = code, !.row = i]]

\* team_unique_name_idx and tournament_unique_name_idx, seen by a row i
NameTaken(table, i, k) == \E j \in DOMAIN table \ {i} : table[j] = k

WithRow(table, i, k) ==
  [j \in DOMAIN table \cup {i} |-> IF j = i THEN k ELSE table[j]]

\* Mutation: the row stays, without a name.
WithoutRowBlank(table, i) == [j \in DOMAIN table |-> IF j = i THEN "" ELSE table[j]]

WithoutRow(table, i) == [j \in DOMAIN table \ {i} |-> table[j]]

\* The names of all rows, and whether there is a row i, in one SELECT.
ReadAll(table) == {table[i] : i \in DOMAIN table}
ReadById(table, i) == i \in DOMAIN table

\* A UUID never comes back: no row of the table, no request about it and no
\* answer has this one.
FreshTeamId(i) ==
  /\ i \notin DOMAIN teams
  /\ \A w \in Worker :
       i # idBuffer[w] /\ (req[w].op = "SaveTeam" => i \notin {req[w].id, req[w].row})

FreshTournamentId(i) ==
  /\ i \notin DOMAIN tournaments
  /\ \A w \in Worker : req[w].op # "SaveTeam" => i \notin {req[w].id, req[w].row}

---------------------------------------------------------------------------
\* The reads that come first

FirstCall(op) ==
  IF op \in {"SaveTeam", "CreateTournament"} THEN "list" ELSE "lookup"

\* What can be wrong with a request, beyond what is checked at once.
Forms(op) ==
  CASE op = "SaveTeam"         -> Form
    [] op = "CreateTournament" -> {"good", "unparsable"}
    [] op = "CreateMatch"      -> {"good", "malformed", "noUuid"}
    [] OTHER                   -> {"good", "noUuid"}

\* The ids it comes with; of a group that is to be removed the id of the group
\* may be the one that is no UUID.
Ids(op, form) ==
  IF form = "noUuid" THEN IF op = "RemoveGroup" THEN MaybeId ELSE {NoId}
  ELSE CASE op = "CreateTournament" -> {NoId}
         [] op = "SaveTeam" -> IF form = "good" THEN MaybeId ELSE {NoId}
         [] OTHER -> Id

Begin(w, op, i, k) ==
  /\ req[w].pc \in {"idle", "done"}
  /\ requests < MaxRequests
  /\ requests' = requests + 1
  /\ k \in IF op \in {"CreateGroup", "RemoveGroup", "CreateMatch"} THEN Entry ELSE Name
  /\ \E form \in Forms(op) :
       /\ i \in Ids(op, form)
       /\ req' = [req EXCEPT ![w] =
                    [op |-> op, pc |-> FirstCall(op), id |-> i, key |-> k, form |-> form,
                     code |-> 0, row |-> NoId,
                     absent |-> i \notin DOMAIN tournaments, failed |-> FALSE]]
  /\ UNCHANGED <<tables, idBuffer, faults>>

\* What the routes check in the body after their first repository call.
CheckBody(w, pc) ==
  CASE req[w].form = "malformed"  -> Reply(w, IF req[w].op = "CreateMatch" THEN 422 ELSE 400, NoId)
    [] req[w].form = "unparsable" -> Reply(w, 500, NoId)
    [] OTHER                      -> Go(w, pc)

AfterList(w) == IF req[w].id = NoId /\ req[w].form # "noUuid" THEN "write" ELSE "lookup"

\* Mutation: any stored team is taken for one of the same name.
ListTeamsAny(w) ==
  /\ At(w, {"SaveTeam"}, "list")
  /\ IF DOMAIN teams # {} THEN Reply(w, 409, NoId) ELSE CheckBody(w, AfterList(w))
  /\ UNCHANGED <<tables, idBuffer, faults, requests>>

ListTeams(w) ==
  /\ At(w, {"SaveTeam"}, "list")
  /\ IF req[w].key \in ReadAll(teams) THEN Reply(w, 409, NoId) ELSE CheckBody(w, AfterList(w))
  /\ UNCHANGED <<tables, idBuffer, faults, requests>>

LookUpClientId(w) ==
  /\ At(w, {"SaveTeam"}, "lookup") /\ req[w].id # NoId
  /\ IF ReadById(teams, req[w].id) THEN Reply(w, 409, NoId) ELSE Go(w, "write")
  /\ UNCHANGED <<tables, idBuffer, faults, requests>>

ListTournaments(w) ==
  /\ At(w, {"CreateTournament"}, "list")
  /\ IF req[w].key \in ReadAll(tournaments) THEN Reply(w, 409, NoId) ELSE CheckBody(w, "write")
  /\ UNCHANGED <<tables, idBuffer, faults, requests>>

\* Mutation: like MatchDelegate, the null pointer of a tournament that is not
\* there counts as found.
LookUpTournamentHasValue(w) ==
  /\ At(w, OpNames \ {"SaveTeam", "CreateTournament"}, "lookup") /\ req[w].id # NoId
  /\ CheckBody(w, IF req[w].op = "RemoveGroup" THEN "find" ELSE "write")
  /\ UNCHANGED <<tables, idBuffer, faults, requests>>

\* MatchDelegate::Create asks has_value() of an expected<shared_ptr>: a
\* tournament that does not exist is a null pointer, and that is a value.
LookUpTournament(w) ==
  /\ At(w, OpNames \ {"SaveTeam", "CreateTournament"}, "lookup") /\ req[w].id # NoId
  /\ IF req[w].op # "CreateMatch" /\ ~ReadById(tournaments, req[w].id)
     THEN Reply(w, 404, NoId)
     ELSE CheckBody(w, IF req[w].op = "RemoveGroup" THEN "find" ELSE "write")
  /\ UNCHANGED <<tables, idBuffer, faults, requests>>

FindGroup(w) ==
  /\ At(w, {"RemoveGroup"}, "find") /\ req[w].form # "noUuid"
  /\ IF <<req[w].id, req[w].key>> \in groups THEN Go(w, "write") ELSE Reply(w, 404, NoId)
  /\ UNCHANGED <<tables, idBuffer, faults, requests>>

---------------------------------------------------------------------------
\* The statements that write.  Each is in effect, and commits, if the schema
\* allows it; otherwise the call throws.

\* Mutation: the tournaments have no unique index.
AllowedTwice(w, i, k) ==
  CASE req[w].op = "SaveTeam"         -> ~NameTaken(teams, NoId, k)
    [] req[w].op = "UpdateTournament" -> i \in DOMAIN tournaments
    [] req[w].op = "DeleteTournament" -> i \in DOMAIN tournaments /\ \A g \in groups : g[1] # i
    [] req[w].op = "CreateGroup"      -> i \in DOMAIN tournaments /\ <<i, k>> \notin groups
    [] req[w].op = "CreateMatch"      -> i \in DOMAIN tournaments /\ <<i, k>> \notin matches
    [] OTHER -> TRUE

\* Unique indexes, foreign keys, and "not found" when no row was changed; a
\* group that is gone is deleted without complaint.
Allowed(w, i, k) ==
  CASE req[w].op = "SaveTeam"         -> ~NameTaken(teams, NoId, k)
    [] req[w].op = "CreateTournament" -> ~NameTaken(tournaments, NoId, k)
    [] req[w].op = "UpdateTournament" -> i \in DOMAIN tournaments /\ ~NameTaken(tournaments, i, k)
    [] req[w].op = "DeleteTournament" -> i \in DOMAIN tournaments /\ \A g \in groups : g[1] # i
    [] req[w].op = "CreateGroup"      -> i \in DOMAIN tournaments /\ <<i, k>> \notin groups
    [] req[w].op = "CreateMatch"      -> i \in DOMAIN tournaments /\ <<i, k>> \notin matches
    [] OTHER -> TRUE

InsertTeam(w, i) ==
  /\ At(w, {"SaveTeam"}, "write")
  /\ FreshTeamId(i)
  /\ teams' = WithRow(teams, i, req[w].key)
  /\ UNCHANGED <<tournaments, groups, matches>>

InsertTournament(w, i) ==
  /\ At(w, {"CreateTournament"}, "write")
  /\ FreshTournamentId(i)
  /\ tournaments' = WithRow(tournaments, i, req[w].key)
  /\ UNCHANGED <<teams, groups, matches>>

UpdateTournament(w, i) ==
  /\ At(w, {"UpdateTournament"}, "write")
  /\ i = req[w].id
  /\ tournaments' = [tournaments EXCEPT ![i] = req[w].key]
  /\ UNCHANGED <<teams, groups, matches>>

\* Mutation: the matches table does not cascade.
DeleteTournamentOnly(w, i) ==
  /\ At(w, {"DeleteTournament"}, "write")
  /\ i = req[w].id
  /\ tournaments' = WithoutRow(tournaments, i)
  /\ UNCHANGED <<teams, groups, matches>>

\* The matches go with their tournament (ON DELETE CASCADE).
DeleteTournament(w, i) ==
  /\ At(w, {"DeleteTournament"}, "write")
  /\ i = req[w].id
  /\ tournaments' = WithoutRow(tournaments, i)
  /\ matches' = {m \in matches : m[1] # i}
  /\ UNCHANGED <<teams, groups>>

InsertGroup(w, i) ==
  /\ At(w, {"CreateGroup"}, "write")
  /\ i = req[w].id
  /\ groups' = groups \cup {<<i, req[w].key>>}
  /\ UNCHANGED <<teams, tournaments, matches>>

DeleteGroup(w, i) ==
  /\ At(w, {"RemoveGroup"}, "write")
  /\ i = req[w].id
  /\ groups' = groups \ {<<i, req[w].key>>}
  /\ UNCHANGED <<teams, tournaments, matches>>

InsertMatch(w, i) ==
  /\ At(w, {"CreateMatch"}, "write")
  /\ i = req[w].id
  /\ matches' = matches \cup {<<i, req[w].key>>}
  /\ UNCHANGED <<teams, tournaments, groups>>

Commit(w, i) ==
  /\ Allowed(w, req[w].id, req[w].key)
  /\ \/ InsertTeam(w, i) \/ InsertTournament(w, i) \/ UpdateTournament(w, i)
     \/ DeleteTournament(w, i) \/ InsertGroup(w, i) \/ DeleteGroup(w, i) \/ InsertMatch(w, i)

SuccessCode(op) ==
  IF op \in {"UpdateTournament", "DeleteTournament", "RemoveGroup"} THEN 204 ELSE 201

\* The threads whose Create returns a view of the same buffer as w's.
\* Mutation: id_buffer is static, one for the process.
SharesBufferStatic(w) == Worker

SharesBuffer(w) == {w}

Write(w) ==
  /\ \E i \in Id :
       /\ Commit(w, i)
       /\ IF req[w].op = "SaveTeam"
          THEN /\ idBuffer' = [v \in Worker |-> IF v \in SharesBuffer(w) THEN i ELSE idBuffer[v]]
               /\ Go(w, "answer")
          ELSE UNCHANGED idBuffer /\ Reply(w, SuccessCode(req[w].op), i)
  /\ UNCHANGED <<faults, requests>>

FailToWrite(w) ==
  /\ req[w].pc = "write"
  /\ ~Allowed(w, req[w].id, req[w].key)
  /\ Reply(w, 500, NoId)
  /\ UNCHANGED <<tables, idBuffer, faults, requests>>

\* The controller copies the string_view the repository returned.
AnswerSaveTeam(w) ==
  /\ At(w, {"SaveTeam"}, "answer")
  /\ Reply(w, 201, IF req[w].id # NoId THEN req[w].id ELSE idBuffer[w])
  /\ UNCHANGED <<tables, idBuffer, faults, requests>>

---------------------------------------------------------------------------
\* An exception out of a repository call.  MatchDelegate::Create takes the
\* error of a look-up that threw for a tournament that is not there.
Fail(w) ==
  req' = [req EXCEPT ![w] =
            [@ EXCEPT !.pc = "done", !.failed = TRUE,
                      !.code = IF At(w, {"CreateMatch"}, "lookup") THEN 404 ELSE 500]]

\* The cast to uuid throws.
RejectId(w) ==
  /\ \/ req[w].pc = "lookup" /\ req[w].id = NoId
     \/ req[w].pc = "find" /\ req[w].form = "noUuid"
  /\ Fail(w)
  /\ UNCHANGED <<tables, idBuffer, faults, requests>>

\* A repository call fails: it did nothing, or the connection broke after the
\* server had committed.
RepositoryError(w) ==
  /\ req[w].pc \in {"list", "lookup", "find", "write"}
  /\ faults < MaxFaults
  /\ faults' = faults + 1
  /\ UNCHANGED tables \/ \E i \in Id : Commit(w, i)
  /\ Fail(w)
  /\ UNCHANGED <<idBuffer, requests>>

Next ==
  \E w \in Worker :
    \/ \E op \in OpNames, i \in MaybeId, k \in Key : Begin(w, op, i, k)
    \/ ListTeams(w) \/ LookUpClientId(w) \/ ListTournaments(w)
    \/ LookUpTournament(w) \/ FindGroup(w)
    \/ Write(w) \/ FailToWrite(w) \/ AnswerSaveTeam(w)
    \/ RejectId(w) \/ RepositoryError(w)

Spec == Init /\ [][Next]_vars

---------------------------------------------------------------------------
Answered(w) == req[w].pc = "done"

\* No group and no match is left behind by its tournament, although the
\* routes look the tournament up in an earlier transaction.
NoOrphans == \A r \in groups \cup matches : r[1] \in DOMAIN tournaments

\* A name that POST /teams was asked to store is stored once it has answered,
\* by 500 for a lost race as well (TeamController::SaveTeam), unless a
\* repository call failed, the proposed id is another team's, or the request
\* was refused for its id after the list was read: 400 for a malformed one, 500
\* for one that is no string.
SavedOrTaken ==
  \A w \in Worker :
    Answered(w) /\ req[w].op = "SaveTeam" /\ ~req[w].failed /\ req[w].id \notin DOMAIN teams
      => \/ NameTaken(teams, NoId, req[w].key)
         \/ req[w].form = "malformed" /\ req[w].code = 400
         \/ req[w].form = "unparsable" /\ req[w].code = 500

\* The id answered to POST /teams is the row of that team, although it is
\* read from a buffer after the repository call has returned; a client that
\* proposes an id gets that one back instead.
AnswerNamesTeam ==
  \A w \in Worker :
    Answered(w) /\ req[w].op = "SaveTeam" /\ req[w].code = 201 /\ req[w].id = NoId
      => req[w].row \in DOMAIN teams /\ teams[req[w].row] = req[w].key

\* A tournament that was missing from the start is answered 404, except to
\* POST of a match (GroupDelegate, TournamentDelegate); the look-up of an id
\* that is no UUID is a call that failed.
AbsentMeansNotFound ==
  \A w \in Worker :
    Answered(w) /\ req[w].absent /\ ~req[w].failed
    /\ req[w].op \notin {"SaveTeam", "CreateTournament", "CreateMatch"}
      => req[w].code = 404

AnswerOf(code) ==
  CASE code = 0 -> "pending"
    [] code \in {201, 204} -> "done"
    [] code = 404 -> "missing"
    [] code = 409 -> "exists"
    [] code \in {400, 422} -> "rejected"
    [] OTHER -> "error"

\* The calls of the two tables as Directory sees them.  A new team is made
\* known with the INSERT, by the id the repository returns.
Quiet == [op |-> "none", id |-> NoId, key |-> NoKey, answer |-> "none"]

TeamCall(w) ==
  IF req[w].op # "SaveTeam" THEN Quiet
  ELSE IF req[w].pc = "answer" \/ req[w].code = 201
  THEN [op |-> "create", id |-> idBuffer[w], key |-> req[w].key, answer |-> "done"]
  ELSE [op |-> "create", id |-> req[w].id, key |-> req[w].key, answer |-> AnswerOf(req[w].code)]

TournamentOp(op) ==
  CASE op = "CreateTournament" -> "create"
    [] op = "UpdateTournament" -> "rename"
    [] OTHER -> "remove"

TournamentCall(w) ==
  IF req[w].op \notin {"CreateTournament", "UpdateTournament", "DeleteTournament"} THEN Quiet
  ELSE [op  |-> TournamentOp(req[w].op),
        id  |-> IF req[w].code = 201 THEN req[w].row ELSE req[w].id,
        key |-> req[w].key, answer |-> AnswerOf(req[w].code)]

TeamDirectory == INSTANCE Directory WITH
  Client <- Worker, rows <- teams, call <- [w \in Worker |-> TeamCall(w)]

TournamentDirectory == INSTANCE Directory WITH
  Client <- Worker, rows <- tournaments, call <- [w \in Worker |-> TournamentCall(w)]

\* The routes of teams and of tournaments keep the promise of a directory,
\* although they check in one transaction and write in another.
TeamsRefineDirectory == TeamDirectory!Spec
TournamentsRefineDirectory == TournamentDirectory!Spec
==============================================================================
