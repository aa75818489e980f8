------------------------------- MODULE Seasons -------------------------------
(***************************************************************************)
(* ManageSeasonUseCase over the seasons table: createSeason, updateSeason, *)
(* activateSeason, completeSeason and checkAndUpdateSeasonStatuses, several *)
(* calls in flight, one repository call per action.                        *)
(***************************************************************************)
EXTENDS Integers, FiniteSets

CONSTANTS
  Chains,      \* seasons.chain
  LastTime,    \* bound: the clock stops here
  MaxSeasons,  \* bound: rows the instance may insert
  Ops,         \* bound: calls in flight at once
  Failing,     \* those whose repository calls may throw or whose server may stop
  Casts,       \* which of them take part: one set for each behaviour
  Null

ASSUME TimeAssumption == LastTime \in Nat /\ MaxSeasons \in Nat
ASSUME CastsAssumption == Casts \subseteq SUBSET Ops /\ Failing \subseteq Ops

VARIABLES
  cast,     \* the calls that take part
  now,      \* the clock behind new Date()
  seasons,  \* the table, by serial id
  op        \* the calls in flight

vars == <<cast, now, seasons, op>>

Times == 0 .. LastTime
Ids == 1 .. MaxSeasons
Status == {"upcoming", "active", "completed"}

ASSUME NullAssumption == Null \notin Nat /\ Null \notin Status

\* The columns the control depends on; name, config and the totals are not.
Season == [chain : Chains, start : Times, end : Times \cup {Null}, status : Status]

Rows == DOMAIN seasons

\* validateStatusTransition; 'cancelled' is never requested by any caller.
ValidTransitions == {<<"upcoming", "active">>, <<"active", "completed">>}

\* datesOverlap: a season without an end date runs on for ever.
Before(t, end) == end = Null \/ t < end
DatesOverlap(s, t) == Before(s.start, t.end) /\ Before(t.start, s.end)

-----------------------------------------------------------------------------
PC == {"idle", "overlap", "insert", "activate", "complete", "load", "write",
       "scanUpcoming", "scanActive"}

Op == [pc     : PC,
       id     : Ids \cup {Null},
       row    : Season \cup {Null},          \* the row about to be written
       end    : Times \cup {Null},           \* dto.endDate
       status : Status \cup {Null},          \* dto.status
       at     : Times,                       \* now of checkAndUpdateSeasonStatuses
       todo   : SUBSET Ids,                  \* rows of its loop still to do
       batch  : {"none", "activating", "completing"}]

IdleOp == [pc |-> "idle", id |-> Null, row |-> Null, end |-> Null,
           status |-> Null, at |-> 0, todo |-> {}, batch |-> "none"]

TypeOK ==
  /\ cast \in Casts
  /\ now \in Times
  /\ Rows \in SUBSET Ids
  /\ \A i \in Rows : seasons[i] \in Season
  /\ op \in [Ops -> Op]

Init ==
  /\ cast \in Casts
  /\ now = 0
  /\ seasons = [i \in {} |-> Null]
  /\ op = [o \in Ops |-> IdleOp]

Start(o, q) == op[o].pc = "idle" /\ op' = [op EXCEPT ![o] = q] /\ UNCHANGED <<cast, now, seasons>>
Call(o, q) == op' = [op EXCEPT ![o] = q]

\* checkAndUpdateSeasonStatuses goes on with any row of its loop that is left;
\* after the last activation it looks for the seasons to complete.
NextTurn(o, rows) ==
  \/ \E i \in rows :
       Call(o, [IdleOp EXCEPT
                  !.pc = IF op[o].batch = "activating" THEN "activate" ELSE "complete",
                  !.id = i, !.at = op[o].at, !.todo = rows \ {i},
                  !.batch = op[o].batch])
  \/ /\ rows = {} /\ op[o].batch = "activating"
     /\ Call(o, [IdleOp EXCEPT !.pc = "scanActive", !.at = op[o].at,
                               !.batch = "completing"])
  \/ /\ rows = {} /\ op[o].batch = "completing"
     /\ Call(o, IdleOp)

\* A call is over, with a result or an error; in the batch either is one turn.
Return(o) == IF op[o].batch = "none" THEN Call(o, IdleOp) ELSE NextTurn(o, op[o].todo)

-----------------------------------------------------------------------------
(* createSeason *)

CreateSeason(o) ==
  \E c \in Chains, s \in Times, e \in Times \cup {Null} :
    /\ e # Null => e > s
    /\ Start(o, [IdleOp EXCEPT !.pc = "overlap",
                   !.row = [chain |-> c, start |-> s, end |-> e, status |-> "upcoming"]])

\* Only the active seasons of the chain are compared with the new dates; the
\* status follows from the dates at this moment.
CheckOverlap(o) ==
  /\ op[o].pc = "overlap"
  /\ LET s == op[o].row
         status == IF s.start > now THEN "upcoming"
                   ELSE IF Before(now, s.end) THEN "active" ELSE "completed"
     IN  IF \E i \in Rows : /\ seasons[i].chain = s.chain
                            /\ seasons[i].status = "active"
                            /\ DatesOverlap(s, seasons[i])
         THEN Return(o)
         ELSE Call(o, [op[o] EXCEPT !.pc = "insert", !.row.status = status])
  /\ UNCHANGED <<cast, now, seasons>>

\* The code inserts the id 0, so that its own second insert is rejected by the
\* primary key; other rows come from elsewhere.  Here every row has a new id,
\* whoever inserts it: more tables than the code alone can make.
InsertSeason(o) ==
  /\ op[o].pc = "insert"
  /\ LET id == Cardinality(Rows) + 1
     IN  IF id \in Ids                       \* bound
         THEN seasons' = [i \in Rows \cup {id} |->
                            IF i = id THEN op[o].row ELSE seasons[i]]
         ELSE UNCHANGED seasons
  /\ Return(o)
  /\ UNCHANGED <<cast, now>>

-----------------------------------------------------------------------------
(* updateSeason, called by the controller with no status *)

UpdateSeason(o) ==
  \E i \in Rows, e \in Times \cup {Null} :
    Start(o, [IdleOp EXCEPT !.pc = "load", !.id = i, !.end = e])

\* Mutant: the new end date is not compared with the start date.
LoadSeasonAnyEnd(o) ==
  /\ op[o].pc = "load"
  /\ LET s == seasons[op[o].id]
         q == op[o]
     IN  IF q.status # Null /\ <<s.status, q.status>> \notin ValidTransitions
         THEN Return(o)
         ELSE Call(o, [q EXCEPT !.pc = "write",
                         !.row = [s EXCEPT !.end = IF q.end = Null THEN @ ELSE q.end,
                                           !.status = IF q.status = Null THEN @ ELSE q.status]])
  /\ UNCHANGED <<cast, now, seasons>>

\* Mutant: an update without a status puts the column's default back.
LoadSeasonDefaultStatus(o) ==
  /\ op[o].pc = "load"
  /\ LET s == seasons[op[o].id]
         q == op[o]
     IN  IF \/ q.end # Null /\ q.end <= s.start
            \/ q.status # Null /\ <<s.status, q.status>> \notin ValidTransitions
         THEN Return(o)
         ELSE Call(o, [q EXCEPT !.pc = "write",
                         !.row = [s EXCEPT !.end = IF q.end = Null THEN @ ELSE q.end,
                                           !.status = IF q.status = Null THEN "upcoming"
                                                      ELSE q.status]])
  /\ UNCHANGED <<cast, now, seasons>>

LoadSeason(o) ==
  /\ op[o].pc = "load"
  /\ LET s == seasons[op[o].id]
         q == op[o]
     IN  IF \/ q.end # Null /\ q.end <= s.start
            \/ q.status # Null /\ <<s.status, q.status>> \notin ValidTransitions
         THEN Return(o)
         ELSE Call(o, [q EXCEPT !.pc = "write",
                         !.row = [s EXCEPT !.end = IF q.end = Null THEN @ ELSE q.end,
                                           !.status = IF q.status = Null THEN @ ELSE q.status]])
  /\ UNCHANGED <<cast, now, seasons>>

\* seasonRepository.update writes every column of the row loaded before.
WriteSeason(o) ==
  /\ op[o].pc = "write"
  /\ seasons' = [seasons EXCEPT ![op[o].id] = op[o].row]
  /\ Return(o)
  /\ UNCHANGED <<cast, now>>

-----------------------------------------------------------------------------
(* activateSeason and completeSeason check a row they find, then call      *)
(* updateSeason, which finds it again.                                     *)

ActivateSeason(o) ==
  \E i \in Rows : Start(o, [IdleOp EXCEPT !.pc = "activate", !.id = i])

CompleteSeason(o) ==
  \E i \in Rows : Start(o, [IdleOp EXCEPT !.pc = "complete", !.id = i])

\* Mutant: the start date is not checked.
CheckActivationAnyDate(o) ==
  /\ op[o].pc = "activate"
  /\ IF seasons[op[o].id].status = "upcoming"
     THEN Call(o, [op[o] EXCEPT !.pc = "load", !.status = "active"])
     ELSE Return(o)
  /\ UNCHANGED <<cast, now, seasons>>

CheckActivation(o) ==
  /\ op[o].pc = "activate"
  /\ LET s == seasons[op[o].id]
     IN  IF s.status = "upcoming" /\ s.start <= now
         THEN Call(o, [op[o] EXCEPT !.pc = "load", !.status = "active"])
         ELSE Return(o)
  /\ UNCHANGED <<cast, now, seasons>>

\* Mutant: a missing end date is not supplied.
CheckCompletionNoEnd(o) ==
  /\ op[o].pc = "complete"
  /\ IF seasons[op[o].id].status = "active"
     THEN Call(o, [op[o] EXCEPT !.pc = "load", !.status = "completed"])
     ELSE Return(o)
  /\ UNCHANGED <<cast, now, seasons>>

CheckCompletion(o) ==
  /\ op[o].pc = "complete"
  /\ LET s == seasons[op[o].id]
     IN  IF s.status = "active"
         THEN Call(o, [op[o] EXCEPT !.pc = "load", !.status = "completed",
                                    !.end = IF s.end = Null THEN now ELSE Null])
         ELSE Return(o)
  /\ UNCHANGED <<cast, now, seasons>>

-----------------------------------------------------------------------------
(* checkAndUpdateSeasonStatuses *)

CheckAndUpdateSeasonStatuses(o) ==
  Start(o, [IdleOp EXCEPT !.pc = "scanUpcoming", !.at = now, !.batch = "activating"])

ScanUpcoming(o) ==
  /\ op[o].pc = "scanUpcoming"
  /\ NextTurn(o, {i \in Rows : /\ seasons[i].status = "upcoming"
                            /\ seasons[i].start <= op[o].at})
  /\ UNCHANGED <<cast, now, seasons>>

\* Mutant: a season that ends exactly now is left out.
ScanActiveStrict(o) ==
  /\ op[o].pc = "scanActive"
  /\ NextTurn(o, {i \in Rows : /\ seasons[i].status = "active"
                            /\ seasons[i].end # Null
                            /\ seasons[i].end < op[o].at})
  /\ UNCHANGED <<cast, now, seasons>>

ScanActive(o) ==
  /\ op[o].pc = "scanActive"
  /\ NextTurn(o, {i \in Rows : /\ seasons[i].status = "active"
                            /\ seasons[i].end # Null
                            /\ seasons[i].end <= op[o].at})
  /\ UNCHANGED <<cast, now, seasons>>

-----------------------------------------------------------------------------
\* A repository call throws, or the server stops.  An error inside the try
\* block of the batch ends the turn only.
Fail(o) ==
  /\ o \in Failing /\ op[o].pc # "idle"
  /\ \/ Call(o, IdleOp)
     \/ op[o].pc \in {"activate", "complete", "load", "write"} /\ Return(o)
  /\ UNCHANGED <<cast, now, seasons>>

Tick == now < LastTime /\ now' = now + 1 /\ UNCHANGED <<cast, seasons, op>>

Next ==
  \/ Tick
  \/ \E o \in cast :
       \/ CreateSeason(o) \/ CheckOverlap(o) \/ InsertSeason(o)
       \/ UpdateSeason(o) \/ LoadSeason(o) \/ WriteSeason(o)
       \/ ActivateSeason(o) \/ CheckActivation(o)
       \/ CompleteSeason(o) \/ CheckCompletion(o)
       \/ CheckAndUpdateSeasonStatuses(o) \/ ScanUpcoming(o) \/ ScanActive(o)
       \/ Fail(o)

Spec == Init /\ [][Next]_vars

-----------------------------------------------------------------------------
\* However updates overlap, a season never ends before it starts: updateSeason
\* compares a new end date with the start date of the row it will overwrite.
EndAfterStart == \A i \in Rows : Before(seasons[i].start, seasons[i].end)

\* No season is active or completed before its start date, not even one that a
\* stale row is written over.
StartedIfNotUpcoming == \A i \in Rows : seasons[i].status # "upcoming" => seasons[i].start <= now

\* The calls run one at a time.
Alone == \E o \in Ops : cast = {o}

\* A step changes a status along validateStatusTransition, if at all.
TransitionAllowed ==
  \A i \in Rows : \/ seasons'[i].status = seasons[i].status
                  \/ <<seasons[i].status, seasons'[i].status>> \in ValidTransitions

\* A status only changes along validateStatusTransition, in calls that do not overlap
\* and in every turn of the batch.
StatusFollowsAlone == [][Alone => TransitionAllowed]_vars

\* Without overlapping calls a completed season has an end date: completeSeason
\* supplies the missing one.
CompletedHasEnd ==
  Alone => \A i \in Rows : seasons[i].status = "completed" => seasons[i].end # Null

\* When checkAndUpdateSeasonStatuses returns, none of its calls rejected and no other
\* call run meanwhile, no season is overdue at the time it started: what it activates
\* late it also completes in the same pass.
BatchCatchesUp ==
  [][ Alone /\ cast \cap Failing = {} => \A o \in Ops : op[o].batch # "none" /\ op'[o].pc = "idle" =>
        \A i \in DOMAIN seasons' :
          \/ seasons'[i].status = "completed"
          \/ seasons'[i].status = "upcoming" /\ seasons'[i].start > op[o].at
          \/ seasons'[i].status = "active" /\ Before(op[o].at, seasons'[i].end) ]_vars
=============================================================================
