---------------------------- MODULE Seasons_proofs ----------------------------
(* The dates of a season and its status agree however calls overlap. The rows a *)
(* call holds are as fine as those of the table: nobody changes a start date,   *)
(* so that what was checked of one row holds for the row written over it later. *)
EXTENDS Seasons, FiniteSetTheorems, TLAPS

\* Serial ids: a new row never takes the place of another.
RowsCounted == \E n \in Nat : Rows = 1 .. n

Fine(s, t) ==
  /\ s \in Season /\ Before(s.start, s.end)
  /\ s.status # "upcoming" => s.start <= t

\* What a call in flight may rely on, over a table and a clock.
OpFine(q, table, t) ==
  /\ q \in Op /\ q.todo \subseteq DOMAIN table
  /\ q.pc \in {"activate", "complete", "load", "write"} => q.id \in DOMAIN table
  /\ q.pc = "overlap" => q.row \in Season /\ Before(q.row.start, q.row.end)
  /\ q.pc \in {"insert", "write"} => Fine(q.row, t)
  /\ q.pc = "write" => q.row.start = table[q.id].start
  /\ q.pc = "load" /\ q.status # Null => table[q.id].start <= t

TableFine == Rows \subseteq Ids /\ RowsCounted /\ \A i \in Rows : Fine(seasons[i], now)

SeasonsInv ==
  /\ cast \in Casts /\ now \in Times /\ TableFine
  /\ op \in [Ops -> Op] /\ \A o \in Ops : OpFine(op[o], seasons, now)

USE DEF Rows

LEMMA SeasonsInv_Properties ==
  SeasonsInv => TypeOK /\ EndAfterStart /\ StartedIfNotUpcoming
  BY DEF SeasonsInv, TableFine, Fine, TypeOK, EndAfterStart, StartedIfNotUpcoming

LEMMA IdleFine == IdleOp \in Op /\ IdleOp.pc = "idle" /\ IdleOp.todo = {}
  BY TimeAssumption DEF IdleOp, Op, PC, Times

\* A turn of the batch begins with nothing but the row, the rows left and the instant.
TurnCall(pc, id, at, todo, batch) ==
  [IdleOp EXCEPT !.pc = pc, !.id = id, !.at = at, !.todo = todo, !.batch = batch]

LEMMA TurnFine ==
  ASSUME NEW pc \in PC, NEW id \in Ids, NEW at \in Times, NEW todo \in SUBSET Ids,
         NEW batch \in {"none", "activating", "completing"}, NEW q,
         q = TurnCall(pc, id, at, todo, batch)
  PROVE  /\ q \in Op /\ q.pc = pc /\ q.id = id /\ q.at = at /\ q.todo = todo
         /\ q.batch = batch /\ q.end = Null
<1>1. q \in Op
  BY IdleFine DEF Op, TurnCall
<1>2. q.pc = pc /\ q.id = id /\ q.at = at /\ q.todo = todo /\ q.batch = batch /\ q.end = Null
  BY DEF IdleOp, TurnCall
<1> QED
  BY <1>1, <1>2

LEMMA ScanFine ==
  ASSUME NEW at \in Times, NEW q, q = [IdleOp EXCEPT !.pc = "scanActive", !.at = at, !.batch = "completing"]
  PROVE  q \in Op /\ q.pc = "scanActive" /\ q.at = at /\ q.todo = {} /\ q.batch = "completing"
<1>1. q \in Op
  BY IdleFine DEF Op, PC
<1>2. q.pc = "scanActive" /\ q.at = at /\ q.todo = {} /\ q.batch = "completing"
  BY DEF IdleOp
<1> QED
  BY <1>1, <1>2

\* Rows are added, never removed, and keep their start dates; the clock goes on.
LaterTable ==
  /\ Rows \subseteq Rows' /\ now <= now'
  /\ \A i \in Rows : seasons'[i].start = seasons[i].start

\* What a call relies on stays true.
LEMMA FineLater ==
  ASSUME TableFine, now \in Times, now' \in Times, LaterTable, NEW q, OpFine(q, seasons, now)
  PROVE  OpFine(q, seasons', now')
<1>1. ASSUME NEW s, Fine(s, now) PROVE Fine(s, now')
  BY <1>1 DEF Fine, Season, Times, LaterTable
<1>2. ASSUME NEW i \in Rows, seasons[i].start <= now PROVE seasons'[i].start <= now'
  BY <1>2 DEF TableFine, Fine, Season, Times, LaterTable
<1> QED
  BY <1>1, <1>2 DEF OpFine, LaterTable, Rows

\* A step after which the rows are fine, and the call that took it as well.
LEMMA StepKeeps ==
  ASSUME SeasonsInv, UNCHANGED cast, now' \in Times, TableFine', LaterTable,
         NEW o \in Ops, NEW q, op' = [op EXCEPT ![o] = q], OpFine(q, seasons', now')
  PROVE  SeasonsInv'
<1>1. q \in Op
  BY DEF OpFine
<1>2. op' \in [Ops -> Op]
  BY <1>1 DEF SeasonsInv
<1>3. \A p \in Ops : OpFine(op[p], seasons', now')
  BY FineLater DEF SeasonsInv
<1>4. \A p \in Ops : OpFine(op'[p], seasons', now')
  <2>1. TAKE p \in Ops
  <2>2. CASE p = o
    BY <2>2 DEF SeasonsInv
  <2>3. CASE p # o
    BY <2>3, <1>3 DEF SeasonsInv
  <2> QED
    BY <2>2, <2>3
<1> QED
  BY <1>2, <1>4 DEF SeasonsInv

\* A step that only changes its call.
LEMMA CallKeeps ==
  ASSUME SeasonsInv, UNCHANGED <<cast, now, seasons>>, NEW o \in Ops, NEW q,
         Call(o, q), OpFine(q, seasons, now)
  PROVE  SeasonsInv'
<1>1. TableFine' /\ LaterTable /\ now' \in Times
  BY DEF SeasonsInv, TableFine, RowsCounted, Fine, LaterTable, Times
<1>2. OpFine(q, seasons', now')
  BY DEF OpFine, Fine
<1> QED
  BY <1>1, <1>2, StepKeeps DEF Call

\* How a call q0 goes on as q with the rows of its loop.
Turned(q0, rows, q) ==
  \/ /\ q0.batch = "activating" /\ q.pc = "activate" /\ q.id \in rows
     /\ q.todo = rows \ {q.id} /\ q.at = q0.at /\ q.batch = q0.batch /\ q.end = Null
  \/ /\ q0.batch # "activating" /\ q.pc = "complete" /\ q.id \in rows
     /\ q.todo = rows \ {q.id} /\ q.at = q0.at /\ q.batch = q0.batch
  \/ /\ q0.batch = "activating" /\ q.pc = "scanActive" /\ rows = {}
     /\ q.todo = {} /\ q.at = q0.at /\ q.batch = "completing"
  \/ q0.batch = "completing" /\ q = IdleOp /\ rows = {}

LEMMA NextTurnTurns ==
  ASSUME SeasonsInv, NEW o \in Ops, NEW rows \in SUBSET Rows, NextTurn(o, rows)
  PROVE  \E q \in Op : Call(o, q) /\ Turned(op[o], rows, q)
<1>1. /\ op[o] \in Op /\ rows \subseteq Ids
      /\ op[o].at \in Times /\ op[o].batch \in {"none", "activating", "completing"}
  BY DEF SeasonsInv, TableFine, Op
<1>2. CASE \E i \in rows :
             Call(o, [IdleOp EXCEPT
                        !.pc = IF op[o].batch = "activating" THEN "activate" ELSE "complete",
                        !.id = i, !.at = op[o].at, !.todo = rows \ {i},
                        !.batch = op[o].batch])
  <2>1. PICK i \in rows, pc \in {"activate", "complete"} :
          /\ pc = IF op[o].batch = "activating" THEN "activate" ELSE "complete"
          /\ Call(o, TurnCall(pc, i, op[o].at, rows \ {i}, op[o].batch))
    BY <1>2 DEF TurnCall
  <2>2. PICK at, batch : at = op[o].at /\ batch = op[o].batch
    OBVIOUS
  <2> DEFINE todo == rows \ {i}
  <2>6. PICK q : q = TurnCall(pc, i, at, todo, batch)
    OBVIOUS
  <2>3. /\ pc \in PC /\ i \in Ids /\ todo \in SUBSET Ids /\ at \in Times
        /\ batch \in {"none", "activating", "completing"}
    BY <1>1, <2>2 DEF PC
  <2>4. /\ q \in Op /\ q.pc = pc /\ q.id = i /\ q.todo = todo /\ q.at = at
        /\ q.batch = batch /\ q.end = Null
    BY <2>6, <2>3, TurnFine
  <2>5. Call(o, q)
    BY <2>1, <2>2, <2>6
  <2> QED BY <2>1, <2>2, <2>4, <2>5 DEF Turned
<1>3. CASE /\ rows = {} /\ op[o].batch = "activating"
           /\ Call(o, [IdleOp EXCEPT !.pc = "scanActive", !.at = op[o].at,
                                     !.batch = "completing"])
  <2>1. PICK q : /\ q = [IdleOp EXCEPT !.pc = "scanActive", !.at = op[o].at, !.batch = "completing"]
                 /\ Call(o, q)
    BY <1>3
  <2>2. q \in Op /\ q.pc = "scanActive" /\ q.at = op[o].at /\ q.todo = {} /\ q.batch = "completing"
    BY <1>1, <2>1, ScanFine
  <2> QED BY <1>3, <2>1, <2>2 DEF Turned
<1>4. CASE rows = {} /\ op[o].batch = "completing" /\ Call(o, IdleOp)
  BY <1>4, IdleFine DEF Turned
<1> QED BY <1>2, <1>3, <1>4 DEF NextTurn

\* The end of a call, or of a turn of the batch, leaves a call that relies on little.
LEMMA NextTurnFine ==
  ASSUME SeasonsInv, NEW o \in Ops, NEW rows \in SUBSET Rows, NextTurn(o, rows)
  PROVE  \E q \in Op : Call(o, q) /\ OpFine(q, seasons, now)
<1>1. PICK q \in Op : Call(o, q) /\ Turned(op[o], rows, q)
  BY NextTurnTurns
<1>2. OpFine(q, seasons, now)
  <2>1. CASE q.pc \in {"activate", "complete"} /\ q.id \in rows /\ q.todo = rows \ {q.id}
    BY <2>1 DEF OpFine
  <2>2. CASE q.pc = "scanActive" /\ q.todo = {}
    BY <2>2 DEF OpFine
  <2>3. CASE q = IdleOp
    BY <2>3, IdleFine DEF OpFine
  <2> QED
    BY <1>1, <2>1, <2>2, <2>3 DEF Turned
<1> QED
  BY <1>1, <1>2

LEMMA ReturnFine ==
  ASSUME SeasonsInv, NEW o \in Ops, Return(o)
  PROVE  \E q \in Op : Call(o, q) /\ OpFine(q, seasons, now)
<1>1. op[o].todo \in SUBSET Rows
  BY DEF SeasonsInv, OpFine
<1>2. CASE Call(o, IdleOp)
  BY <1>2, IdleFine DEF OpFine
<1>3. CASE NextTurn(o, op[o].todo)
  BY <1>1, <1>3, NextTurnFine
<1> QED
  BY <1>2, <1>3 DEF Return

LEMMA SeasonsInit == Init => SeasonsInv
<1>1. SUFFICES ASSUME Init PROVE SeasonsInv
  OBVIOUS
<1>2. Rows = {} /\ Rows = 1 .. 0
  BY <1>1 DEF Init, Rows
<1>3. TableFine
  BY <1>2 DEF TableFine, RowsCounted
<1>4. \A o \in Ops : OpFine(op[o], seasons, now)
  BY <1>1, IdleFine DEF Init, OpFine
<1> QED
  BY <1>1, <1>3, <1>4, IdleFine, TimeAssumption DEF Init, SeasonsInv, Times

\* A row that is fine is inserted, or written over one with its start date.
LEMMA TableWritten ==
  ASSUME SeasonsInv, UNCHANGED now, NEW s, Fine(s, now),
         \/ \E id \in Rows : /\ s.start = seasons[id].start
                             /\ seasons' = [seasons EXCEPT ![id] = s]
         \/ /\ Cardinality(Rows) + 1 \in Ids
            /\ seasons' = [i \in Rows \cup {Cardinality(Rows) + 1} |->
                             IF i = Cardinality(Rows) + 1 THEN s ELSE seasons[i]]
  PROVE  TableFine' /\ LaterTable
<1>1. TableFine /\ now \in Times /\ now <= now'
  BY DEF SeasonsInv, Times
<1>2. ASSUME NEW t, Fine(t, now) PROVE Fine(t, now')
  BY <1>2 DEF Fine
<1>3. CASE \E id \in Rows : /\ s.start = seasons[id].start
                            /\ seasons' = [seasons EXCEPT ![id] = s]
  <2>1. PICK id \in Rows : /\ s.start = seasons[id].start
                           /\ seasons' = [seasons EXCEPT ![id] = s]
    BY <1>3
  <2>2. Rows' = Rows /\ \A i \in Rows : seasons'[i] = IF i = id THEN s ELSE seasons[i]
    BY <2>1 DEF Rows
  <2> QED
    BY <1>1, <1>2, <2>1, <2>2 DEF TableFine, RowsCounted, LaterTable
<1>4. CASE /\ Cardinality(Rows) + 1 \in Ids
           /\ seasons' = [i \in Rows \cup {Cardinality(Rows) + 1} |->
                            IF i = Cardinality(Rows) + 1 THEN s ELSE seasons[i]]
  <2>1. PICK n \in Nat : Rows = 1 .. n
    BY <1>1 DEF TableFine, RowsCounted
  <2>2. Cardinality(Rows) = n
    <3>1. Cardinality(1 .. n) = n
      BY FS_Interval
    <3> QED
      BY <2>1, <3>1
  <2>3. /\ Rows' = 1 .. (n + 1) /\ n + 1 \in Ids /\ n + 1 \notin Rows
        /\ \A i \in Rows' : seasons'[i] = IF i = n + 1 THEN s ELSE seasons[i]
    BY <1>4, <2>1, <2>2 DEF Rows
  <2>4. \A i \in Rows : seasons'[i] = seasons[i] /\ i \in Rows'
    BY <2>1, <2>3
  <2>5. \A i \in Rows' : i \in Rows \/ i = n + 1
    BY <2>1, <2>3
  <2>6. Rows' \subseteq Ids /\ RowsCounted'
    BY <1>1, <2>3, <2>5 DEF TableFine, RowsCounted
  <2> QED
    BY <1>1, <1>2, <2>3, <2>4, <2>5, <2>6 DEF TableFine, LaterTable
<1> QED
  BY <1>3, <1>4

LEMMA SeasonsNext == SeasonsInv /\ [Next]_vars => SeasonsInv'
<1>1. SUFFICES ASSUME SeasonsInv, [Next]_vars PROVE SeasonsInv'
  OBVIOUS
<1>2. /\ SeasonsInv /\ cast \subseteq Ops /\ now \in Times /\ TableFine
      /\ op \in [Ops -> Op] /\ \A o \in Ops : OpFine(op[o], seasons, now)
  BY <1>1, CastsAssumption DEF SeasonsInv
<1>3. CASE Tick
  <2>1. now' \in Times /\ TableFine' /\ LaterTable /\ UNCHANGED <<cast, op>>
    BY <1>2, <1>3, TimeAssumption
    DEF Tick, Times, TableFine, RowsCounted, Fine, Season, LaterTable
  <2>2. \A o \in Ops : OpFine(op[o], seasons', now')
    BY <1>2, <2>1, FineLater
  <2> QED
    BY <1>2, <2>1, <2>2 DEF SeasonsInv
\* A call that ends, or a turn of the batch, while the table stays as it is.
<1>4. ASSUME NEW o \in Ops, Return(o), UNCHANGED <<cast, now, seasons>> PROVE SeasonsInv'
  BY <1>2, <1>4, ReturnFine, CallKeeps
<1>5. ASSUME NEW o \in Ops, CreateSeason(o) PROVE SeasonsInv'
  <2>1. PICK c \in Chains, s \in Times, e \in Times \cup {Null} :
          /\ e # Null => e > s
          /\ Start(o, [IdleOp EXCEPT !.pc = "overlap",
                         !.row = [chain |-> c, start |-> s, end |-> e,
                                  status |-> "upcoming"]])
    BY <1>5 DEF CreateSeason
  <2> DEFINE row == [chain |-> c, start |-> s, end |-> e, status |-> "upcoming"]
             q == [IdleOp EXCEPT !.pc = "overlap", !.row = row]
  <2>2. row \in Season /\ Before(row.start, row.end)
    BY <2>1 DEF Season, Status, Before, Times
  <2> HIDE DEF row
  <2>3. q \in Op /\ q.pc = "overlap" /\ q.row = row /\ q.todo = {}
    BY <2>2, IdleFine DEF Op, PC
  <2>4. Call(o, q) /\ UNCHANGED <<cast, now, seasons>>
    BY <2>1 DEF Start, Call, row
  <2> HIDE DEF q
  <2>5. OpFine(q, seasons, now)
    BY <2>2, <2>3 DEF OpFine
  <2> QED
    BY <1>2, <2>4, <2>5, CallKeeps
<1>6. ASSUME NEW o \in Ops, CheckOverlap(o) PROVE SeasonsInv'
  <2> DEFINE s == op[o].row
             status == IF s.start > now THEN "upcoming"
                       ELSE IF Before(now, s.end) THEN "active" ELSE "completed"
             q == [op[o] EXCEPT !.pc = "insert", !.row.status = status]
  <2>1. UNCHANGED <<cast, now, seasons>> /\ op[o].pc = "overlap"
        /\ (Return(o) \/ Call(o, q))
    BY <1>6 DEF CheckOverlap
  <2>2. op[o] \in Op /\ op[o].todo \subseteq Rows /\ s \in Season /\ Before(s.start, s.end)
    BY <1>2, <2>1 DEF OpFine
  <2>3. /\ status \in Status /\ (status # "upcoming" => s.start <= now)
    BY <1>2, <2>2 DEF Status, Season, Times
  <2> HIDE DEF status
  <2>4. /\ [s EXCEPT !.status = status] \in Season
        /\ [s EXCEPT !.status = status].start = s.start
        /\ [s EXCEPT !.status = status].end = s.end
        /\ [s EXCEPT !.status = status].status = status
    BY <2>2, <2>3 DEF Season
  <2>5. q \in Op /\ q.pc = "insert" /\ q.row = [s EXCEPT !.status = status]
        /\ q.todo = op[o].todo
    BY <2>2, <2>4 DEF Op, PC
  <2> HIDE DEF q, s
  <2>6. OpFine(q, seasons, now)
    BY <2>2, <2>3, <2>4, <2>5 DEF OpFine, Fine
  <2> QED
    BY <1>2, <1>4, <2>1, <2>6, CallKeeps
<1>7. ASSUME NEW o \in Ops, InsertSeason(o) PROVE SeasonsInv'
  <2>1. op[o].pc = "insert" /\ Return(o) /\ UNCHANGED <<cast, now>> /\ Fine(op[o].row, now)
    BY <1>2, <1>7 DEF InsertSeason, OpFine
  <2>2. CASE UNCHANGED seasons
    BY <1>4, <2>1, <2>2
  <2>3. CASE ~UNCHANGED seasons
    <3>1. /\ Cardinality(Rows) + 1 \in Ids
          /\ seasons' = [i \in Rows \cup {Cardinality(Rows) + 1} |->
                           IF i = Cardinality(Rows) + 1 THEN op[o].row ELSE seasons[i]]
      BY <1>7, <2>3 DEF InsertSeason
    <3>2. TableFine' /\ LaterTable
      BY <1>2, <2>1, <3>1, TableWritten
    <3>3. PICK q \in Op : Call(o, q) /\ OpFine(q, seasons, now)
      BY <1>2, <2>1, ReturnFine
    <3>4. now' \in Times /\ OpFine(q, seasons', now')
      BY <1>2, <2>1, <3>2, <3>3, FineLater
    <3> QED
      BY <1>2, <2>1, <3>2, <3>3, <3>4, StepKeeps DEF Call
  <2> QED
    BY <2>2, <2>3
\* A call on a row that is there.
<1>8. ASSUME NEW o \in Ops, NEW q \in Op, q.pc \in {"activate", "complete", "load"},
             q.id \in Rows, q.todo = {}, q.status = Null, Start(o, q)
      PROVE SeasonsInv'
  <2>1. Call(o, q) /\ UNCHANGED <<cast, now, seasons>>
    BY <1>8 DEF Start, Call
  <2>2. OpFine(q, seasons, now)
    BY <1>8 DEF OpFine
  <2> QED
    BY <1>2, <2>1, <2>2, CallKeeps
<1>9. ASSUME NEW o \in Ops, UpdateSeason(o) PROVE SeasonsInv'
  <2>1. PICK i \in Rows, e \in Times \cup {Null} :
          Start(o, [IdleOp EXCEPT !.pc = "load", !.id = i, !.end = e])
    BY <1>9 DEF UpdateSeason
  <2> DEFINE q == [IdleOp EXCEPT !.pc = "load", !.id = i, !.end = e]
  <2>2. q \in Op /\ q.pc = "load" /\ q.id = i /\ q.todo = {} /\ q.status = Null
    BY <1>2, IdleFine DEF Op, PC, IdleOp, TableFine
  <2> QED
    BY <1>8, <2>1, <2>2
<1>10. ASSUME NEW o \in Ops, ActivateSeason(o) \/ CompleteSeason(o) PROVE SeasonsInv'
  <2>1. PICK pc \in {"activate", "complete"}, i \in Rows :
          Start(o, [IdleOp EXCEPT !.pc = pc, !.id = i])
    BY <1>10 DEF ActivateSeason, CompleteSeason
  <2> DEFINE q == [IdleOp EXCEPT !.pc = pc, !.id = i]
  <2>2. q \in Op /\ q.pc = pc /\ q.id = i /\ q.todo = {} /\ q.status = Null
    BY <1>2, IdleFine DEF Op, PC, IdleOp, TableFine
  <2> HIDE DEF q
  <2>3. Start(o, q)
    BY <2>1 DEF q
  <2> QED
    BY <1>8, <2>2, <2>3
<1>11. ASSUME NEW o \in Ops, LoadSeason(o) PROVE SeasonsInv'
  <2> DEFINE s == seasons[op[o].id]
             row == [s EXCEPT !.end = IF op[o].end = Null THEN @ ELSE op[o].end,
                              !.status = IF op[o].status = Null THEN @ ELSE op[o].status]
             q == [op[o] EXCEPT !.pc = "write", !.row = row]
  <2>1. op[o].pc = "load" /\ UNCHANGED <<cast, now, seasons>>
    BY <1>11 DEF LoadSeason
  <2>2. CASE Return(o)
    BY <1>4, <2>1, <2>2
  <2>3. CASE ~Return(o)
    <3>1. /\ Call(o, [op[o] EXCEPT !.pc = "write",
                        !.row = [s EXCEPT !.end = IF op[o].end = Null THEN @ ELSE op[o].end,
                                          !.status = IF op[o].status = Null THEN @
                                                     ELSE op[o].status]])
          /\ ~(op[o].end # Null /\ op[o].end <= s.start)
      BY <1>11, <2>3 DEF LoadSeason
    <3>2. /\ op[o] \in Op /\ op[o].id \in Rows /\ op[o].todo \subseteq Rows /\ Fine(s, now)
          /\ op[o].status # Null => s.start <= now
      BY <1>2, <2>1 DEF OpFine, TableFine
    <3>3. s \in Season /\ op[o].end \in Times \cup {Null} /\ op[o].status \in Status \cup {Null}
      BY <3>2 DEF Fine, Op
    <3>4. /\ row \in Season /\ row.start = s.start
          /\ row.end = IF op[o].end = Null THEN s.end ELSE op[o].end
          /\ row.status = IF op[o].status = Null THEN s.status ELSE op[o].status
      BY <3>3 DEF Season
    <3>5. Before(row.start, row.end)
      BY <3>1, <3>2, <3>3, <3>4 DEF Fine, Before, Season, Times
    <3>6. q \in Op /\ q.pc = "write" /\ q.row = row /\ q.id = op[o].id /\ q.todo = op[o].todo
      BY <3>2, <3>4 DEF Op, PC
    <3>7. Call(o, q)
      BY <3>1
    <3> HIDE DEF q, row
    <3>8. Fine(row, now)
      BY <3>2, <3>4, <3>5 DEF Fine
    <3>9. OpFine(q, seasons, now)
      BY <3>2, <3>4, <3>6, <3>8 DEF OpFine
    <3> QED
      BY <1>2, <2>1, <3>7, <3>9, CallKeeps
  <2> QED
    BY <2>2, <2>3
<1>12. ASSUME NEW o \in Ops, WriteSeason(o) PROVE SeasonsInv'
  <2>1. /\ op[o].pc = "write" /\ Return(o) /\ UNCHANGED <<cast, now>>
        /\ seasons' = [seasons EXCEPT ![op[o].id] = op[o].row]
    BY <1>12 DEF WriteSeason
  <2>2. op[o].id \in Rows /\ Fine(op[o].row, now) /\ op[o].row.start = seasons[op[o].id].start
    BY <1>2, <2>1 DEF OpFine
  <2>3. TableFine' /\ LaterTable
    BY <1>2, <2>1, <2>2, TableWritten
  <2>4. PICK q \in Op : Call(o, q) /\ OpFine(q, seasons, now)
    BY <1>2, <2>1, ReturnFine
  <2>5. now' \in Times /\ OpFine(q, seasons', now')
    BY <1>2, <2>1, <2>3, <2>4, FineLater
  <2> QED
    BY <1>2, <2>1, <2>3, <2>4, <2>5, StepKeeps DEF Call
\* A check that succeeds loads the row next; its season has begun.
<1>13. ASSUME NEW o \in Ops, NEW status \in {"active", "completed"},
              NEW e \in Times \cup {Null}, op[o].pc \in {"activate", "complete"},
              seasons[op[o].id].start <= now, UNCHANGED <<cast, now, seasons>>,
              Call(o, [op[o] EXCEPT !.pc = "load", !.status = status, !.end = e])
       PROVE SeasonsInv'
  <2> DEFINE q == [op[o] EXCEPT !.pc = "load", !.status = status, !.end = e]
  <2>1. op[o] \in Op /\ op[o].id \in Rows /\ op[o].todo \subseteq Rows
    BY <1>2, <1>13 DEF OpFine
  <2>2. q \in Op /\ q.pc = "load" /\ q.id = op[o].id /\ q.todo = op[o].todo
    BY <2>1 DEF Op, PC, Status
  <2>3. Call(o, q)
    BY <1>13
  <2> HIDE DEF q
  <2>4. OpFine(q, seasons, now)
    BY <1>13, <2>1, <2>2 DEF OpFine
  <2> QED
    BY <1>2, <1>13, <2>3, <2>4, CallKeeps
<1>14. ASSUME NEW o \in Ops, CheckActivation(o) PROVE SeasonsInv'
  <2>1. CASE Return(o)
    BY <1>4, <1>14, <2>1 DEF CheckActivation
  <2>2. CASE ~Return(o)
    <3>1. /\ op[o].pc = "activate" /\ UNCHANGED <<cast, now, seasons>>
          /\ seasons[op[o].id].start <= now
          /\ Call(o, [op[o] EXCEPT !.pc = "load", !.status = "active"])
      BY <1>14, <2>2 DEF CheckActivation
    <3>2. op[o] \in Op
      BY <1>2
    <3>3. /\ op[o].end \in Times \cup {Null}
          /\ [op[o] EXCEPT !.pc = "load", !.status = "active"]
               = [op[o] EXCEPT !.pc = "load", !.status = "active", !.end = op[o].end]
      BY <3>2 DEF Op
    <3> QED
      BY <1>13, <3>1, <3>3
  <2> QED
    BY <2>1, <2>2
<1>15. ASSUME NEW o \in Ops, CheckCompletion(o) PROVE SeasonsInv'
  <2>1. CASE Return(o)
    BY <1>4, <1>15, <2>1 DEF CheckCompletion
  <2>2. CASE ~Return(o)
    <3> DEFINE e == IF seasons[op[o].id].end = Null THEN now ELSE Null
    <3>1. /\ op[o].pc = "complete" /\ UNCHANGED <<cast, now, seasons>>
          /\ seasons[op[o].id].status = "active"
          /\ Call(o, [op[o] EXCEPT !.pc = "load", !.status = "completed", !.end = e])
      BY <1>15, <2>2 DEF CheckCompletion
    <3>2. seasons[op[o].id].start <= now /\ e \in Times \cup {Null}
      BY <1>2, <3>1 DEF OpFine, TableFine, Fine
    <3> HIDE DEF e
    <3> QED
      BY <1>13, <3>1, <3>2
  <2> QED
    BY <2>1, <2>2
<1>16. ASSUME NEW o \in Ops, CheckAndUpdateSeasonStatuses(o) PROVE SeasonsInv'
  <2> DEFINE q == [IdleOp EXCEPT !.pc = "scanUpcoming", !.at = now, !.batch = "activating"]
  <2>1. Call(o, q) /\ UNCHANGED <<cast, now, seasons>>
    BY <1>16 DEF CheckAndUpdateSeasonStatuses, Start, Call
  <2>2. q \in Op /\ q.pc = "scanUpcoming" /\ q.todo = {}
    BY <1>2, IdleFine DEF Op, PC
  <2> HIDE DEF q
  <2>3. OpFine(q, seasons, now)
    BY <2>2 DEF OpFine
  <2> QED
    BY <1>2, <2>1, <2>3, CallKeeps
<1>17. ASSUME NEW o \in Ops, ScanUpcoming(o) \/ ScanActive(o) PROVE SeasonsInv'
  <2>1. PICK rows \in SUBSET Rows : NextTurn(o, rows)
    BY <1>17 DEF ScanUpcoming, ScanActive
  <2>2. UNCHANGED <<cast, now, seasons>>
    BY <1>17 DEF ScanUpcoming, ScanActive
  <2> QED
    BY <1>2, <2>1, <2>2, NextTurnFine, CallKeeps
<1>18. ASSUME NEW o \in Ops, Fail(o) PROVE SeasonsInv'
  <2>1. OpFine(IdleOp, seasons, now)
    BY IdleFine DEF OpFine
  <2> QED
    BY <1>2, <1>4, <1>18, <2>1, CallKeeps DEF Fail
<1>19. CASE UNCHANGED vars
  BY <1>2, <1>19 DEF vars, SeasonsInv, TableFine, RowsCounted, Rows, Fine, OpFine
<1> QED
  BY <1>1, <1>2, <1>3, <1>5, <1>6, <1>7, <1>9, <1>10, <1>11, <1>12, <1>14, <1>15, <1>16,
     <1>17, <1>18, <1>19 DEF Next

\* The table and the calls in flight keep their types.
THEOREM SeasonsTypeCorrect == Spec => []TypeOK
<1> QED
  BY SeasonsInit, SeasonsNext, SeasonsInv_Properties, PTL DEF Spec

\* No update, however late it writes the row it read, lets a season end before its start.
THEOREM SeasonsEndAfterStart == Spec => []EndAfterStart
<1> QED
  BY SeasonsInit, SeasonsNext, SeasonsInv_Properties, PTL DEF Spec

\* No stale row makes a season active or completed before its start date.
THEOREM SeasonsStarted == Spec => []StartedIfNotUpcoming
<1> QED
  BY SeasonsInit, SeasonsNext, SeasonsInv_Properties, PTL DEF Spec

-----------------------------------------------------------------------------
(* Calls that run one at a time *)

Ended(s) == s.status = "completed" => s.end # Null
Follows(s, t) == t.status = s.status \/ <<s.status, t.status>> \in ValidTransitions

\* What a call that has the table for itself may rely on.
Orderly(q, table) ==
  /\ \A i \in DOMAIN table : Ended(table[i])
  /\ q.pc = "insert" => Ended(q.row)
  /\ q.pc = "write" => Ended(q.row) /\ Follows(table[q.id], q.row)
  /\ q.pc = "load" => \/ q.status \in {Null, "active"}
                      \/ q.status = "completed" /\ (q.end = Null => table[q.id].end # Null)
  /\ q.pc = "scanUpcoming" => q.batch = "activating"
  /\ q.pc = "scanActive" => q.batch = "completing"

\* A season that is overdue at an instant.
LateStart(s, at) == s.status = "upcoming" /\ s.start <= at
LateEnd(s, at) == s.status = "active" /\ ~Before(at, s.end)
CaughtUp(table, at) == \A i \in DOMAIN table : ~LateStart(table[i], at) /\ ~LateEnd(table[i], at)

\* A pass of checkAndUpdateSeasonStatuses has the overdue seasons of its loop before it,
\* and in the second loop those of the first behind it.
Activating(q, table) ==
  /\ q.pc \in {"scanUpcoming", "activate", "load", "write"}
  /\ q.pc # "scanUpcoming" =>
       \A i \in DOMAIN table : LateStart(table[i], q.at) => i \in q.todo \/ i = q.id
  /\ q.pc \in {"activate", "load"} => q.end = Null
  /\ q.pc = "load" => q.status = "active"
  /\ q.pc = "write" => q.row.status = "active"
Completing(q, table) ==
  /\ q.pc \in {"scanActive", "complete", "load", "write"}
  /\ \A i \in DOMAIN table : ~LateStart(table[i], q.at)
  /\ q.pc # "scanActive" =>
       \A i \in DOMAIN table : LateEnd(table[i], q.at) => i \in q.todo \/ i = q.id
  /\ q.pc = "load" => q.status = "completed" /\ (q.end # Null => table[q.id].end = Null)
  /\ q.pc = "write" => q.row.status = "completed"
Diligent(q, table, t) ==
  /\ q.batch = "activating" => q.at <= t /\ Activating(q, table)
  /\ q.batch = "completing" => q.at <= t /\ Completing(q, table)

AloneInv ==
  \A o \in Ops : cast = {o} =>
    /\ Orderly(op[o], seasons)
    /\ o \notin Failing => Diligent(op[o], seasons, now)
    /\ \A p \in Ops : p # o => op[p] = IdleOp

\* What is left of the overdue seasons when the turn of one of them is over.
Remaining(q, rows, table) ==
  /\ q.batch = "activating" => \A i \in DOMAIN table : LateStart(table[i], q.at) => i \in rows
  /\ q.batch = "completing" =>
       /\ \A i \in DOMAIN table : ~LateStart(table[i], q.at)
       /\ \A i \in DOMAIN table : LateEnd(table[i], q.at) => i \in rows

LEMMA IdleCall == IdleOp.batch = "none" /\ IdleOp.pc = "idle" /\ IdleOp.end = Null
BY DEF IdleOp

LEMMA TurnedOn ==
  ASSUME NEW q0 \in Op, NEW rows, NEW q \in Op, Turned(q0, rows, q), NEW table,
         \A i \in DOMAIN table : Ended(table[i])
  PROVE  /\ Orderly(q, table)
         /\ \A t : q0.at <= t /\ Remaining(q0, rows, table) /\ q0.batch # "none" =>
              Diligent(q, table, t) /\ (q.pc = "idle" => CaughtUp(table, q0.at))
<1>1. q.pc \in {"activate", "complete", "scanActive", "idle"}
  BY IdleCall DEF Turned
<1>2. Orderly(q, table)
  BY <1>1, IdleCall DEF Orderly, Turned
<1>3. ASSUME NEW t, q0.at <= t, Remaining(q0, rows, table), q0.batch # "none"
      PROVE  Diligent(q, table, t) /\ (q.pc = "idle" => CaughtUp(table, q0.at))
  <2>1. q0.batch \in {"activating", "completing"}
    BY <1>3 DEF Op
  <2>2. CASE q.pc = "activate"
    BY <1>3, <2>2, IdleCall DEF Turned, Diligent, Activating, Remaining
  <2>3. CASE q.pc = "complete"
    BY <1>3, <2>1, <2>3, IdleCall DEF Turned, Diligent, Completing, Remaining
  <2>4. CASE q.pc = "scanActive"
    BY <1>3, <2>4, IdleCall DEF Turned, Diligent, Completing, Remaining
  <2>5. CASE q.pc = "idle"
    BY <1>3, <2>5, IdleCall DEF Turned, Diligent, Remaining, CaughtUp
  <2> QED BY <1>1, <2>2, <2>3, <2>4, <2>5
<1> QED BY <1>2, <1>3

\* The turn of a season that is overdue no more.
LEMMA SkipTurn ==
  ASSUME NEW q, NEW table, NEW t, Diligent(q, table, t),
         q.pc \notin {"scanUpcoming", "scanActive"},
         NEW next, DOMAIN next = DOMAIN table, \A i \in DOMAIN table : i # q.id => next[i] = table[i],
         q.id \in DOMAIN table /\ q.batch = "activating" => ~LateStart(next[q.id], q.at),
         q.id \in DOMAIN table /\ q.batch = "completing" =>
           ~LateStart(next[q.id], q.at) /\ ~LateEnd(next[q.id], q.at)
  PROVE  Remaining(q, q.todo, next)
<1>1. CASE q.batch = "activating"
  BY <1>1 DEF Diligent, Activating, Remaining
<1>2. CASE q.batch = "completing"
  <2>1. \A i \in DOMAIN next : ~LateStart(next[i], q.at)
    BY <1>2 DEF Diligent, Completing
  <2>2. \A i \in DOMAIN next : LateEnd(next[i], q.at) => i \in q.todo
    BY <1>2 DEF Diligent, Completing
  <2> QED BY <1>2, <2>1, <2>2 DEF Remaining
<1> QED BY <1>1, <1>2 DEF Remaining

\* What a step of a call that is alone leaves.
Outcome(o) ==
  /\ Orderly(op'[o], seasons')
  /\ o \notin Failing => Diligent(op'[o], seasons', now')
  /\ \A p \in Ops : p # o => op'[p] = IdleOp
  /\ TransitionAllowed
  /\ o \notin Failing /\ op[o].batch # "none" /\ op'[o].pc = "idle" =>
       CaughtUp(seasons', op[o].at)

LEMMA CallOutcome ==
  ASSUME SeasonsInv, AloneInv, NEW o \in Ops, cast = {o}, NEW q, Call(o, q),
         Orderly(q, seasons'), o \notin Failing => Diligent(q, seasons', now'), TransitionAllowed,
         o \notin Failing /\ op[o].batch # "none" /\ q.pc = "idle" => CaughtUp(seasons', op[o].at)
  PROVE  Outcome(o)
<1>1. op' = [op EXCEPT ![o] = q] /\ op \in [Ops -> Op]
  BY DEF Call, SeasonsInv
<1>2. op'[o] = q /\ \A p \in Ops : p # o => op'[p] = op[p]
  BY <1>1
<1> QED BY <1>2 DEF Outcome, AloneInv

LEMMA TableStays ==
  ASSUME UNCHANGED seasons
  PROVE  TransitionAllowed
BY DEF TransitionAllowed

LEMMA TurnOutcome ==
  ASSUME SeasonsInv, AloneInv, NEW o \in Ops, cast = {o},
         NEW rows \in SUBSET Rows, NextTurn(o, rows),
         \A i \in DOMAIN seasons' : Ended(seasons'[i]), TransitionAllowed,
         o \notin Failing => /\ op[o].batch # "none" /\ op[o].at <= now'
                             /\ Remaining(op[o], rows, seasons')
  PROVE  Outcome(o)
<1>1. PICK q \in Op : Call(o, q) /\ Turned(op[o], rows, q)
  BY NextTurnTurns
<1>0. PICK q0 \in Op : q0 = op[o]
  BY DEF SeasonsInv
<1>2. PICK table, t : table = seasons' /\ t = now'
  OBVIOUS
<1>3. Orderly(q, table)
  BY <1>0, <1>1, <1>2, TurnedOn
<1>4. o \notin Failing => Diligent(q, table, t) /\ (q.pc = "idle" => CaughtUp(table, q0.at))
  BY <1>0, <1>1, <1>2, TurnedOn
<1> QED BY <1>0, <1>1, <1>2, <1>3, <1>4, CallOutcome

LEMMA ReturnOutcome ==
  ASSUME SeasonsInv, AloneInv, NEW o \in Ops, cast = {o}, Return(o), UNCHANGED now,
         \A i \in DOMAIN seasons' : Ended(seasons'[i]), TransitionAllowed,
         o \notin Failing => Remaining(op[o], op[o].todo, seasons')
  PROVE  Outcome(o)
<1>1. CASE op[o].batch = "none"
  <2>1. Call(o, IdleOp)
    BY <1>1 DEF Return
  <2>2. Orderly(IdleOp, seasons') /\ Diligent(IdleOp, seasons', now')
    BY IdleCall DEF Orderly, Diligent
  <2> QED BY <1>1, <2>1, <2>2, CallOutcome
<1>2. CASE op[o].batch # "none"
  <2>a. op[o] \in Op /\ OpFine(op[o], seasons, now)
    BY DEF SeasonsInv
  <2>0. op[o] \in Op /\ op[o].todo \in SUBSET Rows
    BY <2>a DEF OpFine
  <2>1. NextTurn(o, op[o].todo)
    BY <1>2 DEF Return
  <2>2. op[o].batch \in {"activating", "completing"}
    BY <1>2, <2>0 DEF Op
  <2>3. o \notin Failing => op[o].at <= now'
    BY <2>2 DEF AloneInv, Diligent
  <2> QED BY <1>2, <2>0, <2>1, <2>3, TurnOutcome
<1> QED BY <1>1, <1>2

LEMMA AloneStep ==
  ASSUME SeasonsInv, AloneInv, NEW o \in Ops, cast = {o}, Next
  PROVE  Outcome(o)
<1>1. /\ op \in [Ops -> Op] /\ op[o] \in Op /\ OpFine(op[o], seasons, now)
      /\ Orderly(op[o], seasons) /\ (o \notin Failing => Diligent(op[o], seasons, now))
  BY DEF SeasonsInv, AloneInv
<1>2. /\ now \in Times /\ Rows \subseteq Ids /\ \A i \in Rows : seasons[i] \in Season /\ Ended(seasons[i])
  <2>1. now \in Times /\ Rows \subseteq Ids /\ \A i \in Rows : seasons[i] \in Season
    BY DEF SeasonsInv, TableFine, Fine
  <2>2. \A i \in Rows : Ended(seasons[i])
    BY <1>1 DEF Orderly
  <2> QED BY <2>1, <2>2
\* A call that goes on, or is over, and leaves the table as it is.
<1>g. ASSUME NEW q, Call(o, q), UNCHANGED <<now, seasons>>, Orderly(q, seasons),
             o \notin Failing => Diligent(q, seasons, now), q.pc # "idle"
      PROVE  Outcome(o)
  BY <1>g, TableStays, CallOutcome
<1>r. ASSUME Return(o), UNCHANGED <<now, seasons>>,
             o \notin Failing => Remaining(op[o], op[o].todo, seasons)
      PROVE  Outcome(o)
  <2>1. \A i \in DOMAIN seasons' : Ended(seasons'[i])
    BY <1>2, <1>r
  <2>2. o \notin Failing => Remaining(op[o], op[o].todo, seasons')
    BY <1>r
  <2> QED BY <1>r, <2>1, <2>2, TableStays, ReturnOutcome
\* A loop of the batch begins.
<1>t. ASSUME NEW rows \in SUBSET Rows, NextTurn(o, rows), UNCHANGED <<now, seasons>>,
             op[o].batch \in {"activating", "completing"},
             o \notin Failing => Remaining(op[o], rows, seasons)
      PROVE  Outcome(o)
  <2>1. \A i \in DOMAIN seasons' : Ended(seasons'[i])
    BY <1>2, <1>t
  <2>2. o \notin Failing => op[o].at <= now'
    BY <1>1, <1>t DEF Diligent
  <2>3. o \notin Failing => Remaining(op[o], rows, seasons')
    BY <1>t
  <2> QED BY <1>t, <2>1, <2>2, <2>3, TableStays, TurnOutcome
\* A call begins.
<1>s. ASSUME NEW q, Start(o, q), q.batch = "none",
             q.pc \notin {"insert", "write", "scanUpcoming", "scanActive", "idle"},
             q.pc = "load" => q.status = Null
      PROVE  Outcome(o)
  <2>1. Orderly(q, seasons) /\ Diligent(q, seasons, now)
    BY <1>1, <1>s DEF Orderly, Diligent
  <2> QED BY <1>g, <1>s, <2>1 DEF Start, Call
<1>3. CASE Tick
  <2>1. UNCHANGED <<seasons, op>> /\ now' = now + 1
    BY <1>3 DEF Tick
  <2>2. o \notin Failing => Diligent(op[o], seasons, now')
    BY <1>1, <1>2, <2>1 DEF Diligent, Op, Times
  <2>3. op[o].pc = "idle" => op[o].batch = "none" \/ o \in Failing
    BY <1>1 DEF Diligent, Activating, Completing, Op
  <2> QED BY <1>1, <2>1, <2>2, <2>3, TableStays DEF Outcome, AloneInv
<1>4. CASE CreateSeason(o)
  <2>1. PICK row : Start(o, [IdleOp EXCEPT !.pc = "overlap", !.row = row])
    BY <1>4 DEF CreateSeason
  <2>2. PICK q : q = [IdleOp EXCEPT !.pc = "overlap", !.row = row]
    OBVIOUS
  <2>3. q.pc = "overlap" /\ q.batch = "none"
    BY <2>2 DEF IdleOp
  <2> QED BY <1>s, <2>1, <2>2, <2>3
<1>5. CASE CheckOverlap(o)
  <2> DEFINE s == op[o].row
             status == IF s.start > now THEN "upcoming"
                       ELSE IF Before(now, s.end) THEN "active" ELSE "completed"
  <2>1. UNCHANGED <<now, seasons>> /\ op[o].pc = "overlap" /\ s \in Season
    BY <1>1, <1>5 DEF CheckOverlap, OpFine
  <2>2. o \notin Failing => op[o].batch = "none"
    BY <1>1, <2>1 DEF Diligent, Activating, Completing, Op
  <2>3. CASE Return(o)
    BY <1>r, <2>1, <2>2, <2>3 DEF Remaining
  <2>4. CASE Call(o, [op[o] EXCEPT !.pc = "insert", !.row.status = status])
    <3>1. PICK q : q = [op[o] EXCEPT !.pc = "insert", !.row.status = status]
      OBVIOUS
    <3>2. q.pc = "insert" /\ q.batch = op[o].batch /\ q.row = [s EXCEPT !.status = status]
      BY <1>1, <3>1 DEF Op
    <3>3. q.row.end = s.end /\ q.row.status = status
      BY <2>1, <3>2 DEF Season
    <3>4. Ended(q.row)
      BY <3>3 DEF Ended, Before
    <3>5. Orderly(q, seasons) /\ (o \notin Failing => Diligent(q, seasons, now))
      BY <1>1, <2>2, <3>2, <3>4 DEF Orderly, Diligent
    <3> QED BY <1>g, <2>1, <2>4, <3>1, <3>2, <3>5
  <2> QED BY <1>5, <2>3, <2>4 DEF CheckOverlap
<1>6. CASE InsertSeason(o)
  <2>1. op[o].pc = "insert" /\ Return(o) /\ UNCHANGED now /\ Ended(op[o].row)
    BY <1>1, <1>6 DEF InsertSeason, Orderly
  <2>2. o \notin Failing => op[o].batch = "none"
    BY <1>1, <2>1 DEF Diligent, Activating, Completing, Op
  <2>3. o \notin Failing => Remaining(op[o], op[o].todo, seasons')
    BY <2>2 DEF Remaining
  <2>4. CASE UNCHANGED seasons
    BY <1>r, <2>1, <2>2, <2>4 DEF Remaining
  <2>5. CASE ~UNCHANGED seasons
    <3>1. PICK id : /\ id = Cardinality(Rows) + 1
                    /\ seasons' = [i \in Rows \cup {id} |-> IF i = id THEN op[o].row ELSE seasons[i]]
      BY <1>6, <2>5 DEF InsertSeason
    <3>2. id \notin Rows
      <4>1. PICK n \in Nat : Rows = 1 .. n
        BY DEF SeasonsInv, TableFine, RowsCounted
      <4>2. Cardinality(1 .. n) = n
        BY FS_Interval
      <4> QED BY <3>1, <4>1, <4>2
    <3>3. /\ DOMAIN seasons' = Rows \cup {id}
          /\ \A i \in Rows \cup {id} : seasons'[i] = IF i = id THEN op[o].row ELSE seasons[i]
      BY <3>1
    <3>4. \A i \in DOMAIN seasons' : Ended(seasons'[i])
      BY <1>2, <2>1, <3>3
    <3>5. TransitionAllowed
      BY <3>2, <3>3 DEF TransitionAllowed
    <3> QED BY <2>1, <2>3, <3>4, <3>5, ReturnOutcome
  <2> QED BY <2>4, <2>5
<1>7. CASE UpdateSeason(o)
  <2>1. PICK i, e : Start(o, [IdleOp EXCEPT !.pc = "load", !.id = i, !.end = e])
    BY <1>7 DEF UpdateSeason
  <2>2. PICK q : q = [IdleOp EXCEPT !.pc = "load", !.id = i, !.end = e]
    OBVIOUS
  <2>3. q.pc = "load" /\ q.batch = "none" /\ q.status = Null
    BY <2>2 DEF IdleOp
  <2> QED BY <1>s, <2>1, <2>2, <2>3
<1>8. CASE ActivateSeason(o) \/ CompleteSeason(o)
  <2>1. PICK pc \in {"activate", "complete"}, i \in Rows : Start(o, [IdleOp EXCEPT !.pc = pc, !.id = i])
    BY <1>8 DEF ActivateSeason, CompleteSeason
  <2>2. PICK q : q = [IdleOp EXCEPT !.pc = pc, !.id = i]
    OBVIOUS
  <2>3. q.pc = pc /\ q.batch = "none"
    BY <2>2 DEF IdleOp
  <2> QED BY <1>s, <2>1, <2>2, <2>3
\* A turn ends at a season that is not overdue.
<1>n. ASSUME Return(o), UNCHANGED <<now, seasons>>, op[o].pc \in {"activate", "complete", "load"},
             o \notin Failing =>
               /\ op[o].batch = "activating" => ~LateStart(seasons[op[o].id], op[o].at)
               /\ op[o].batch = "completing" => ~LateEnd(seasons[op[o].id], op[o].at)
      PROVE  Outcome(o)
  <2>0. OpFine(op[o], seasons, now)
    BY <1>1
  <2>1. op[o].id \in Rows
    BY <1>n, <2>0 DEF OpFine
  <2>2. ASSUME o \notin Failing PROVE Remaining(op[o], op[o].todo, seasons)
    <3>1. op[o].batch = "completing" => ~LateStart(seasons[op[o].id], op[o].at)
      <4>1. Diligent(op[o], seasons, now)
        BY <1>1, <2>2
      <4> QED BY <2>1, <4>1 DEF Diligent, Completing
    <3>2. PICK q, table : q = op[o] /\ table = seasons
      OBVIOUS
    <3>3. Remaining(q, q.todo, table)
      BY <1>1, <1>n, <2>2, <3>1, <3>2, SkipTurn
    <3> QED BY <3>2, <3>3
  <2> QED BY <1>n, <1>r, <2>2
<1>9. CASE LoadSeason(o)
  <2> DEFINE s == seasons[op[o].id]
             row == [s EXCEPT !.end = IF op[o].end = Null THEN @ ELSE op[o].end,
                              !.status = IF op[o].status = Null THEN @ ELSE op[o].status]
  <2>1. UNCHANGED <<now, seasons>> /\ op[o].pc = "load" /\ op[o].id \in Rows /\ s \in Season /\ Ended(s)
    <3>1. UNCHANGED <<now, seasons>> /\ op[o].pc = "load"
      BY <1>9 DEF LoadSeason
    <3>2. OpFine(op[o], seasons, now)
      BY <1>1
    <3>3. op[o].id \in Rows
      BY <3>1, <3>2 DEF OpFine
    <3> QED BY <1>2, <3>1, <3>3
  <2>2. /\ o \notin Failing /\ op[o].batch = "activating" => op[o].status = "active" /\ op[o].end = Null
        /\ o \notin Failing /\ op[o].batch = "completing" =>
             op[o].status = "completed" /\ (op[o].end # Null => s.end = Null)
    BY <1>1, <2>1 DEF Diligent, Activating, Completing
  <2>3. CASE Return(o) /\ (\/ op[o].end # Null /\ op[o].end <= s.start
                           \/ op[o].status # Null /\ <<s.status, op[o].status>> \notin ValidTransitions)
    <3>1. o \notin Failing /\ op[o].batch = "activating" => ~LateStart(s, op[o].at)
      BY <2>2, <2>3 DEF ValidTransitions, LateStart
    <3>2. o \notin Failing /\ op[o].batch = "completing" => ~LateEnd(s, op[o].at)
      BY <2>2, <2>3, NullAssumption DEF ValidTransitions, LateEnd, Before
    <3> QED BY <1>n, <2>1, <2>3, <3>1, <3>2
  <2>4. CASE /\ Call(o, [op[o] EXCEPT !.pc = "write", !.row = row])
             /\ op[o].status # Null => <<s.status, op[o].status>> \in ValidTransitions
    <3>1. PICK q : q = [op[o] EXCEPT !.pc = "write", !.row = row]
      OBVIOUS
    <3>2. /\ q.pc = "write" /\ q.row = row /\ q.id = op[o].id /\ q.at = op[o].at
          /\ q.todo = op[o].todo /\ q.batch = op[o].batch
      BY <1>1, <3>1 DEF Op
    <3>3. /\ row.end = IF op[o].end = Null THEN s.end ELSE op[o].end
          /\ row.status = IF op[o].status = Null THEN s.status ELSE op[o].status
      BY <2>1 DEF Season
    <3>4. Ended(row)
      BY <1>1, <2>1, <3>3 DEF Ended, Orderly
    <3>5. Follows(s, row)
      BY <2>4, <3>3 DEF Follows
    <3> HIDE DEF row
    <3>6. Orderly(q, seasons)
      BY <1>1, <3>2, <3>4, <3>5 DEF Orderly
    <3>7. ASSUME o \notin Failing PROVE Diligent(q, seasons, now)
      <4>1. Diligent(op[o], seasons, now)
        BY <1>1, <3>7
      <4>2. q.batch = "activating" => row.status = "active"
        BY <2>2, <3>2, <3>3, <3>7, NullAssumption DEF Status
      <4>3. q.batch = "completing" => row.status = "completed"
        BY <2>2, <3>2, <3>3, <3>7, NullAssumption DEF Status
      <4> QED BY <2>1, <3>2, <4>1, <4>2, <4>3 DEF Diligent, Activating, Completing
    <3> QED BY <1>g, <2>1, <2>4, <3>1, <3>2, <3>6, <3>7
  <2> HIDE DEF row
  <2> QED BY <1>9, <2>3, <2>4 DEF LoadSeason, row
<1>10. CASE WriteSeason(o)
  <2>1. /\ UNCHANGED now /\ op[o].pc = "write" /\ Return(o)
        /\ seasons' = [seasons EXCEPT ![op[o].id] = op[o].row]
    BY <1>10 DEF WriteSeason
  <2>2. op[o].id \in Rows
    BY <1>1, <2>1 DEF OpFine
  <2>3. PICK q, table, next : q = op[o] /\ table = seasons /\ next = seasons'
    OBVIOUS
  <2>4. Ended(q.row) /\ Follows(table[q.id], q.row)
    BY <1>1, <2>1, <2>3 DEF Orderly
  <2>5. /\ DOMAIN next = DOMAIN table /\ next[q.id] = q.row
        /\ \A i \in DOMAIN table : i # q.id => next[i] = table[i]
    BY <2>1, <2>2, <2>3
  <2>6. \A i \in DOMAIN next : Ended(next[i])
    BY <1>2, <2>3, <2>4, <2>5
  <2>7. TransitionAllowed
    <3>1. \A i \in DOMAIN table : Follows(table[i], next[i])
      BY <2>4, <2>5 DEF Follows
    <3> QED BY <2>3, <3>1 DEF Follows, TransitionAllowed
  <2>8. ASSUME o \notin Failing PROVE Remaining(q, q.todo, next)
    <3>1. Diligent(q, table, now)
      BY <1>1, <2>3, <2>8
    <3>2. /\ q.batch = "activating" => ~LateStart(next[q.id], q.at)
          /\ q.batch = "completing" => ~LateStart(next[q.id], q.at) /\ ~LateEnd(next[q.id], q.at)
      BY <2>1, <2>3, <2>5, <3>1 DEF Diligent, Activating, Completing, LateStart, LateEnd
    <3> QED BY <2>1, <2>3, <2>5, <3>1, <3>2, SkipTurn
  <2> QED BY <2>1, <2>3, <2>6, <2>7, <2>8, ReturnOutcome
<1>11. CASE CheckActivation(o)
  <2>1. UNCHANGED <<now, seasons>> /\ op[o].pc = "activate" /\ op[o].id \in Rows
    BY <1>1, <1>11 DEF CheckActivation, OpFine
  <2>2. o \notin Failing => op[o].batch # "completing" /\ (op[o].batch = "activating" => op[o].at <= now)
    BY <1>1, <2>1 DEF Diligent, Completing
  <2>3. CASE Return(o) /\ ~(seasons[op[o].id].status = "upcoming" /\ seasons[op[o].id].start <= now)
    <3>1. seasons[op[o].id] \in Season /\ op[o].at \in Times
      BY <1>1, <1>2, <2>1 DEF Op
    <3>2. o \notin Failing /\ op[o].batch = "activating" => ~LateStart(seasons[op[o].id], op[o].at)
      BY <1>2, <2>2, <2>3, <3>1 DEF LateStart, Season, Times
    <3> QED BY <1>n, <2>1, <2>2, <2>3, <3>2
  <2>4. CASE Call(o, [op[o] EXCEPT !.pc = "load", !.status = "active"])
    <3>1. PICK q : q = [op[o] EXCEPT !.pc = "load", !.status = "active"]
      OBVIOUS
    <3>2. /\ q.pc = "load" /\ q.status = "active" /\ q.id = op[o].id /\ q.at = op[o].at
          /\ q.todo = op[o].todo /\ q.batch = op[o].batch /\ q.end = op[o].end
      BY <1>1, <3>1 DEF Op
    <3>3. Orderly(q, seasons)
      BY <1>1, <3>2 DEF Orderly
    <3>4. o \notin Failing => Diligent(q, seasons, now)
      BY <1>1, <2>1, <2>2, <3>2 DEF Diligent, Activating
    <3> QED BY <1>g, <2>1, <2>4, <3>1, <3>2, <3>3, <3>4
  <2> QED BY <1>11, <2>3, <2>4 DEF CheckActivation
<1>12. CASE CheckCompletion(o)
  <2> DEFINE s == seasons[op[o].id]
             end == IF s.end = Null THEN now ELSE Null
  <2>1. UNCHANGED <<now, seasons>> /\ op[o].pc = "complete" /\ op[o].id \in Rows
    BY <1>1, <1>12 DEF CheckCompletion, OpFine
  <2>2. o \notin Failing => op[o].batch # "activating"
    BY <1>1, <2>1 DEF Diligent, Activating
  <2>3. CASE Return(o) /\ s.status # "active"
    BY <1>n, <2>1, <2>2, <2>3 DEF LateEnd
  <2>4. CASE Call(o, [op[o] EXCEPT !.pc = "load", !.status = "completed", !.end = end])
    <3>1. PICK q : q = [op[o] EXCEPT !.pc = "load", !.status = "completed", !.end = end]
      OBVIOUS
    <3>2. /\ q.pc = "load" /\ q.status = "completed" /\ q.id = op[o].id /\ q.at = op[o].at
          /\ q.todo = op[o].todo /\ q.batch = op[o].batch /\ q.end = end
      BY <1>1, <3>1 DEF Op
    <3>3. /\ q.end = Null => s.end # Null
          /\ q.end # Null => s.end = Null
      BY <1>2, <3>2, NullAssumption DEF Times
    <3>4. Orderly(q, seasons)
      BY <1>1, <3>2, <3>3 DEF Orderly
    <3>5. o \notin Failing => Diligent(q, seasons, now)
      BY <1>1, <2>1, <2>2, <3>2, <3>3 DEF Diligent, Completing
    <3> QED BY <1>g, <2>1, <2>4, <3>1, <3>2, <3>4, <3>5
  <2> QED BY <1>12, <2>3, <2>4 DEF CheckCompletion
<1>13. CASE CheckAndUpdateSeasonStatuses(o)
  <2>1. PICK q : /\ q = [IdleOp EXCEPT !.pc = "scanUpcoming", !.at = now, !.batch = "activating"]
                 /\ Start(o, q)
    BY <1>13 DEF CheckAndUpdateSeasonStatuses
  <2>2. q.pc = "scanUpcoming" /\ q.at = now /\ q.batch = "activating"
    BY <2>1 DEF IdleOp
  <2>3. Orderly(q, seasons) /\ Diligent(q, seasons, now)
    BY <1>1, <1>2, <2>2 DEF Orderly, Diligent, Activating, Times
  <2> QED BY <1>g, <2>1, <2>2, <2>3 DEF Start, Call
<1>14. CASE ScanUpcoming(o)
  <2>1. PICK rows \in SUBSET Rows :
          /\ rows = {i \in Rows : seasons[i].status = "upcoming" /\ seasons[i].start <= op[o].at}
          /\ NextTurn(o, rows)
    BY <1>14 DEF ScanUpcoming
  <2>2. UNCHANGED <<now, seasons>> /\ op[o].pc = "scanUpcoming"
    BY <1>14 DEF ScanUpcoming
  <2>3. op[o].batch = "activating"
    BY <1>1, <2>2 DEF Orderly
  <2>4. Remaining(op[o], rows, seasons)
    BY <2>1, <2>3 DEF Remaining, LateStart
  <2> QED BY <1>t, <2>1, <2>2, <2>3, <2>4
<1>15. CASE ScanActive(o)
  <2>1. PICK rows \in SUBSET Rows :
          /\ rows = {i \in Rows : /\ seasons[i].status = "active" /\ seasons[i].end # Null
                                  /\ seasons[i].end <= op[o].at}
          /\ NextTurn(o, rows)
    BY <1>15 DEF ScanActive
  <2>2. UNCHANGED <<now, seasons>> /\ op[o].pc = "scanActive"
    BY <1>15 DEF ScanActive
  <2>3. op[o].batch = "completing" /\ op[o].at \in Times
    BY <1>1, <2>2 DEF Orderly, Op
  <2>4. ASSUME o \notin Failing PROVE Remaining(op[o], rows, seasons)
    <3>1. \A i \in Rows : ~LateStart(seasons[i], op[o].at)
      BY <1>1, <2>3, <2>4 DEF Diligent, Completing
    <3>2. ASSUME NEW i \in Rows, LateEnd(seasons[i], op[o].at) PROVE i \in rows
      <4>1. seasons[i].end \in Times \cup {Null}
        BY <1>2 DEF Season
      <4> QED BY <2>1, <2>3, <3>2, <4>1 DEF LateEnd, Before, Times
    <3> QED BY <2>3, <3>1, <3>2 DEF Remaining
  <2> QED BY <1>t, <2>1, <2>2, <2>3, <2>4
<1>16. CASE Fail(o)
  <2>1. UNCHANGED <<now, seasons>> /\ o \in Failing
    BY <1>16 DEF Fail
  <2>2. CASE Call(o, IdleOp)
    <3>1. Orderly(IdleOp, seasons)
      BY <1>2, IdleCall DEF Orderly
    <3> QED BY <1>2, <2>1, <2>2, <3>1, TableStays, CallOutcome
  <2>3. CASE Return(o)
    BY <1>r, <2>1, <2>3
  <2> QED BY <1>16, <2>2, <2>3 DEF Fail
<1> QED
  BY <1>3, <1>4, <1>5, <1>6, <1>7, <1>8, <1>9, <1>10, <1>11, <1>12, <1>13, <1>14, <1>15, <1>16 DEF Next

LEMMA AloneInit == Init => AloneInv
<1>1. SUFFICES ASSUME Init PROVE AloneInv
  OBVIOUS
<1>2. op = [o \in Ops |-> IdleOp] /\ DOMAIN seasons = {} /\ \A o \in Ops : op[o] = IdleOp
  BY <1>1 DEF Init
<1>3. Orderly(IdleOp, seasons) /\ Diligent(IdleOp, seasons, now)
  BY <1>2, IdleCall DEF Orderly, Diligent
<1> QED BY <1>2, <1>3 DEF AloneInv

LEMMA AloneNext == SeasonsInv /\ AloneInv /\ [Next]_vars => AloneInv'
<1>1. SUFFICES ASSUME SeasonsInv, AloneInv, [Next]_vars PROVE AloneInv'
  OBVIOUS
<1>2. CASE UNCHANGED vars
  BY <1>1, <1>2 DEF AloneInv, vars
<1>3. CASE Next
  <2>1. cast' = cast
    BY <1>3 DEF Next, Tick, Start, CreateSeason, CheckOverlap, InsertSeason, UpdateSeason, LoadSeason,
                WriteSeason, ActivateSeason, CheckActivation, CompleteSeason, CheckCompletion,
                CheckAndUpdateSeasonStatuses, ScanUpcoming, ScanActive, Fail
  <2>2. \A o \in Ops : cast = {o} => Outcome(o)
    BY <1>1, <1>3, AloneStep
  <2> QED BY <2>1, <2>2 DEF Outcome, AloneInv
<1> QED BY <1>1, <1>2, <1>3

LEMMA AloneAlways == Spec => [](SeasonsInv /\ AloneInv)
<1>1. Init => SeasonsInv /\ AloneInv
  BY SeasonsInit, AloneInit
<1>2. SeasonsInv /\ AloneInv /\ [Next]_vars => (SeasonsInv /\ AloneInv)'
  BY SeasonsNext, AloneNext
<1> QED BY <1>1, <1>2, PTL DEF Spec

\* Whatever a call that runs alone does, a completed season has an end date: completeSeason
\* supplies the missing one before updateSeason finds the row again.
THEOREM CompletedSeasonsEnd == Spec => []CompletedHasEnd
<1>1. SeasonsInv /\ AloneInv => CompletedHasEnd
  BY DEF AloneInv, Orderly, Ended, CompletedHasEnd, Alone
<1> QED BY <1>1, AloneAlways, PTL

\* A status only changes along validateStatusTransition while one call runs at a time: the
\* row updateSeason writes was found in the status it has when it is written.
THEOREM StatusesFollow == Spec => StatusFollowsAlone
<1>1. SeasonsInv /\ AloneInv /\ [Next]_vars => [Alone => TransitionAllowed]_vars
  BY AloneStep DEF Alone, Outcome
<1> QED BY <1>1, AloneAlways, PTL DEF Spec, StatusFollowsAlone

\* A pass of checkAndUpdateSeasonStatuses that runs alone and whose calls do not reject
\* leaves no season overdue at the instant it started.
THEOREM BatchLeavesNoneOverdue == Spec => BatchCatchesUp
<1> DEFINE Clear(o) ==
      \A i \in DOMAIN seasons' :
          \/ seasons'[i].status = "completed"
          \/ seasons'[i].status = "upcoming" /\ seasons'[i].start > op[o].at
          \/ seasons'[i].status = "active" /\ Before(op[o].at, seasons'[i].end)
    CatchUp == Alone /\ cast \cap Failing = {} => \A o \in Ops :
                 op[o].batch # "none" /\ op'[o].pc = "idle" => Clear(o)
<1>1. ASSUME SeasonsInv, AloneInv, Next PROVE CatchUp
  <2>1. SUFFICES ASSUME NEW p \in Ops, cast = {p}, p \notin Failing, NEW o \in Ops,
                        op[o].batch # "none", op'[o].pc = "idle"
                 PROVE  Clear(o)
    BY DEF Alone
  <2>2. o = p
    BY <1>1, <2>1, IdleCall DEF AloneInv
  <2>3. CaughtUp(seasons', op[o].at)
    BY <1>1, <2>1, <2>2, AloneStep DEF Outcome
  <2>4. \A i \in DOMAIN seasons' : seasons'[i] \in Season
    BY <1>1, SeasonsNext DEF SeasonsInv, TableFine, Fine
  <2>5. op[o].at \in Times
    BY <1>1 DEF SeasonsInv, Op
  <2> QED BY <2>3, <2>4, <2>5 DEF CaughtUp, LateStart, LateEnd, Season, Status, Times
<1>2. SeasonsInv /\ AloneInv /\ [Next]_vars => [CatchUp]_vars
  BY <1>1
<1> QED BY <1>2, AloneAlways, PTL DEF Spec, BatchCatchesUp
==============================================================================
