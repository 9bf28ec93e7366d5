-------------------------- MODULE FFDBQuery_proofs --------------------------
(***************************************************************************)
(* Proofs about FFDBQuery, for every set of databases, vectors and limits; *)
(* at the end, that it implements RowStream.                               *)
(***************************************************************************)
EXTENDS FFDBQueryStream, TLAPS

\* Who holds the query object, told by the two semaphores: at most one request
\* or one answer is under way, and the end of the search leaves search_sem set.
HandInv ==
    /\ Deleted => buffer_limit = 0
    /\ tpc \in {"start", "first"} =>
          /\ mpc \in {"idle", "getvalue", "release", "wait", "dtor", "join"}
          /\ search_sem = IF mpc \in {"wait", "join"} THEN 1 ELSE 0
          /\ results_sem = 0
          /\ mpc \in {"getvalue", "release", "wait"} => records # NoVector
    /\ tpc \notin {"start", "first"} /\ bound = NoVector => mpc \in {"join", "gone"}
    /\ tpc \in Running =>
          /\ mpc \in {"wait", "join"}
          /\ results_sem = 0
          /\ search_sem = IF tpc = "post" THEN 1 ELSE 0
    /\ tpc = "turn" =>
          /\ mpc # "gone"
          /\ search_sem + results_sem = IF mpc \in {"wait", "join"} THEN 1 ELSE 0
    /\ tpc = "exit" =>
          /\ mpc # "release"
          /\ mpc = "wait" => search_sem = 1 /\ results_sem = 1
          /\ mpc \in {"idle", "getvalue", "collect", "dtor"} =>
                search_sem = 1 /\ results_sem = 0
          /\ mpc \in {"join", "gone"} =>
                search_sem >= 1 /\ search_sem + results_sem = 2

\* The search thread fills the batch of the call in progress, and of no other.
BatchInv ==
    /\ mpc \in {"getvalue", "release", "wait", "collect"} => want > 0
    /\ mpc \in {"getvalue", "release"} => num_fetched = 0
    /\ mpc \in {"release", "wait"} => buffer_limit = want
    /\ mpc \in {"wait", "collect"} => num_fetched <= want
    /\ mpc = "wait" /\ tpc \in {"start", "first"} => num_fetched = 0
    /\ mpc = "wait" /\ tpc = "turn" /\ search_sem = 1 => num_fetched = 0
    /\ mpc = "wait" /\ tpc = "push" => num_fetched < want

IInv == TypeOK /\ HandInv /\ BatchInv

\* The moves of the search lead from place to place.
LEMMA Moves ==
    ASSUME NEW p \in Place
    PROVE  /\ Spot(0, 0, 0, 0, 0) \in Place
           /\ Spot(p.s + 1, 0, 0, 0, 0) \in Place
           /\ Spot(p.s, p.d + 1, 0, 0, 0) \in Place
           /\ Spot(p.s, p.d, p.f + 1, 0, 0) \in Place
           /\ Spot(p.s, p.d, p.f, p.r + 1, 0) \in Place
           /\ Spot(0, 0, 0, 1, 0) \in Place
           /\ Spot(0, 0, 0, p.r + 1, 0) \in Place
           /\ Spot(0, 0, 0, p.r, p.c + 1) \in Place
  BY DEF Spot, Place

\* The invariant holds when queryTable has made the query.
LEMMA InitInv == Init => IInv
<1> SUFFICES ASSUME Init PROVE IInv
  OBVIOUS
<1>1. at \in Place
  BY DEF Init, Spot, Place
<1>2. out \in [Vectors -> Seq(Place)]
  BY DEF Init
<1>3. dirRet \in BOOLEAN /\ search_error \in BOOLEAN
  BY DEF Init
<1>4. tpc \in Running \cup Parked
  BY DEF Init, Parked
<1>5. TypeOK
  BY <1>1, <1>2, <1>3, <1>4 DEF Init, TypeOK
<1>6. HandInv /\ BatchInv
  BY DEF Init, HandInv, BatchInv, Running, Deleted
<1>7. QED
  BY <1>5, <1>6 DEF IInv

\* A step that moves the search and hands nothing over keeps the invariant.
LEMMA WalkInv ==
    ASSUME IInv,
           tpc \in {"station", "dir", "file", "row", "static"},
           tpc' \in {"station", "dir", "file", "row", "static", "match", "end"},
           at' \in Place, dirRet' \in BOOLEAN, search_error' \in BOOLEAN,
           UNCHANGED <<caller, bound, buffer_limit, num_fetched, records, sems, out, db>>
    PROVE  IInv'
  BY DEF IInv, TypeOK, HandInv, BatchInv, Running, Parked, Deleted, caller, sems

\* Every step of the two threads keeps the invariant.
LEMMA StepInv == IInv /\ [Next]_vars => IInv'
<1> SUFFICES ASSUME IInv, [Next]_vars PROVE IInv'
  OBVIOUS
<1>0. at \in Place /\ dirRet \in BOOLEAN /\ search_error \in BOOLEAN
  BY DEF IInv, TypeOK
<1>1. ASSUME NEW n \in Limits, NEW v \in Vectors, GetResults(n, v) PROVE IInv'
  BY <1>1, VectorsAssumption, LimitsAssumption DEF GetResults, IInv, TypeOK, HandInv, BatchInv, Running, Parked,
       Deleted, caller, search, fields, sems
<1>2. CASE GetValue
  BY <1>2 DEF GetValue, IInv, TypeOK, HandInv, BatchInv, Running, Parked,
       Deleted, caller, search, fields, sems
<1>3. CASE PostSearch
  BY <1>3 DEF PostSearch, IInv, TypeOK, HandInv, BatchInv, Running, Parked,
       Deleted, caller, search, fields, sems
<1>4. CASE WaitResults
  BY <1>4 DEF WaitResults, IInv, TypeOK, HandInv, BatchInv, Running, Parked,
       Deleted, caller, search, fields, sems
<1>5. CASE Collect
  BY <1>5 DEF Collect, IInv, TypeOK, HandInv, BatchInv, Running, Parked,
       Deleted, caller, search, fields, sems
<1>6. CASE Delete
  BY <1>6 DEF Delete, IInv, TypeOK, HandInv, BatchInv, Running, Parked,
       Deleted, caller, search, fields, sems
<1>7. CASE DeletePost
  BY <1>7 DEF DeletePost, IInv, TypeOK, HandInv, BatchInv, Running, Parked,
       Deleted, caller, search, fields, sems
<1>8. CASE Join
  BY <1>8 DEF Join, IInv, TypeOK, HandInv, BatchInv, Running, Parked,
       Deleted, caller, search, fields, sems
<1>9. CASE SearchStart
  BY <1>9 DEF SearchStart, IInv, TypeOK, HandInv, BatchInv, Running, Parked,
       Deleted, caller, search, fields, sems
<1>10. CASE SearchFirst
  <2>1. at' \in Place
    BY <1>10, <1>0, Moves DEF SearchFirst
  <2>2. QED
    BY <1>10, <2>1 DEF SearchFirst, IInv, TypeOK, HandInv, BatchInv, Running, Parked,
       Deleted, caller, search, fields, sems
<1>11. CASE NextStation
  <2>1. at' \in Place
    BY <1>11, <1>0, Moves DEF NextStation
  <2>2. dirRet' \in BOOLEAN /\ search_error' \in BOOLEAN
    BY <1>11, <1>0 DEF NextStation
  <2>3. QED
    BY <1>11, <2>1, <2>2, WalkInv DEF NextStation
<1>12. CASE NextDir
  <2>1. at' \in Place
    BY <1>12, <1>0, Moves DEF NextDir
  <2>2. dirRet' \in BOOLEAN /\ search_error' \in BOOLEAN
    BY <1>12, <1>0 DEF NextDir
  <2>3. QED
    BY <1>12, <2>1, <2>2, WalkInv DEF NextDir
<1>13. CASE NextFile
  <2>1. at' \in Place
    BY <1>13, <1>0, Moves DEF NextFile
  <2>2. dirRet' \in BOOLEAN /\ search_error' \in BOOLEAN
    BY <1>13, <1>0 DEF NextFile
  <2>3. QED
    BY <1>13, <2>1, <2>2, WalkInv DEF NextFile
<1>14. CASE NextRow
  <2>1. at' \in Place
    BY <1>14, <1>0, Moves DEF NextRow
  <2>2. dirRet' \in BOOLEAN /\ search_error' \in BOOLEAN
    BY <1>14, <1>0 DEF NextRow
  <2>3. QED
    BY <1>14, <2>1, <2>2, WalkInv DEF NextRow
<1>15. CASE NextStatic
  <2>1. at' \in Place
    BY <1>15, <1>0, Moves DEF NextStatic
  <2>2. dirRet' \in BOOLEAN /\ search_error' \in BOOLEAN
    BY <1>15, <1>0 DEF NextStatic, search, fields
  <2>3. QED
    BY <1>15, <2>1, <2>2, WalkInv DEF NextStatic, search, fields
<1>16. CASE Match
  BY <1>16 DEF Match, IInv, TypeOK, HandInv, BatchInv, Running, Parked,
       Deleted, caller, search, fields, sems
<1>17. CASE Turn
  BY <1>17 DEF Turn, IInv, TypeOK, HandInv, BatchInv, Running, Parked,
       Deleted, caller, search, fields, sems
<1>18. CASE Push
  <2>1. buffer_limit > 0 => bound \in Vectors
    BY <1>18 DEF Push, IInv, TypeOK, HandInv, Running, Deleted
  <2>2. out' \in [Vectors -> Seq(Place)]
    <3>1. out \in [Vectors -> Seq(Place)]
      BY DEF IInv, TypeOK
    <3>2. CASE buffer_limit > 0
      <4>1. Append(out[bound], at) \in Seq(Place)
        BY <3>1, <3>2, <2>1, <1>0
      <4>2. out' = [out EXCEPT ![bound] = Append(out[bound], at)]
        BY <1>18, <3>2 DEF Push, IInv, TypeOK
      <4>3. QED
        BY <4>1, <4>2, <3>1
    <3>3. CASE ~(buffer_limit > 0)
      BY <1>18, <3>1, <3>3 DEF Push
    <3>4. QED
      BY <3>2, <3>3
  <2>3. TypeOK'
    BY <1>18, <2>2 DEF Push, IInv, TypeOK, Running, caller, sems
  <2>4. HandInv' /\ BatchInv'
    BY <1>18 DEF Push, IInv, TypeOK, HandInv, BatchInv, Running, Deleted, caller, sems
  <2>5. QED
    BY <2>3, <2>4 DEF IInv
<1>19. CASE End
  BY <1>19 DEF End, IInv, TypeOK, HandInv, BatchInv, Running, Parked,
       Deleted, caller, search, fields, sems
<1>20. CASE EndResults
  BY <1>20 DEF EndResults, IInv, TypeOK, HandInv, BatchInv, Running, Parked,
       Deleted, caller, search, fields, sems
<1>21. CASE UNCHANGED vars
  BY <1>21 DEF vars, IInv, TypeOK, HandInv, BatchInv, Running, Parked,
       Deleted, caller, search, fields, sems
<1>22. QED
  BY <1>1, <1>2, <1>3, <1>4, <1>5, <1>6, <1>7, <1>8, <1>9, <1>10, <1>11, <1>12,
     <1>13, <1>14, <1>15, <1>16, <1>17, <1>18, <1>19, <1>20, <1>21
     DEF Next, Call, Caller, Search, Freed

\* getResults, ~FFDBQuery and FFDBSearch keep the semaphores as HandInv tells.
THEOREM Invariance == Spec => []IInv
  BY InitInv, StepInv, PTL DEF Spec

\* The values of the fields, of the semaphores and of the cursor keep their types.
THEOREM TypeCorrect == Spec => []TypeOK
<1>1. IInv => TypeOK
  BY DEF IInv
<1>2. QED
  BY <1>1, Invariance, PTL

\* The search thread touches nothing while the caller is outside the blocking
\* calls, without a lock: the invariant says which semaphore holds the token.
THEOREM MutualExclusion == Spec => []Exclusive
<1>1. IInv => Exclusive
  BY DEF IInv, TypeOK, HandInv, Exclusive
<1>2. QED
  BY <1>1, Invariance, PTL

\* No call of getResults starts with a post of results_sem left over, and once
\* the search is over, the caller can tell.
THEOREM PostsAreClear == Spec => []PostsMatch
<1>1. IInv => PostsMatch
  BY DEF IInv, TypeOK, HandInv, PostsMatch, Running, Parked
<1>2. QED
  BY <1>1, Invariance, PTL

\* A batch is never larger than the caller asked for, and no row is pushed before
\* a call has set the vector.
THEOREM BatchFits == Spec => []BatchBound
<1>1. IInv => BatchBound
  <2>1. IInv => (mpc \in {"wait", "collect"} => num_fetched <= want)
    BY DEF IInv, BatchInv
  <2>2. IInv => (tpc = "push" /\ buffer_limit > 0 => bound # NoVector)
    BY DEF IInv, TypeOK, HandInv, Deleted, Running
  <2>3. QED
    BY <2>1, <2>2 DEF BatchBound
<1>2. QED
  BY <1>1, Invariance, PTL

-----------------------------------------------------------------------------
(* The order of the rows *)

\* The thread holds a row that it has not handed over yet.
Held == {"match", "turn", "push"}

\* A static search moves along the table only, the other searches never do.
CursorInv ==
    /\ InStatic => at.s = 0 /\ at.d = 0 /\ at.f = 0
    /\ tpc = "static" => InStatic
    /\ tpc \in {"station", "dir", "file", "row"} => ~InStatic
    /\ tpc \in {"start", "first"} => \A v \in Vectors : out[v] = <<>>
    /\ tpc \in {"start", "first"} => bound = NoVector

\* The rows handed over lie before the cursor, in order.
OrderInv ==
    /\ \A i \in DOMAIN Given :
          Before(Given[i], at) \/ (Given[i] = at /\ tpc \notin Held)
    /\ InOrder

\* The order of the search is an order.
LEMMA BeforeTransitive ==
    ASSUME NEW p \in Place, NEW q \in Place, NEW r \in Place,
           Before(p, q), Before(q, r)
    PROVE  Before(p, r)
  BY DEF Before, Place

\* Every move of the search goes forward.
LEMMA MovesForward ==
    ASSUME NEW p \in Place
    PROVE  /\ Before(p, Spot(p.s + 1, 0, 0, 0, 0))
           /\ Before(p, Spot(p.s, p.d + 1, 0, 0, 0))
           /\ Before(p, Spot(p.s, p.d, p.f + 1, 0, 0))
           /\ Before(p, Spot(p.s, p.d, p.f, p.r + 1, 0))
           /\ p.s = 0 /\ p.d = 0 /\ p.f = 0 =>
                 /\ Before(p, Spot(0, 0, 0, p.r + 1, 0))
                 /\ Before(p, Spot(0, 0, 0, p.r, p.c + 1))
  BY DEF Before, Spot, Place

\* What has been handed over is a sequence of places.
LEMMA GivenType == IInv => Given \in Seq(Place)
  BY DEF IInv, TypeOK, Given

\* A step that hands nothing over and moves the cursor forward, if at all.
LEMMA OrderWalk ==
    ASSUME IInv, OrderInv, tpc \notin Held, at' \in Place,
           Before(at, at') \/ (at' = at /\ tpc' \notin Held), Given' = Given
    PROVE  OrderInv'
<1>1. InOrder'
  BY DEF OrderInv, InOrder
<1>2. ASSUME NEW i \in DOMAIN Given
      PROVE  Before(Given[i], at') \/ (Given[i] = at' /\ tpc' \notin Held)
  <2>1. Given[i] \in Place /\ at \in Place
    BY GivenType DEF IInv, TypeOK
  <2>2. Before(Given[i], at) \/ Given[i] = at
    BY DEF OrderInv
  <2>3. QED
    BY <2>1, <2>2, BeforeTransitive
<1>3. QED
  BY <1>1, <1>2 DEF OrderInv

\* Nothing has been handed over at the start.
LEMMA CursorInit == Init => CursorInv /\ OrderInv
<1> SUFFICES ASSUME Init PROVE CursorInv /\ OrderInv
  OBVIOUS
<1>1. Given = <<>>
  BY DEF Init, Given
<1>2. OrderInv
  BY <1>1 DEF OrderInv, InOrder
<1>3. CursorInv
  BY DEF Init, CursorInv, Spot
<1>4. QED
  BY <1>2, <1>3

\* The search never goes back.
LEMMA CursorStep == IInv /\ CursorInv /\ [Next]_vars => CursorInv'
<1> SUFFICES ASSUME IInv, CursorInv, [Next]_vars PROVE CursorInv'
  OBVIOUS
<1>1. ASSUME NEW n \in Limits, NEW v \in Vectors, GetResults(n, v) PROVE CursorInv'
  BY <1>1 DEF GetResults, CursorInv, InStatic, search
<1>2. CASE GetValue
  BY <1>2 DEF GetValue, CursorInv, InStatic, search
<1>3. CASE PostSearch
  BY <1>3 DEF PostSearch, CursorInv, InStatic, search
<1>4. CASE WaitResults
  BY <1>4 DEF WaitResults, CursorInv, InStatic, search
<1>5. CASE Collect
  BY <1>5 DEF Collect, CursorInv, InStatic, search
<1>6. CASE Delete
  BY <1>6 DEF Delete, CursorInv, InStatic, search
<1>7. CASE DeletePost
  BY <1>7 DEF DeletePost, CursorInv, InStatic, search
<1>8. CASE Join
  BY <1>8 DEF Join, CursorInv, InStatic, search
<1>9. CASE SearchStart
  BY <1>9 DEF SearchStart, CursorInv, InStatic
<1>10. CASE SearchFirst
  BY <1>10 DEF SearchFirst, CursorInv, InStatic, Spot
<1>11. CASE NextStation
  BY <1>11 DEF NextStation, CursorInv, InStatic
<1>12. CASE NextDir
  BY <1>12 DEF NextDir, CursorInv, InStatic
<1>13. CASE NextFile
  BY <1>13 DEF NextFile, CursorInv, InStatic
<1>14. CASE NextRow
  BY <1>14 DEF NextRow, CursorInv, InStatic
<1>15. CASE NextStatic
  BY <1>15 DEF NextStatic, CursorInv, InStatic, Spot
<1>16. CASE Match
  BY <1>16 DEF Match, CursorInv, InStatic
<1>17. CASE Turn
  BY <1>17 DEF Turn, CursorInv, InStatic
<1>18. CASE Push
  BY <1>18 DEF Push, CursorInv, InStatic
<1>19. CASE End
  BY <1>19 DEF End, CursorInv, InStatic
<1>20. CASE EndResults
  BY <1>20 DEF EndResults, CursorInv, InStatic
<1>21. CASE UNCHANGED vars
  BY <1>21 DEF vars, CursorInv, InStatic, search
<1>22. QED
  BY <1>1, <1>2, <1>3, <1>4, <1>5, <1>6, <1>7, <1>8, <1>9, <1>10, <1>11, <1>12,
     <1>13, <1>14, <1>15, <1>16, <1>17, <1>18, <1>19, <1>20, <1>21
     DEF Next, Call, Caller, Search, Freed

\* Only Push changes what has been handed over, and it appends the row held.
LEMMA PushGiven ==
    ASSUME IInv, CursorInv, Push, buffer_limit > 0
    PROVE  Given' = Append(Given, at)
<1>1. bound \in Vectors /\ bound # NoVector /\ out \in [Vectors -> Seq(Place)]
  BY VectorsAssumption DEF Push, IInv, TypeOK, HandInv, Running, Deleted
<1>2. out' = [out EXCEPT ![bound] = Append(out[bound], at)] /\ bound' = bound
  BY DEF Push, IInv, TypeOK
<1>3. QED
  BY <1>1, <1>2 DEF Given

\* A row that is pushed comes after all that were pushed.
LEMMA OrderStep == IInv /\ CursorInv /\ OrderInv /\ [Next]_vars => OrderInv'
<1> SUFFICES ASSUME IInv, CursorInv, OrderInv, [Next]_vars PROVE OrderInv'
  OBVIOUS
<1>0. IInv' /\ at \in Place /\ at' \in Place
  BY StepInv DEF IInv, TypeOK
<1>1. CASE UNCHANGED <<at, tpc, bound, out>>
  BY <1>1 DEF OrderInv, InOrder, Given
<1>2. CASE SearchStart \/ SearchFirst
  <2>1. Given' = <<>>
    BY <1>0, <1>2 DEF SearchStart, SearchFirst, CursorInv, Given, IInv, TypeOK
  <2>2. QED
    BY <2>1 DEF OrderInv, InOrder
<1>3. CASE NextStation \/ NextDir \/ NextFile \/ NextRow \/ NextStatic
  <2>1. tpc \notin Held /\ Given' = Given
    BY <1>3 DEF NextStation, NextDir, NextFile, NextRow, NextStatic, Held, Given
  <2>2. Before(at, at') \/ (at' = at /\ tpc' \notin Held)
    <3>1. CASE NextStation
      BY <1>0, <3>1, MovesForward DEF NextStation, Held
    <3>2. CASE NextDir
      BY <1>0, <3>2, MovesForward DEF NextDir, Held
    <3>3. CASE NextFile
      BY <1>0, <3>3, MovesForward DEF NextFile, Held
    <3>4. CASE NextRow
      BY <1>0, <3>4, MovesForward DEF NextRow, Held
    <3>5. CASE NextStatic
      BY <1>0, <3>5, MovesForward DEF NextStatic, Held, CursorInv
    <3>6. QED
      BY <1>3, <3>1, <3>2, <3>3, <3>4, <3>5
  <2>3. QED
    BY <1>0, <2>1, <2>2, OrderWalk
<1>4. CASE Match \/ Turn
  BY <1>4 DEF Match, Turn, OrderInv, InOrder, Given, Held
<1>5. CASE Push /\ buffer_limit > 0
  <2>1. Given' = Append(Given, at) /\ at' = at /\ tpc' \notin Held /\ tpc \in Held
    BY <1>5, PushGiven DEF Push, Held
  <2>2. Given \in Seq(Place)
    BY GivenType
  <2>3. \A i \in DOMAIN Given : Before(Given[i], at)
    BY <2>1 DEF OrderInv
  <2>4. \A i \in DOMAIN Given' : Before(Given'[i], at') \/ Given'[i] = at'
    BY <1>0, <2>1, <2>2, <2>3
  <2>5. InOrder'
    BY <1>0, <2>1, <2>2, <2>3 DEF OrderInv, InOrder
  <2>6. QED
    BY <2>1, <2>4, <2>5 DEF OrderInv
<1>6. CASE Push /\ ~(buffer_limit > 0)
  BY <1>6 DEF Push, OrderInv, InOrder, Given, Held
<1>7. CASE End \/ EndResults
  BY <1>7 DEF End, EndResults, OrderInv, InOrder, Given, Held
<1>8. QED
  <2>1. CASE Call \/ Delete \/ Caller \/ Freed \/ UNCHANGED vars
    BY <1>1, <2>1 DEF Call, Caller, Freed, vars, search, GetResults, Delete, GetValue,
       PostSearch, WaitResults, Collect, DeletePost, Join
  <2>2. CASE Search
    BY <1>2, <1>3, <1>4, <1>5, <1>6, <1>7, <2>2 DEF Search
  <2>3. QED
    BY <2>1, <2>2 DEF Next

\* No row is handed over twice or out of order, for every database, every size
\* of the batches and every schedule of the two threads.
THEOREM NoDuplicates == Spec => []InOrder
<1>1. IInv /\ CursorInv /\ OrderInv /\ [Next]_vars => (IInv /\ CursorInv /\ OrderInv)'
  BY StepInv, CursorStep, OrderStep
<1>2. Init => IInv /\ CursorInv /\ OrderInv
  BY InitInv, CursorInit
<1>3. IInv /\ CursorInv /\ OrderInv => InOrder
  BY DEF OrderInv
<1>4. QED
  BY <1>1, <1>2, <1>3, PTL DEF Spec

-----------------------------------------------------------------------------
(* No row is lost, and no row is made up *)

\* A segment root that cannot be opened: the search ends at once, and drops the
\* error.
NoSegRoot == db.kind = "wfdisc" /\ ~db.segRoot

\* The loops of the search stand at a root, directory, file and row of the
\* database, and the row held is a wanted one.
PlaceInv ==
    /\ tpc \in {"start", "first"} => at = Spot(0, 0, 0, 0, 0)
    /\ InStatic /\ tpc \in {"static"} \cup Held => at.r > 0
    /\ ~InStatic => at.c = 0
    /\ ~InStatic /\ tpc \in {"dir", "file", "row"} \cup Held => at.s \in DOMAIN db.tree
    /\ ~InStatic /\ tpc \in {"file", "row"} \cup Held => at.d \in DOMAIN CurRoot.dirs
    /\ ~InStatic /\ tpc \in {"row"} \cup Held => at.f \in DOMAIN CurDir.files
    /\ tpc \in Held => at \in Wanted

\* A directory is given up early only after an error.
ErrorInv ==
    /\ tpc = "start" => ~search_error
    /\ ~search_error => dirRet

\* The search has left the place p behind: a loop that ends has done all that
\* lies inside, although the cursor still shows the last place it looked at.
Done(p) ==
    \/ tpc \in {"end", "post", "exit"}
    \/ Before(p, at)
    \/ tpc \notin Held /\ p = at
    \/ tpc = "file" /\ p.s = at.s /\ p.d = at.d /\ p.f = at.f
    \/ tpc = "dir" /\ p.s = at.s /\ p.d = at.d
    \/ tpc = "station" /\ p.s = at.s

\* Until it meets an error or is told to stop, the search has handed over every
\* wanted row that it has left behind.
CompleteInv ==
    ~search_error /\ ~Deleted /\ ~NoSegRoot =>
        \A p \in Wanted : Done(p) => p \in GivenSet

\* Only wanted rows are handed over.
OnlyWanted == GivenSet \subseteq Wanted

WalkedInv == PlaceInv /\ ErrorInv /\ CompleteInv /\ OnlyWanted

\* The parts of a database are sequences, whose domains are intervals.
LEMMA Shapes ==
    ASSUME IInv
    PROVE  /\ db.table \in Seq(Row) /\ db.tree \in Seq(Root)
           /\ \A n \in DOMAIN db.table : db.table[n] \in Seq(BOOLEAN)
           /\ \A i \in DOMAIN db.tree :
                /\ db.tree[i].dirs \in Seq(Dir)
                /\ \A j \in DOMAIN db.tree[i].dirs :
                     /\ db.tree[i].dirs[j].files \in Seq(File)
                     /\ \A k \in DOMAIN db.tree[i].dirs[j].files :
                          db.tree[i].dirs[j].files[k].rows \in Seq(Row)
<1>1. db \in DB
  BY DBAssumption DEF IInv, TypeOK
<1>2. db.table \in Seq(Row) /\ db.tree \in Seq(Root)
  BY <1>1 DEF DB
<1>3. ASSUME NEW i \in DOMAIN db.tree
      PROVE  db.tree[i].dirs \in Seq(Dir)
  <2>1. db.tree[i] \in Root
    BY <1>2, <1>3
  <2>2. QED
    BY <2>1 DEF Root
<1>4. ASSUME NEW i \in DOMAIN db.tree, NEW j \in DOMAIN db.tree[i].dirs
      PROVE  db.tree[i].dirs[j].files \in Seq(File)
  <2>1. db.tree[i].dirs[j] \in Dir
    BY <1>3, <1>4
  <2>2. QED
    BY <2>1 DEF Dir
<1>5. ASSUME NEW i \in DOMAIN db.tree, NEW j \in DOMAIN db.tree[i].dirs,
             NEW k \in DOMAIN db.tree[i].dirs[j].files
      PROVE  db.tree[i].dirs[j].files[k].rows \in Seq(Row)
  <2>1. db.tree[i].dirs[j].files[k] \in File
    BY <1>4, <1>5
  <2>2. QED
    BY <2>1 DEF File
<1>6. \A n \in DOMAIN db.table : db.table[n] \in Seq(BOOLEAN)
  BY <1>2 DEF Row
<1>7. QED
  BY <1>2, <1>3, <1>4, <1>5, <1>6

\* The fields of a place.
LEMMA SpotFields ==
    ASSUME NEW i, NEW j, NEW k, NEW n, NEW m
    PROVE  /\ Spot(i, j, k, n, m).s = i /\ Spot(i, j, k, n, m).d = j
           /\ Spot(i, j, k, n, m).f = k /\ Spot(i, j, k, n, m).r = n
           /\ Spot(i, j, k, n, m).c = m
  BY DEF Spot

\* Places have natural numbers as fields.
LEMMA SpotType ==
    ASSUME NEW i \in Nat, NEW j \in Nat, NEW k \in Nat, NEW n \in Nat, NEW m \in Nat
    PROVE  Spot(i, j, k, n, m) \in Place
  BY DEF Spot, Place

\* An index of a sequence counts from 1.
LEMMA IndexType ==
    ASSUME NEW S, NEW s \in Seq(S), NEW i \in DOMAIN s
    PROVE  i \in Nat /\ i > 0 /\ i <= Len(s)
  OBVIOUS

\* The place p shows a combination of a static table that passes, ...
TableRow(p) ==
    /\ p = Spot(0, 0, 0, p.r, p.c)
    /\ p.r \in DOMAIN db.table /\ p.c \in DOMAIN db.table[p.r]
    /\ db.table[p.r][p.c]

\* ... or a row of another table that passes with one of its combinations.
TreeRow(p) ==
    /\ p = Spot(p.s, p.d, p.f, p.r, 0)
    /\ p.s \in DOMAIN db.tree
    /\ p.d \in DOMAIN db.tree[p.s].dirs
    /\ p.f \in DOMAIN db.tree[p.s].dirs[p.d].files
    /\ LET rows == db.tree[p.s].dirs[p.d].files[p.f].rows
       IN  p.r \in DOMAIN rows /\ \E c \in DOMAIN rows[p.r] : rows[p.r][c]

\* The wanted rows of a static table are the combinations that pass.
LEMMA TableRows ==
    ASSUME InStatic, NEW p
    PROVE  p \in Wanted <=> TableRow(p)
<1>1. p \in Wanted <=> \E n \in DOMAIN db.table : \E k \in DOMAIN db.table[n] :
                           db.table[n][k] /\ p = Spot(0, 0, 0, n, k)
  BY DEF Wanted, TableWanted
<1>2. QED
  BY <1>1 DEF TableRow, Spot

\* The wanted rows of a file are those that pass.
LEMMA FileRows ==
    ASSUME NEW file, NEW i, NEW j, NEW k, NEW p
    PROVE  p \in FileWanted(file, i, j, k) <=>
              /\ p = Spot(i, j, k, p.r, 0)
              /\ p.r \in DOMAIN file.rows
              /\ \E c \in DOMAIN file.rows[p.r] : file.rows[p.r][c]
  BY DEF FileWanted, Spot

\* The wanted rows of the other tables are those of their files.
LEMMA TreeRows ==
    ASSUME ~InStatic, NEW p
    PROVE  p \in Wanted <=> TreeRow(p)
<1> DEFINE InFile(i, j, k) == p \in FileWanted(db.tree[i].dirs[j].files[k], i, j, k)
<1>1. p \in Wanted <=>
        \E i \in DOMAIN db.tree : \E j \in DOMAIN db.tree[i].dirs :
           \E k \in DOMAIN db.tree[i].dirs[j].files : InFile(i, j, k)
  BY DEF Wanted, TreeWanted
<1>2. \A i, j, k : InFile(i, j, k) <=>
        /\ p = Spot(i, j, k, p.r, 0)
        /\ p.r \in DOMAIN db.tree[i].dirs[j].files[k].rows
        /\ \E c \in DOMAIN db.tree[i].dirs[j].files[k].rows[p.r] :
              db.tree[i].dirs[j].files[k].rows[p.r][c]
  BY FileRows
<1> HIDE DEF InFile
<1>3. \A i, j, k : InFile(i, j, k) => p.s = i /\ p.d = j /\ p.f = k
  <2> SUFFICES ASSUME NEW i, NEW j, NEW k, InFile(i, j, k)
               PROVE  p.s = i /\ p.d = j /\ p.f = k
    OBVIOUS
  <2>1. p = Spot(i, j, k, p.r, 0)
    BY <1>2
  <2>2. QED
    BY <2>1, SpotFields
<1>4. p \in Wanted <=>
        /\ p.s \in DOMAIN db.tree
        /\ p.d \in DOMAIN db.tree[p.s].dirs
        /\ p.f \in DOMAIN db.tree[p.s].dirs[p.d].files
        /\ InFile(p.s, p.d, p.f)
  BY <1>1, <1>3
<1>5. QED
  BY <1>2, <1>4 DEF TreeRow

\* Wanted rows are places, and their indices count from 1.
LEMMA WantedPlace ==
    ASSUME IInv, NEW p \in Wanted
    PROVE  /\ p \in Place /\ p.r > 0
           /\ InStatic => p.c > 0
           /\ ~InStatic => p.s > 0 /\ p.d > 0 /\ p.f > 0 /\ p.c = 0
<1>1. CASE InStatic
  <2>1. TableRow(p)
    BY <1>1, TableRows
  <2>2. db.table \in Seq(Row) /\ db.table[p.r] \in Seq(BOOLEAN)
    BY <2>1, Shapes DEF TableRow
  <2>3. p.r \in Nat /\ p.r > 0 /\ p.c \in Nat /\ p.c > 0
    BY <2>1, <2>2 DEF TableRow
  <2>4. QED
    BY <1>1, <2>1, <2>3 DEF TableRow, Spot, Place
<1>2. CASE ~InStatic
  <2>1. TreeRow(p)
    BY <1>2, TreeRows
  <2>2. p.s \in Nat /\ p.s > 0
    BY <2>1, Shapes, IndexType DEF TreeRow
  <2>3. p.d \in Nat /\ p.d > 0
    BY <2>1, Shapes, IndexType DEF TreeRow
  <2>4. p.f \in Nat /\ p.f > 0
    BY <2>1, Shapes, IndexType DEF TreeRow
  <2>5. p.r \in Nat /\ p.r > 0
    <3>1. db.tree[p.s].dirs[p.d].files[p.f].rows \in Seq(Row)
      BY <2>1, Shapes DEF TreeRow
    <3>2. QED
      BY <2>1, <3>1, IndexType DEF TreeRow
  <2>6. p = Spot(p.s, p.d, p.f, p.r, 0)
    BY <2>1 DEF TreeRow
  <2>7. p.c = 0
    BY <2>6, SpotFields
  <2>8. Spot(p.s, p.d, p.f, p.r, 0) \in Place
    BY <2>2, <2>3, <2>4, <2>5, SpotType
  <2>9. QED
    BY <1>2, <2>2, <2>3, <2>4, <2>5, <2>6, <2>7, <2>8
<1>3. QED
  BY <1>1, <1>2

\* Nobody writes to the database that is searched.
LEMMA SameDatabase ==
    [Next]_vars => db' = db /\ Wanted' = Wanted /\ InStatic' = InStatic /\ NoSegRoot' = NoSegRoot
<1>1. [Next]_vars => db' = db
  BY DEF Next, Call, Caller, Search, Freed, vars, GetResults, Delete, GetValue, PostSearch,
     WaitResults, Collect, DeletePost, Join, SearchStart, SearchFirst, NextStation, NextDir,
     NextFile, NextRow, NextStatic, Match, Turn, Push, End, EndResults
<1>2. db' = db => Wanted' = Wanted /\ InStatic' = InStatic /\ NoSegRoot' = NoSegRoot
  BY DEF Wanted, TableWanted, TreeWanted, FileWanted, InStatic, NoSegRoot
<1>3. QED
  BY <1>1, <1>2

\* The calling thread leaves the search where it is.
LEMMA CallerSteps ==
    Call \/ Delete \/ Caller \/ Freed \/ UNCHANGED vars
      => UNCHANGED <<tpc, at, dirRet, bound, search_error, out>>
  BY DEF Call, Caller, Freed, vars, search, fields, GetResults, Delete, GetValue, PostSearch,
     WaitResults, Collect, DeletePost, Join

\* The search thread has not been released before the first request.
LEMMA WalkedInit == Init => WalkedInv
<1> SUFFICES ASSUME Init PROVE WalkedInv
  OBVIOUS
<1>1. at = Spot(0, 0, 0, 0, 0) /\ tpc = "start" /\ dirRet = TRUE /\ search_error = FALSE
  BY DEF Init
<1>2. at.c = 0
  BY <1>1, SpotFields
<1>3. PlaceInv
  BY <1>1, <1>2 DEF PlaceInv, Held
<1>4. ErrorInv
  BY <1>1 DEF ErrorInv
<1>5. GivenSet = {}
  BY DEF Init, GivenSet, Given
<1>6. CompleteInv
  <2>1. IInv
    BY InitInv
  <2>2. ASSUME NEW p \in Wanted PROVE ~Done(p)
    <3>1. p \in Place /\ p.r > 0
      BY <2>1, WantedPlace
    <3>2. ~Before(p, at) /\ p # at
      BY <1>1, <3>1, SpotFields DEF Before, Place
    <3>3. QED
      BY <1>1, <3>2 DEF Done
  <2>3. QED
    BY <2>2 DEF CompleteInv
<1>7. QED
  BY <1>3, <1>4, <1>5, <1>6 DEF WalkedInv, OnlyWanted

\* The loops of the search move inside the database.
LEMMA PlaceStep == IInv /\ CursorInv /\ PlaceInv /\ [Next]_vars => PlaceInv'
<1> SUFFICES ASSUME IInv, CursorInv, PlaceInv, [Next]_vars PROVE PlaceInv'
  OBVIOUS
<1>0. db' = db /\ Wanted' = Wanted /\ InStatic' = InStatic
  BY SameDatabase
<1>1. CASE Call \/ Delete \/ Caller \/ Freed \/ UNCHANGED vars
  BY <1>0, <1>1, CallerSteps DEF PlaceInv, CurRoot, CurDir
<1>2. CASE SearchStart
  BY <1>0, <1>2 DEF SearchStart, PlaceInv, Held
<1>3. CASE SearchFirst
  BY <1>0, <1>3, SpotFields DEF SearchFirst, PlaceInv, Held
<1>4. CASE NextStation
  <2>1. CASE at' = Spot(at.s + 1, 0, 0, 0, 0) /\ at.s < Len(db.tree) /\ tpc' \in {"dir", "station"}
    <3>1. at.s + 1 \in DOMAIN db.tree
      BY <2>1, Shapes DEF IInv, TypeOK, Place
    <3>2. at'.s = at.s + 1 /\ at'.c = 0
      BY <2>1, SpotFields
    <3>3. QED
      BY <1>0, <1>4, <2>1, <3>1, <3>2 DEF NextStation, CursorInv, PlaceInv, Held
  <2>2. CASE at' = at /\ tpc' = "end"
    BY <1>0, <2>2 DEF PlaceInv, Held
  <2>3. QED
    BY <1>4, <2>1, <2>2 DEF NextStation
<1>5. CASE NextDir
  <2>1. CASE at' = Spot(at.s, at.d + 1, 0, 0, 0) /\ at.d < Len(CurRoot.dirs) /\ tpc' \in {"dir", "file", "station"}
    <3>1. at.s \in DOMAIN db.tree /\ ~InStatic
      BY <1>5 DEF NextDir, PlaceInv, CursorInv
    <3>2. CurRoot.dirs \in Seq(Dir)
      BY <3>1, Shapes DEF CurRoot
    <3>3. at.d + 1 \in DOMAIN CurRoot.dirs
      BY <2>1, <3>2 DEF IInv, TypeOK, Place
    <3>4. at'.s = at.s /\ at'.d = at.d + 1 /\ at'.c = 0
      BY <2>1, SpotFields
    <3>5. QED
      BY <1>0, <2>1, <3>1, <3>3, <3>4 DEF PlaceInv, Held, CurRoot
  <2>2. CASE at' = at /\ tpc' = "station"
    BY <1>0, <1>5, <2>2 DEF PlaceInv, Held, NextDir, CursorInv
  <2>3. QED
    BY <1>5, <2>1, <2>2 DEF NextDir
<1>6. CASE NextFile
  <2>0. at.s \in DOMAIN db.tree /\ at.d \in DOMAIN CurRoot.dirs /\ ~InStatic
    BY <1>6 DEF NextFile, PlaceInv, CursorInv
  <2>1. CASE at' = Spot(at.s, at.d, at.f + 1, 0, 0) /\ at.f < Len(CurDir.files) /\ tpc' \in {"row", "file"}
    <3>2. CurDir.files \in Seq(File)
      BY <2>0, Shapes DEF CurRoot, CurDir
    <3>3. at.f + 1 \in DOMAIN CurDir.files
      BY <2>1, <3>2 DEF IInv, TypeOK, Place
    <3>4. at'.s = at.s /\ at'.d = at.d /\ at'.f = at.f + 1 /\ at'.c = 0
      BY <2>1, SpotFields
    <3>5. QED
      BY <1>0, <2>0, <2>1, <3>3, <3>4 DEF PlaceInv, Held, CurRoot, CurDir
  <2>2. CASE at' = at /\ tpc' \in {"station", "dir"}
    BY <1>0, <2>0, <2>2 DEF PlaceInv, Held, CurRoot
  <2>3. QED
    BY <1>6, <2>1, <2>2 DEF NextFile
<1>7. CASE NextRow
  <2>0. at.s \in DOMAIN db.tree /\ at.d \in DOMAIN CurRoot.dirs /\ at.f \in DOMAIN CurDir.files /\ ~InStatic
    BY <1>7 DEF NextRow, PlaceInv, CursorInv
  <2>1. CASE at' = Spot(at.s, at.d, at.f, at.r + 1, 0) /\ at.r < Len(CurFile.rows)
    <3>1. CurFile.rows \in Seq(Row)
      BY <2>0, Shapes DEF CurRoot, CurDir, CurFile
    <3>2. at.r + 1 \in DOMAIN CurFile.rows
      BY <2>1, <3>1 DEF IInv, TypeOK, Place
    <3>3. at'.s = at.s /\ at'.d = at.d /\ at'.f = at.f /\ at'.r = at.r + 1 /\ at'.c = 0
      BY <2>1, SpotFields
    <3>4. tpc' \in {"match", "row"}
      BY <1>7, <2>1, <3>3 DEF NextRow, IInv, TypeOK, Place
    <3>5. tpc' = "match" => at' \in Wanted
      <4>1. tpc' = "match" => \E c \in DOMAIN CurFile.rows[at.r + 1] : CurFile.rows[at.r + 1][c]
        BY <1>7, <2>1, <3>3 DEF NextRow, IInv, TypeOK, Place
      <4>2. tpc' = "match" => TreeRow(at')
        BY <2>0, <2>1, <3>2, <3>3, <4>1 DEF TreeRow, CurFile, CurDir, CurRoot
      <4>3. QED
        BY <2>0, <4>2, TreeRows
    <3>6. QED
      BY <1>0, <2>0, <2>1, <3>3, <3>4, <3>5 DEF PlaceInv, Held, CurRoot, CurDir
  <2>2. CASE at' = at /\ tpc' = "file"
    BY <1>0, <2>0, <2>2 DEF PlaceInv, Held, CurRoot
  <2>3. QED
    BY <1>7, <2>1, <2>2 DEF NextRow
<1>8. CASE NextStatic
  <2>0. InStatic /\ at.s = 0 /\ at.d = 0 /\ at.f = 0 /\ at.r > 0
    BY <1>8 DEF NextStatic, PlaceInv, CursorInv
  <2>1. CASE at' = at /\ tpc' = "end"
    BY <1>0, <2>0, <2>1 DEF PlaceInv, Held
  <2>2. CASE at' = Spot(0, 0, 0, at.r + 1, 0) /\ tpc' = "static"
    <3>1. at'.r = at.r + 1
      BY <2>2, SpotFields
    <3>2. QED
      BY <1>0, <2>0, <2>2, <3>1 DEF PlaceInv, Held, IInv, TypeOK, Place
  <2>3. CASE /\ at' = Spot(0, 0, 0, at.r, at.c + 1) /\ at.r <= Len(db.table) /\ at.c < Len(db.table[at.r])
             /\ tpc' = IF db.table[at.r][at.c + 1] THEN "match"
                       ELSE IF buffer_limit = 0 THEN "end" ELSE "static"
    <3>1. at'.r = at.r /\ at'.c = at.c + 1
      BY <2>3, SpotFields
    <3>2. at.r \in DOMAIN db.table
      BY <2>0, <2>3, Shapes DEF IInv, TypeOK, Place
    <3>3. at.c + 1 \in DOMAIN db.table[at.r]
      BY <2>3, <3>2, Shapes DEF IInv, TypeOK, Place
    <3>4. tpc' = "match" => TableRow(at')
      BY <2>3, <3>1, <3>2, <3>3 DEF TableRow
    <3>5. tpc' = "match" => at' \in Wanted
      BY <2>0, <3>4, TableRows
    <3>6. QED
      BY <1>0, <2>0, <2>3, <3>1, <3>5 DEF PlaceInv, Held
  <2>4. QED
    BY <1>8, <2>1, <2>2, <2>3 DEF NextStatic
<1>9. CASE Match \/ Turn
  BY <1>0, <1>9 DEF Match, Turn, PlaceInv, Held, CurRoot, CurDir
<1>10. CASE Push
  BY <1>0, <1>10 DEF Push, PlaceInv, Held, CurRoot, CurDir
<1>11. CASE End \/ EndResults
  BY <1>0, <1>11 DEF End, EndResults, PlaceInv, Held
<1>12. QED
  BY <1>1, <1>2, <1>3, <1>4, <1>5, <1>6, <1>7, <1>8, <1>9, <1>10, <1>11 DEF Next, Search

\* An error of a directory is an error of the search.
LEMMA ErrorStep == ErrorInv /\ [Next]_vars => ErrorInv'
<1> SUFFICES ASSUME ErrorInv, [Next]_vars PROVE ErrorInv'
  OBVIOUS
<1>1. CASE Call \/ Delete \/ Caller \/ Freed \/ UNCHANGED vars
  BY <1>1, CallerSteps DEF ErrorInv
<1>2. CASE SearchStart \/ SearchFirst
  BY <1>2 DEF SearchStart, SearchFirst, ErrorInv, fields
<1>3. CASE NextStation \/ NextDir \/ NextFile \/ NextRow
  BY <1>3 DEF NextStation, NextDir, NextFile, NextRow, ErrorInv
<1>4. CASE NextStatic \/ Match \/ Turn \/ Push \/ End \/ EndResults
  BY <1>4 DEF NextStatic, Match, Turn, Push, End, EndResults, ErrorInv, fields
<1>5. QED
  BY <1>1, <1>2, <1>3, <1>4 DEF Next, Search

\* What has been handed over stays so; a push adds the row held.
LEMMA GivenGrows ==
    IInv /\ CursorInv /\ [Next]_vars =>
        GivenSet' = IF Push /\ buffer_limit > 0 THEN GivenSet \cup {at} ELSE GivenSet
<1> SUFFICES ASSUME IInv, CursorInv, [Next]_vars
             PROVE  GivenSet' = IF Push /\ buffer_limit > 0 THEN GivenSet \cup {at} ELSE GivenSet
  OBVIOUS
<1>1. CASE Push /\ buffer_limit > 0
  <2>1. Given' = Append(Given, at) /\ Given \in Seq(Place) /\ at \in Place
    BY <1>1, PushGiven, GivenType DEF IInv, TypeOK
  <2>2. QED
    BY <1>1, <2>1 DEF GivenSet
<1>2. CASE ~(Push /\ buffer_limit > 0)
  <2>1. CASE SearchFirst
    <3>1. Given = <<>> /\ Given' = <<>>
      BY <2>1, StepInv DEF SearchFirst, CursorInv, Given, IInv, TypeOK
    <3>2. QED
      BY <1>2, <3>1 DEF GivenSet
  <2>2. CASE ~SearchFirst
    <3>1. bound' = bound /\ out' = out
      BY <1>2, <2>2, CallerSteps DEF Next, Search, SearchStart, NextStation, NextDir, NextFile,
         NextRow, NextStatic, Match, Turn, Push, End, EndResults
    <3>2. QED
      BY <1>2, <3>1 DEF GivenSet, Given
  <2>3. QED
    BY <2>1, <2>2
<1>3. QED
  BY <1>1, <1>2

\* Only rows held are handed over, and those are wanted.
LEMMA OnlyWantedStep == IInv /\ CursorInv /\ PlaceInv /\ OnlyWanted /\ [Next]_vars => OnlyWanted'
<1> SUFFICES ASSUME IInv, CursorInv, PlaceInv, OnlyWanted, [Next]_vars PROVE OnlyWanted'
  OBVIOUS
<1>1. Push => at \in Wanted
  BY DEF Push, PlaceInv, Held
<1>2. QED
  BY <1>1, GivenGrows, SameDatabase DEF OnlyWanted

\* While the query is not deleted, the search does not stop early.
LEMMA NotStopped == IInv /\ ~Deleted /\ tpc \in Running => buffer_limit > 0
  BY DEF IInv, TypeOK, HandInv, BatchInv, Deleted

\* Each of two different places comes before the other.
LEMMA BeforeTotal ==
    ASSUME NEW p \in Place, NEW q \in Place, p # q
    PROVE  Before(p, q) \/ Before(q, p)
  BY DEF Before, Place

\* Every wanted row that a step of the search leaves behind has been handed over.
LEMMA CompleteStep == IInv /\ CursorInv /\ PlaceInv /\ ErrorInv /\ CompleteInv /\ [Next]_vars => CompleteInv'
<1> SUFFICES ASSUME IInv, CursorInv, PlaceInv, ErrorInv, CompleteInv, [Next]_vars,
                    ~search_error', ~Deleted', ~NoSegRoot', NEW p \in Wanted, Done(p)'
             PROVE  p \in GivenSet'
  BY SameDatabase DEF CompleteInv
<1>0. /\ p \in Place /\ p.r > 0 /\ at \in Place /\ at' \in Place
      /\ p.s \in Nat /\ p.d \in Nat /\ p.f \in Nat /\ p.r \in Nat /\ p.c \in Nat
      /\ at.s \in Nat /\ at.d \in Nat /\ at.f \in Nat /\ at.r \in Nat /\ at.c \in Nat
  BY WantedPlace, StepInv DEF IInv, TypeOK, Place
<1>1. ~Deleted /\ ~NoSegRoot /\ GivenSet \subseteq GivenSet'
  <2>1. Deleted => Deleted'
    BY DEF Next, Call, Caller, Search, Freed, vars, caller, GetResults, Delete, GetValue, PostSearch,
       WaitResults, Collect, DeletePost, Join, SearchStart, SearchFirst, NextStation, NextDir,
       NextFile, NextRow, NextStatic, Match, Turn, Push, End, EndResults, Deleted
  <2>2. QED
    BY <2>1, SameDatabase, GivenGrows
<1>2. ASSUME ~search_error, Done(p) PROVE p \in GivenSet'
  BY <1>1, <1>2 DEF CompleteInv
<1>3. CASE Call \/ Delete \/ Caller \/ Freed \/ UNCHANGED vars
  BY <1>2, <1>3, CallerSteps DEF Done
<1>4. CASE SearchStart
  <2>1. at' = at /\ at = Spot(0, 0, 0, 0, 0) /\ tpc' = "first"
    BY <1>4 DEF SearchStart, PlaceInv
  <2>2. ~Before(p, at)' /\ p # at'
    BY <1>0, <2>1, SpotFields DEF Before
  <2>3. QED
    BY <2>1, <2>2 DEF Done
<1>5. CASE SearchFirst
  <2>1. CASE tpc' = "static" /\ at' = Spot(0, 0, 0, 1, 0) /\ InStatic
    <3>1. p.c > 0
      BY <2>1, WantedPlace
    <3>2. ~Before(p, at)' /\ p # at'
      BY <1>0, <2>1, <3>1, SpotFields DEF Before
    <3>3. QED
      BY <2>1, <3>2 DEF Done
  <2>2. CASE tpc' = "station" /\ at' = Spot(0, 0, 0, 0, 0) /\ ~InStatic
    <3>1. p.s > 0
      BY <2>2, WantedPlace
    <3>2. ~Before(p, at)' /\ p # at' /\ p.s # at'.s
      BY <1>0, <2>2, <3>1, SpotFields DEF Before
    <3>3. QED
      BY <2>2, <3>2 DEF Done
  <2>3. QED
    BY <1>1, <1>5, <2>1, <2>2 DEF SearchFirst, NoSegRoot, PlaceInv
<1>6. CASE NextStation
  <2>0. buffer_limit > 0 /\ ~InStatic /\ tpc = "station" /\ buffer_limit \in Nat
    BY <1>1, <1>6, NotStopped DEF NextStation, CursorInv, Running, IInv, TypeOK
  <2>1. TreeRow(p) /\ p.d > 0
    BY <2>0, TreeRows, WantedPlace
  <2>2. CASE at' = Spot(at.s + 1, 0, 0, 0, 0) /\ tpc' = "dir" /\ ~search_error
    <3>1. at'.s = at.s + 1 /\ at'.d = 0 /\ at'.f = 0 /\ at'.r = 0 /\ at'.c = 0
      BY <2>2, SpotFields
    <3>2. Before(p, at) \/ p.s = at.s
      BY <1>0, <2>0, <2>1, <2>2, <3>1 DEF Done, Before
    <3>3. QED
      BY <1>2, <2>0, <2>2, <3>2 DEF Done
  <2>3. CASE at.s >= Len(db.tree) /\ ~search_error
    <3>1. p.s <= Len(db.tree)
      BY <2>1, Shapes, IndexType DEF TreeRow
    <3>2. Before(p, at) \/ p.s = at.s
      BY <1>0, <2>3, <3>1, Shapes DEF Before
    <3>3. QED
      BY <1>2, <2>0, <2>3, <3>2 DEF Done
  <2>4. QED
    BY <1>6, <2>0, <2>2, <2>3 DEF NextStation
<1>7. CASE NextDir
  <2>0. buffer_limit > 0 /\ ~InStatic /\ tpc = "dir" /\ buffer_limit \in Nat
    BY <1>1, <1>7, NotStopped DEF NextDir, CursorInv, Running, IInv, TypeOK
  <2>1. TreeRow(p) /\ p.f > 0
    BY <2>0, TreeRows, WantedPlace
  <2>2. CASE at' = Spot(at.s, at.d + 1, 0, 0, 0) /\ tpc' = "file" /\ ~search_error
    <3>1. at'.s = at.s /\ at'.d = at.d + 1 /\ at'.f = 0 /\ at'.r = 0 /\ at'.c = 0
      BY <2>2, SpotFields
    <3>2. Before(p, at) \/ (p.s = at.s /\ p.d = at.d)
      BY <1>0, <2>0, <2>1, <2>2, <3>1 DEF Done, Before
    <3>3. QED
      BY <1>2, <2>0, <2>2, <3>2 DEF Done
  <2>3. CASE at.d >= Len(CurRoot.dirs) /\ at' = at /\ tpc' = "station" /\ ~search_error
    <3>1. p.s = at.s => p.d \in Nat /\ p.d <= Len(CurRoot.dirs)
      BY <2>1, Shapes, IndexType DEF TreeRow, CurRoot
    <3>2. at.s \in DOMAIN db.tree
      BY <2>0 DEF PlaceInv
    <3>3. Len(CurRoot.dirs) \in Nat
      BY <3>2, Shapes DEF CurRoot
    <3>4. Before(p, at) \/ (p.s = at.s /\ p.d = at.d)
      BY <1>0, <2>3, <3>1, <3>3 DEF Before, Done
    <3>5. QED
      BY <1>2, <2>0, <2>3, <3>4 DEF Done
  <2>4. QED
    BY <1>7, <2>0, <2>2, <2>3 DEF NextDir
<1>8. CASE NextFile
  <2>0. buffer_limit > 0 /\ ~InStatic /\ tpc = "file" /\ buffer_limit \in Nat
    BY <1>1, <1>8, NotStopped DEF NextFile, CursorInv, Running, IInv, TypeOK
  <2>1. TreeRow(p) /\ p.r > 0
    BY <2>0, TreeRows, WantedPlace
  <2>2. CASE at' = Spot(at.s, at.d, at.f + 1, 0, 0) /\ tpc' = "row" /\ ~search_error
    <3>1. at'.s = at.s /\ at'.d = at.d /\ at'.f = at.f + 1 /\ at'.r = 0 /\ at'.c = 0
      BY <2>2, SpotFields
    <3>2. Before(p, at) \/ (p.s = at.s /\ p.d = at.d /\ p.f = at.f)
      BY <1>0, <2>0, <2>1, <2>2, <3>1 DEF Done, Before
    <3>3. QED
      BY <1>2, <2>0, <2>2, <3>2 DEF Done
  <2>3. CASE at.f >= Len(CurDir.files) /\ at' = at /\ tpc' = "dir" /\ ~search_error
    <3>1. p.s = at.s /\ p.d = at.d => p.f \in Nat /\ p.f <= Len(CurDir.files)
      BY <2>1, Shapes, IndexType DEF TreeRow, CurDir, CurRoot
    <3>2. at.s \in DOMAIN db.tree /\ at.d \in DOMAIN CurRoot.dirs
      BY <2>0 DEF PlaceInv
    <3>3. CurDir.files \in Seq(File)
      BY <3>2, Shapes DEF CurDir, CurRoot
    <3>4. Before(p, at) \/ (p.s = at.s /\ p.d = at.d /\ p.f = at.f)
      BY <1>0, <2>3, <3>1, <3>3 DEF Before, Done
    <3>5. QED
      BY <1>2, <2>0, <2>3, <3>4 DEF Done
  <2>4. dirRet = TRUE
    BY <1>8 DEF NextFile, ErrorInv, IInv, TypeOK
  <2>5. (IF db.oneLevel /\ ~dirRet THEN "station" ELSE "dir") = "dir"
    BY <2>4
  <2>6. QED
    <3>1. CASE at' = Spot(at.s, at.d, at.f + 1, 0, 0) /\ tpc' = "row" /\ ~search_error
      BY <2>2, <3>1
    <3>2. CASE /\ buffer_limit <= 0 \/ at.f >= Len(CurDir.files)
               /\ tpc' = "dir" /\ at' = at /\ search_error' = search_error
      BY <2>0, <2>3, <3>2
    <3>3. QED
      BY <1>8, <2>5, <3>1, <3>2 DEF NextFile, IInv, TypeOK
<1>9. CASE NextRow
  <2>0. buffer_limit > 0 /\ ~InStatic /\ tpc = "row" /\ buffer_limit \in Nat /\ ~search_error
    BY <1>1, <1>9, NotStopped DEF NextRow, CursorInv, Running, IInv, TypeOK
  <2>1. TreeRow(p) /\ p.r > 0 /\ p.c = 0 /\ at.c = 0
    BY <2>0, TreeRows, WantedPlace DEF PlaceInv
  <2>2. at.s \in DOMAIN db.tree /\ at.d \in DOMAIN CurRoot.dirs /\ at.f \in DOMAIN CurDir.files
    BY <2>0 DEF PlaceInv
  <2>3. CurFile.rows \in Seq(Row)
    BY <2>2, Shapes DEF CurFile, CurDir, CurRoot
  <2>4. CASE at' = Spot(at.s, at.d, at.f, at.r + 1, 0) /\ tpc' = "match"
    <3>1. at'.s = at.s /\ at'.d = at.d /\ at'.f = at.f /\ at'.r = at.r + 1 /\ at'.c = 0
      BY <2>4, SpotFields
    <3>2. Before(p, at) \/ p = at
      BY <1>0, <2>1, <2>4, <3>1, BeforeTotal DEF Done, Before, Held
    <3>3. QED
      BY <1>2, <2>0, <3>2 DEF Done, Held
  <2>5. CASE /\ at' = Spot(at.s, at.d, at.f, at.r + 1, 0) /\ tpc' = "row"
             /\ ~\E c \in DOMAIN CurFile.rows[at.r + 1] : CurFile.rows[at.r + 1][c]
    <3>1. at'.s = at.s /\ at'.d = at.d /\ at'.f = at.f /\ at'.r = at.r + 1 /\ at'.c = 0
      BY <2>5, SpotFields
    <3>2. p # at'
      BY <2>1, <2>5, <3>1 DEF TreeRow, CurFile, CurDir, CurRoot
    <3>3. Before(p, at) \/ p = at
      BY <1>0, <2>1, <2>5, <3>1, <3>2, BeforeTotal DEF Done, Before, Held
    <3>4. QED
      BY <1>2, <2>0, <3>3 DEF Done, Held
  <2>6. CASE at.r >= Len(CurFile.rows) /\ at' = at /\ tpc' = "file"
    <3>1. p.s = at.s /\ p.d = at.d /\ p.f = at.f => p.r \in Nat /\ p.r <= Len(CurFile.rows)
      BY <2>1, Shapes, IndexType DEF TreeRow, CurFile, CurDir, CurRoot
    <3>2. Before(p, at) \/ p = at
      BY <1>0, <2>1, <2>3, <2>6, <3>1, BeforeTotal DEF Before, Done, Held
    <3>3. QED
      BY <1>2, <2>0, <3>2 DEF Done, Held
  <2>7. QED
    <3>1. at' = Spot(at.s, at.d, at.f, at.r + 1, 0) => at'.r = at.r + 1
      BY SpotFields
    <3>2. QED
      BY <1>0, <1>9, <2>0, <2>3, <2>4, <2>5, <2>6, <3>1 DEF NextRow
<1>10. CASE NextStatic
  <2>0. buffer_limit > 0 /\ InStatic /\ tpc = "static" /\ buffer_limit \in Nat /\ ~search_error
    BY <1>1, <1>10, NotStopped DEF NextStatic, CursorInv, Running, IInv, TypeOK, fields
  <2>1. TableRow(p) /\ p.s = 0 /\ p.d = 0 /\ p.f = 0 /\ at.s = 0 /\ at.d = 0 /\ at.f = 0
    BY <2>0, TableRows, SpotFields DEF TableRow, CursorInv
  <2>2. p.r <= Len(db.table) /\ p.c <= Len(db.table[p.r]) /\ Len(db.table) \in Nat /\ Len(db.table[p.r]) \in Nat
    BY <2>1, Shapes, IndexType DEF TableRow
  <2>3. CASE at.r > Len(db.table) /\ at' = at /\ tpc' = "end"
    <3>1. Before(p, at)
      BY <1>0, <2>1, <2>2, <2>3 DEF Before
    <3>2. QED
      BY <1>2, <2>0, <3>1 DEF Done
  <2>4. CASE at.c = Len(db.table[at.r]) /\ at' = Spot(0, 0, 0, at.r + 1, 0) /\ tpc' = "static"
    <3>1. at'.s = at.s /\ at'.d = at.d /\ at'.f = at.f /\ at'.r = at.r + 1 /\ at'.c = 0
      BY <2>1, <2>4, SpotFields
    <3>2. p.c > 0
      BY <2>0, WantedPlace
    <3>3. p.r = at.r => p.c <= at.c
      BY <2>2, <2>4
    <3>4. Before(p, at')
      BY <2>4, <3>1, <3>2 DEF Done, Held
    <3>5. Before(p, at) \/ p = at
      BY <1>0, <2>1, <3>1, <3>3, <3>4, BeforeTotal DEF Before
    <3>6. QED
      BY <1>2, <2>0, <3>5 DEF Done, Held
  <2>5. CASE /\ at' = Spot(0, 0, 0, at.r, at.c + 1)
             /\ tpc' = IF db.table[at.r][at.c + 1] THEN "match" ELSE "static"
    <3>1. at'.s = at.s /\ at'.d = at.d /\ at'.f = at.f /\ at'.r = at.r /\ at'.c = at.c + 1
      BY <2>1, <2>5, SpotFields
    <3>2. tpc' # "match" => p # at'
      BY <2>1, <2>5, <3>1 DEF TableRow
    <3>3. Before(p, at) \/ p = at
      BY <1>0, <2>1, <2>5, <3>1, <3>2, BeforeTotal DEF Done, Before, Held
    <3>4. QED
      BY <1>2, <2>0, <3>3 DEF Done, Held
  <2>6. QED
    BY <1>10, <2>0, <2>3, <2>4, <2>5 DEF NextStatic
<1>11. CASE Match \/ Turn
  <2>1. at' = at /\ tpc \in Held /\ tpc' \in Held /\ ~search_error
    BY <1>11 DEF Match, Turn, Held, fields
  <2>2. Before(p, at)
    BY <2>1 DEF Done, Held
  <2>3. QED
    BY <1>2, <2>1, <2>2 DEF Done
<1>12. CASE Push
  <2>1. buffer_limit > 0 /\ tpc' \in {"static", "row"} /\ at' = at /\ ~search_error
    BY <1>1, <1>12, NotStopped DEF Push, Running, IInv, TypeOK
  <2>2. Before(p, at) \/ p = at
    BY <2>1 DEF Done
  <2>3. QED
    BY <1>2, <1>12, <2>1, <2>2, GivenGrows DEF Done
<1>13. CASE End \/ EndResults
  BY <1>2, <1>13 DEF End, EndResults, Done, fields
<1>14. QED
  BY <1>3, <1>4, <1>5, <1>6, <1>7, <1>8, <1>9, <1>10, <1>11, <1>12, <1>13 DEF Next, Search

\* All that holds whenever a thread takes a step.
QueryInv == IInv /\ CursorInv /\ OrderInv /\ WalkedInv

\* However often and wherever a full batch interrupts the search, its loops resume
\* where they stopped and with the row in hand: what it has left behind has been
\* handed over.
THEOREM QueryInvariance == Spec => []QueryInv
<1>1. Init => QueryInv
  BY InitInv, CursorInit, WalkedInit DEF QueryInv
<1>2. QueryInv /\ [Next]_vars => QueryInv'
  BY StepInv, CursorStep, OrderStep, PlaceStep, ErrorStep, OnlyWantedStep, CompleteStep
     DEF QueryInv, WalkedInv
<1>3. QED
  BY <1>1, <1>2, PTL DEF Spec

\* No row is lost: at the end of a search without an error, every wanted row has
\* been handed over.
THEOREM NothingLost == Spec => []NoRowLost
<1>1. QueryInv => NoRowLost
  BY DEF QueryInv, WalkedInv, CompleteInv, NoRowLost, Done, NoSegRoot
<1>2. QED
  BY <1>1, QueryInvariance, PTL

-----------------------------------------------------------------------------
(* FFDBQuery implements RowStream: a step of the two threads is a step of  *)
(* the stream, or none.                                                    *)

\* What the call in progress knows of the search: a call that collects its batch
\* early does so because the batch is full.
CallInv ==
    /\ InCall => want \in Limits /\ num_fetched <= Len(Given)
    /\ mpc = "wait" /\ tpc = "turn" /\ results_sem = 1 => num_fetched >= want
    /\ mpc = "collect" /\ tpc = "turn" => num_fetched >= want
    /\ mpc = "collect" => tpc \in {"turn", "exit"}
    /\ NoSegRoot => tpc \in {"start", "first", "end", "post", "exit"} /\ Given = <<>>

StreamInv == QueryInv /\ CallInv

\* Before the first call nothing has been handed over.
LEMMA CallInit == Init => CallInv
  BY DEF Init, CallInv, InCall, Given

\* No step but a push changes the rows that have been handed over.
LEMMA SameGiven ==
    IInv /\ CursorInv /\ [Next]_vars =>
        Given' = IF Push /\ buffer_limit > 0 THEN Append(Given, at) ELSE Given
<1> SUFFICES ASSUME IInv, CursorInv, [Next]_vars
             PROVE  Given' = IF Push /\ buffer_limit > 0 THEN Append(Given, at) ELSE Given
  OBVIOUS
<1>1. CASE Push /\ buffer_limit > 0
  BY <1>1, PushGiven
<1>2. CASE SearchFirst
  <2>1. Given = <<>> /\ Given' = <<>>
    BY <1>2, StepInv DEF SearchFirst, CursorInv, Given, IInv, TypeOK
  <2>2. ~Push
    BY <1>2 DEF SearchFirst, Push
  <2>3. QED
    BY <2>1, <2>2
<1>3. CASE ~(Push /\ buffer_limit > 0) /\ ~SearchFirst
  <2>1. bound' = bound /\ out' = out
    BY <1>3, CallerSteps DEF Next, Search, SearchStart, NextStation, NextDir, NextFile,
       NextRow, NextStatic, Match, Turn, Push, End, EndResults
  <2>2. QED
    BY <1>3, <2>1 DEF Given
<1>4. QED
  BY <1>1, <1>2, <1>3

\* The batch of a call is a part of what has been handed over, and it is short
\* only at the end of the search.
LEMMA CallStep == QueryInv /\ CallInv /\ [Next]_vars => CallInv'
<1> SUFFICES ASSUME QueryInv, CallInv, [Next]_vars PROVE CallInv'
  OBVIOUS
<1>0. /\ IInv /\ CursorInv /\ PlaceInv /\ IInv' /\ Given \in Seq(Place) /\ at \in Place
      /\ num_fetched \in Nat /\ NoSegRoot' = NoSegRoot
  BY StepInv, GivenType, SameDatabase DEF QueryInv, WalkedInv, IInv, TypeOK
<1>1. Given' = IF Push /\ buffer_limit > 0 THEN Append(Given, at) ELSE Given
  BY <1>0, SameGiven
<1>2. ASSUME NEW n \in Limits, NEW v \in Vectors, GetResults(n, v) PROVE CallInv'
  <2>1. Given' = Given
    BY <1>1, <1>2 DEF GetResults, Push, search, Given
  <2>2. QED
    BY <1>0, <1>2, <2>1 DEF GetResults, CallInv, InCall, search
<1>3. CASE GetValue \/ PostSearch \/ WaitResults \/ Collect \/ Delete \/ DeletePost \/ Join
  <2>1. Given' = Given /\ tpc' = tpc /\ want' = want /\ num_fetched' = num_fetched
    BY <1>3 DEF GetValue, PostSearch, WaitResults, Collect, Delete, DeletePost, Join, search,
       fields, Given
  <2>2. mpc' = "collect" => tpc \in {"turn", "exit"} /\ (tpc = "turn" => num_fetched >= want)
    BY <1>0, <1>3 DEF GetValue, PostSearch, WaitResults, Collect, Delete, DeletePost, Join,
       CallInv, IInv, TypeOK, HandInv, Running, Parked
  <2>3. mpc' = "wait" /\ tpc = "turn" => mpc = "release" /\ results_sem' = 0
    BY <1>0, <1>3 DEF GetValue, PostSearch, WaitResults, Collect, Delete, DeletePost, Join,
       IInv, TypeOK, HandInv, Running, Parked
  <2>4. InCall' => InCall
    BY <1>3 DEF GetValue, PostSearch, WaitResults, Collect, Delete, DeletePost, Join, InCall
  <2>5. QED
    BY <1>0, <2>1, <2>2, <2>3, <2>4 DEF CallInv
<1>4. CASE SearchStart \/ SearchFirst
  <2>1. /\ Given' = Given /\ mpc' = mpc /\ want' = want /\ num_fetched' = num_fetched
        /\ tpc' \notin {"turn", "exit"} /\ tpc \in {"start", "first"}
    BY <1>1, <1>4 DEF SearchStart, SearchFirst, Push, caller, fields
  <2>2. mpc # "collect"
    BY <2>1 DEF CallInv
  <2>3. NoSegRoot => tpc' \in {"first", "end"}
    BY <1>4 DEF SearchStart, SearchFirst, NoSegRoot, InStatic
  <2>4. QED
    BY <1>0, <2>1, <2>2, <2>3 DEF CallInv, InCall
<1>5. CASE NextStation \/ NextDir \/ NextFile \/ NextRow \/ NextStatic
  <2>1. /\ Given' = Given /\ mpc' = mpc /\ want' = want /\ num_fetched' = num_fetched
        /\ tpc' \notin {"turn", "exit"} /\ tpc \in {"station", "dir", "file", "row", "static"}
    BY <1>1, <1>5 DEF NextStation, NextDir, NextFile, NextRow, NextStatic, Push, caller, fields
  <2>2. mpc # "collect" /\ ~NoSegRoot
    BY <2>1 DEF CallInv
  <2>3. QED
    BY <1>0, <2>1, <2>2 DEF CallInv, InCall
<1>6. CASE Match
  <2>1. /\ Given' = Given /\ mpc' = mpc /\ want' = want /\ num_fetched' = num_fetched
        /\ tpc = "match" /\ (tpc' = "turn" => num_fetched >= buffer_limit) /\ tpc' \in {"turn", "push"}
    BY <1>1, <1>6 DEF Match, Push, caller, fields
  <2>2. mpc # "collect" /\ ~NoSegRoot
    BY <2>1 DEF CallInv
  <2>3. mpc = "wait" => buffer_limit = want
    BY <1>0 DEF IInv, BatchInv
  <2>4. QED
    BY <1>0, <2>1, <2>2, <2>3 DEF CallInv, InCall
<1>7. CASE Turn
  <2>1. /\ Given' = Given /\ mpc' = mpc /\ want' = want /\ num_fetched' = num_fetched
        /\ tpc = "turn" /\ tpc' = "push" /\ search_sem > 0
    BY <1>1, <1>7 DEF Turn, Push, caller, fields
  <2>2. mpc # "collect" /\ ~NoSegRoot
    BY <1>0, <2>1 DEF CallInv, IInv, TypeOK, HandInv
  <2>3. QED
    BY <1>0, <2>1, <2>2 DEF CallInv, InCall
<1>8. CASE Push
  <2>1. /\ mpc' = mpc /\ want' = want /\ tpc = "push" /\ tpc' \in {"static", "row", "end", "file"}
        /\ num_fetched' = IF buffer_limit > 0 THEN num_fetched + 1 ELSE num_fetched
    BY <1>0, <1>8 DEF Push, caller, IInv, TypeOK
  <2>2. mpc # "collect" /\ ~NoSegRoot
    BY <2>1 DEF CallInv
  <2>3. Len(Given') = IF buffer_limit > 0 THEN Len(Given) + 1 ELSE Len(Given)
    BY <1>0, <1>1, <1>8
  <2>4. Len(Given) \in Nat
    BY <1>0
  <2>5. QED
    BY <1>0, <2>1, <2>2, <2>3, <2>4 DEF CallInv, InCall
<1>9. CASE End \/ EndResults
  <2>1. /\ Given' = Given /\ mpc' = mpc /\ want' = want /\ num_fetched' = num_fetched
        /\ tpc \in {"end", "post"} /\ tpc' \in {"post", "exit"}
    BY <1>1, <1>9 DEF End, EndResults, Push, caller, fields
  <2>2. QED
    BY <1>0, <2>1 DEF CallInv, InCall
<1>10. CASE UNCHANGED vars
  BY <1>0, <1>10 DEF vars, caller, search, fields, sems, CallInv, InCall, Given
<1>11. QED
  BY <1>2, <1>3, <1>4, <1>5, <1>6, <1>7, <1>8, <1>9, <1>10 DEF Next, Call, Caller, Search, Freed

\* Collect is a fetch: the rows that the caller has not been told of yet are the
\* next ones of the stream.
LEMMA CollectFetches == ASSUME StreamInv, Collect PROVE Stream!Fetch(want)
<1>0. /\ IInv /\ Given \in Seq(Place) /\ num_fetched \in Nat /\ want \in Nat /\ at \in Place
      /\ num_fetched <= Len(Given) /\ num_fetched <= want /\ search_error \in BOOLEAN
  BY GivenType DEF Collect, StreamInv, QueryInv, CallInv, InCall, IInv, TypeOK, BatchInv
<1> DEFINE sofar == SubSeq(Given, 1, Len(Given) - num_fetched)
<1>1. Given' = Given /\ Seen = sofar /\ Seen' = Given
  BY DEF Collect, search, Given, Seen, InCall
<1>2. Len(Given) \in Nat /\ Len(sofar) = Len(Given) - num_fetched
  BY <1>0
<1> HIDE DEF sofar
<1>3. ~Deleted /\ Deleted' = Deleted /\ Failed' = Failed /\ Wanted' = Wanted
  BY DEF Collect, Deleted, Failed, search, fields, Wanted, InStatic, TableWanted, TreeWanted, FileWanted
<1>4. Stream!Extends(Given, sofar, want)
  <2>1. Len(Given) \in Len(sofar)..(Len(sofar) + want)
    BY <1>0, <1>2
  <2>2. SubSeq(Given, 1, Len(sofar)) = sofar
    BY <1>2 DEF sofar
  <2>3. QED
    BY <2>1, <2>2 DEF Stream!Extends
<1>5. Stream!Rows(Given) = GivenSet
  BY DEF Stream!Rows, GivenSet
<1>6. Stream!InStream(Given)
  BY <1>5 DEF Stream!InStream, StreamInv, QueryInv, WalkedInv, OnlyWanted, OrderInv, InOrder
<1>7. ASSUME ~Failed PROVE Stream!NoGap(Given)
  <2>1. ~search_error /\ ~NoSegRoot
    BY <1>7 DEF Failed, NoSegRoot, StreamInv, CallInv, Collect
  <2>2. ASSUME NEW row \in Wanted \ GivenSet, NEW i \in DOMAIN Given
        PROVE  Before(Given[i], row)
    <3>1. row \in Place /\ Given[i] \in Place
      BY <1>0, <2>2, WantedPlace
    <3>2. ~Done(row)
      BY <1>3, <2>1, <2>2 DEF StreamInv, QueryInv, WalkedInv, CompleteInv
    <3>3. Before(at, row) \/ (row = at /\ tpc \in Held)
      BY <1>0, <3>1, <3>2, BeforeTotal DEF Done
    <3>4. Before(Given[i], at) \/ (Given[i] = at /\ tpc \notin Held)
      BY <2>2 DEF StreamInv, QueryInv, OrderInv
    <3>5. QED
      BY <1>0, <3>1, <3>3, <3>4, BeforeTransitive
  <2>3. QED
    BY <1>5, <2>2 DEF Stream!NoGap
<1>8. ASSUME ~Failed, num_fetched < want PROVE Stream!Rows(Given) = Wanted
  <2>1. ~search_error /\ ~NoSegRoot
    BY <1>8 DEF Failed, NoSegRoot, StreamInv, CallInv, Collect
  <2>2. tpc = "exit"
    BY <1>0, <1>8 DEF StreamInv, CallInv, Collect
  <2>3. Wanted \subseteq GivenSet
    BY <1>3, <2>1, <2>2 DEF StreamInv, QueryInv, WalkedInv, CompleteInv, Done
  <2>4. QED
    BY <1>5, <2>3 DEF StreamInv, QueryInv, WalkedInv, OnlyWanted
<1>9. ret' = Stream!Returned(num_fetched)
  <2>1. ret' = IF num_fetched # 0 /\ search_error THEN -1 ELSE num_fetched
    BY DEF Collect
  <2>2. NoSegRoot => num_fetched = 0
    BY <1>0 DEF StreamInv, CallInv
  <2>3. num_fetched > 0 => (Failed <=> search_error)
    BY <2>2 DEF Failed, NoSegRoot
  <2>4. QED
    BY <1>0, <2>1, <2>3 DEF Stream!Returned, Stream!Documented
<1>10. Len(Given) - Len(sofar) = num_fetched
  BY <1>0, <1>2
<1>11. QED
  BY <1>1, <1>3, <1>4, <1>6, <1>7, <1>8, <1>9, <1>10 DEF Stream!Fetch

\* Before the first call the stream is at its start.
LEMMA StreamInit == Init => Stream!Init
  BY DEF Init, Stream!Init, Seen, InCall, Given, Failed, Deleted

\* Every step of the threads is a fetch, a failure, the end of the stream, or
\* nothing that the caller sees.
LEMMA StreamStep == StreamInv /\ [Next]_vars => [Stream!Next]_(Stream!vars)
<1> SUFFICES ASSUME StreamInv, [Next]_vars PROVE [Stream!Next]_(Stream!vars)
  OBVIOUS
<1>0. /\ IInv /\ CursorInv /\ IInv' /\ Given \in Seq(Place) /\ at \in Place /\ num_fetched \in Nat
      /\ Wanted' = Wanted /\ NoSegRoot' = NoSegRoot
  BY StepInv, GivenType, SameDatabase DEF StreamInv, QueryInv, IInv, TypeOK
<1>1. Given' = IF Push /\ buffer_limit > 0 THEN Append(Given, at) ELSE Given
  BY <1>0, SameGiven
<1>2. CASE Collect
  <2>1. Stream!Fetch(want) /\ want \in Limits
    BY <1>2, CollectFetches DEF StreamInv, CallInv, Collect, InCall
  <2>2. QED
    BY <2>1 DEF Stream!Next
<1>3. CASE Delete
  <2>1. ~Deleted /\ Deleted' /\ Given' = Given /\ ~InCall /\ ~InCall' /\ ret' = ret /\ Failed' = Failed
    BY <1>3 DEF Delete, Deleted, search, Given, InCall, Failed
  <2>2. Stream!Close
    BY <1>0, <2>1 DEF Stream!Close, Seen
  <2>3. QED
    BY <2>2 DEF Stream!Next
<1>4. CASE ~Collect /\ ~Delete
  <2>1. ret' = ret
    BY <1>4 DEF Next, Call, Caller, Search, Freed, vars, caller, GetResults, GetValue, PostSearch,
       WaitResults, DeletePost, Join, SearchStart, SearchFirst, NextStation, NextDir,
       NextFile, NextRow, NextStatic, Match, Turn, Push, End, EndResults
  <2>2. Deleted' <=> Deleted
    BY <1>4 DEF Next, Call, Caller, Search, Freed, vars, caller, GetResults, GetValue, PostSearch,
       WaitResults, DeletePost, Join, SearchStart, SearchFirst, NextStation, NextDir,
       NextFile, NextRow, NextStatic, Match, Turn, Push, End, EndResults, Deleted
  <2>3. Failed => Failed'
    <3>1. search_error => search_error' 
      BY <1>4 DEF StreamInv, QueryInv, WalkedInv, ErrorInv, Next, Call, Caller, Search, Freed, vars,
         fields, GetResults, GetValue, PostSearch, WaitResults, DeletePost, Join, SearchStart,
         SearchFirst, NextStation, NextDir, NextFile, NextRow, NextStatic, Match, Turn, Push,
         End, EndResults
    <3>2. tpc \notin {"start", "first"} => tpc' \notin {"start", "first"}
      BY <1>4 DEF Next, Call, Caller, Search, Freed, vars, search, GetResults, GetValue,
         PostSearch, WaitResults, DeletePost, Join, SearchStart, SearchFirst, NextStation,
         NextDir, NextFile, NextRow, NextStatic, Match, Turn, Push, End, EndResults
    <3>3. QED
      BY <1>0, <3>1, <3>2 DEF Failed, NoSegRoot
  <2>4. Seen' = Seen
    <3>1. CASE Push /\ buffer_limit > 0
      <4>1. mpc = "wait" /\ mpc' = mpc /\ num_fetched' = num_fetched + 1
        BY <1>0, <3>1 DEF Push, caller, IInv, TypeOK, HandInv, Running, Deleted
      <4>2. num_fetched <= Len(Given) /\ InCall /\ InCall'
        BY <4>1 DEF StreamInv, CallInv, InCall
      <4>3. Given' = Append(Given, at) /\ Len(Given') = Len(Given) + 1 /\ Len(Given) \in Nat
        BY <1>0, <1>1, <3>1
      <4>4. Seen' = SubSeq(Given', 1, Len(Given) - num_fetched)
        BY <1>0, <4>1, <4>2, <4>3 DEF Seen
      <4>5. SubSeq(Append(Given, at), 1, Len(Given) - num_fetched) = SubSeq(Given, 1, Len(Given) - num_fetched)
        BY <1>0, <4>2, <4>3
      <4>6. QED
        BY <4>2, <4>3, <4>4, <4>5 DEF Seen
    <3>2. CASE Call
      <4>1. ~InCall /\ InCall' /\ num_fetched' = 0 /\ Given' = Given
        BY <3>2 DEF Call, GetResults, InCall, search, Given
      <4>2. SubSeq(Given, 1, Len(Given) - 0) = Given
        BY <1>0
      <4>3. QED
        BY <4>1, <4>2 DEF Seen
    <3>3. CASE ~(Push /\ buffer_limit > 0) /\ ~Call
      <4>1. Given' = Given
        BY <1>1, <3>3
      <4>2. (InCall' <=> InCall) /\ num_fetched' = num_fetched
        BY <1>4, <3>3 DEF InCall, Next, Caller, Search, Freed, vars, caller, fields, GetValue,
           PostSearch, WaitResults, DeletePost, Join, SearchStart, SearchFirst, NextStation,
           NextDir, NextFile, NextRow, NextStatic, Match, Turn, Push, End, EndResults
      <4>3. QED
        BY <4>1, <4>2 DEF Seen
    <3>4. QED
      BY <3>1, <3>2, <3>3
  <2>5. CASE Failed'
    <3>1. Stream!Fail
      BY <1>0, <2>1, <2>2, <2>4, <2>5 DEF Stream!Fail
    <3>2. QED
      BY <3>1 DEF Stream!Next
  <2>6. CASE ~Failed'
    <3>1. Failed' = Failed
      BY <2>3, <2>6 DEF Failed
    <3>2. Deleted' = Deleted
      BY <2>2 DEF Deleted
    <3>3. QED
      BY <1>0, <2>1, <2>4, <3>1, <3>2 DEF Stream!vars
  <2>7. QED
    BY <2>5, <2>6
<1>5. QED
  BY <1>2, <1>3, <1>4

\* What the caller of getResults sees is a stream of the wanted rows: the thread
\* that searches, the semaphores and the places where it stops do not show.
THEOREM Refinement == Spec => StreamSpec
<1>1. Init => StreamInv
  BY InitInv, CursorInit, WalkedInit, CallInit DEF StreamInv, QueryInv
<1>2. StreamInv /\ [Next]_vars => StreamInv'
  BY StepInv, CursorStep, OrderStep, PlaceStep, ErrorStep, OnlyWantedStep, CompleteStep, CallStep
     DEF StreamInv, QueryInv, WalkedInv
<1>3. QED
  BY <1>1, <1>2, StreamInit, StreamStep, PTL DEF Spec, StreamSpec, Stream!Spec

=============================================================================
