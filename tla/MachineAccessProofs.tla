-------------------------- MODULE MachineAccessProofs --------------------------
(***************************************************************************)
(* Proofs about MachineAccess and EventStream, both sides of the Efata     *)
(* interface: that whatever a machine is answered is on record, and that a *)
(* client that reads an audit page by page misses no row it began with,    *)
(* for any number of requests, rows and page sizes; that a stream of       *)
(* events is judged line by line as its whole answer would be, for any     *)
(* answers and limits, and that every call of the client is observed once. *)
(***************************************************************************)
EXTENDS MachineAccess, EventStream, FiniteSetTheorems, SequenceTheorems,
        WellFoundedInduction, TLAPS

-----------------------------------------------------------------------------
(* The inductive invariant.                                                *)

Columns == {"state", "query", "status", "page", "next", "cursor", "row"}
Columned(row) == DOMAIN row = Columns /\ row = [f \in Columns |-> row[f]]

\* What handlers assign to a request.
Becomes(r, new) == request' = [request EXCEPT ![r] = new]
Moves(r, t) == request' = [request EXCEPT ![r].state = t]
Stamps(r, row) == request' = [request EXCEPT ![r].state = "stamped", ![r].row = row]
Shows(r, s, page, next) ==
    request' = [request EXCEPT ![r].status = s, ![r].state = "decided",
                               ![r].page = page, ![r].next = next]
Replaces(r, s, page, next) ==
    request' = [request EXCEPT ![r].state = "answered", ![r].status = s,
                               ![r].page = page, ![r].next = next]

States == {"unasked", "identified", "admitted", "decided", "stamped", "answered"}
Codes == {0, 200, 401, 403, 422, 500, 503}

WalkTyped ==
    /\ DOMAIN walk = {"state", "begun", "seen", "cursor"}
    /\ walk.state \in {"new", "begun", "done"}

Typed ==
    /\ now \in Int
    /\ IsFiniteSet(rows)
    /\ DOMAIN request = Requests
    /\ \A r \in Requests :
         /\ Columned(request[r]) /\ request[r].state \in States /\ request[r].status \in Codes
         /\ IF request[r].state = "unasked" THEN request[r].query = NoQuery
            ELSE request[r].query \in Queries
    /\ WalkTyped

\* Rows that are committed or about to be.
Known == rows \cup {request[r].row : r \in {q \in Requests : request[q].state = "stamped"}}

KeysFit ==
    /\ \A row \in Known : row.id \in Int /\ row.at \in Int
    /\ \A row, other \in Known : row.id = other.id => row = other

InContext(r) ==
    ContextRefusal(request[r].query.claims, request[r].query.tenant,
                   request[r].query.organization) = 0

Able(r) == request[r].query.capability \in request[r].query.claims.capabilities

\* The row that the request has stamped says what it is answered.
Tells(r) ==
    LET row == request[r].row
    IN  /\ row.tenant = request[r].query.tenant /\ row.capability = request[r].query.capability
        /\ row.decision = (IF request[r].status < 400 THEN "allow" ELSE "deny")
        /\ row.status = request[r].status

RecordFits(r) ==
    LET state == request[r].state
        status == request[r].status
    IN  /\ state \in {"admitted", "decided", "stamped"} => InContext(r)
        /\ state = "admitted" => Able(r)
        /\ state \in {"decided", "stamped", "answered"} /\ status = 200 => Able(r)
        /\ state = "stamped" => request[r].row.request = r /\ Tells(r)
        /\ state # "answered" => RowsOf(r) = {}
        /\ \A row \in RowsOf(r) : row = request[r].row /\ InContext(r)
        /\ state = "answered" /\ status \in {200, 403} =>
             \/ request[r].row \in RowsOf(r) /\ Tells(r)
             \/ /\ status = 403
                /\ ~(Scoped(request[r].query.claims) /\ InContext(r))

-----------------------------------------------------------------------------
(* The walk.                                                               *)

Walks(r) == Walking(r) /\ request[r].state # "answered"

Matches(row, query) ==
    /\ row.tenant = query.tenant
    /\ query.from # None => row.at >= query.from
    /\ query.to # None => row.at <= query.to

Sorted(s) == \A i, j \in DOMAIN s : i < j => Newer(s[i], s[j])

\* The cursor c points to the last of the rows s.
PointsTo(c, s) == s # <<>> /\ c.at = s[Len(s)].at /\ c.id = s[Len(s)].id

WalkFits ==
    /\ walk.seen \in Seq(rows) /\ Sorted(walk.seen)
    /\ \A i \in DOMAIN walk.seen : \E r \in Requests :
         Walking(r) /\ walk.seen[i].tenant = request[r].query.tenant
    /\ walk.begun \subseteq rows
    /\ \A row \in walk.begun, query \in Queries :
         query.cursor = "next" => Matches(row, query)
    /\ walk.state = "new" => walk.seen = <<>> /\ walk.cursor = None
    /\ walk.state = "begun" =>
         /\ walk.cursor # None /\ PointsTo(walk.cursor, walk.seen)
         /\ \A row \in walk.begun : row \in ToSet(walk.seen) \/ AfterCursor(row, walk.cursor)
    /\ walk.state = "done" => walk.begun \subseteq ToSet(walk.seen)

\* The page follows the cursor, and what was there when the walk began is on it
\* or follows the cursor that comes with it.
PageFits(r) ==
    LET page == request[r].page
        next == request[r].next
    IN  /\ page \in Seq(rows) /\ Sorted(page)
        /\ \A i \in DOMAIN page : /\ page[i].tenant = request[r].query.tenant
                                  /\ AfterCursor(page[i], walk.cursor)
        /\ \A row \in walk.begun : AfterCursor(row, walk.cursor) =>
             row \in ToSet(page) \/ (next # None /\ AfterCursor(row, next))
        /\ next # None => PointsTo(next, page)

WalkerFits(r) ==
    /\ request[r].cursor = walk.cursor /\ walk.state # "done"
    /\ request[r].state \in {"decided", "stamped"} /\ request[r].status = 200 => PageFits(r)

OneWalker == \A r, q \in Requests : Walks(r) /\ Walks(q) => r = q

IInv ==
    /\ Typed /\ KeysFit /\ WalkFits /\ OneWalker
    /\ \A r \in Requests : RecordFits(r) /\ (Walks(r) => WalkerFits(r))

-----------------------------------------------------------------------------
(* The order of the rows, and pages of it.                                 *)

Keyed(S) ==
    /\ \A row \in S : row.id \in Int /\ row.at \in Int
    /\ \A row, other \in S : row.id = other.id => row = other

NewerThan(S, row) == {other \in S : Newer(other, row)}

\* Newer is a strict total order of rows with identifiers of their own.
LEMMA NewerOrders ==
  ASSUME NEW S, Keyed(S), NEW r \in S, NEW s \in S
  PROVE  /\ ~Newer(r, r)
         /\ r = s \/ Newer(r, s) \/ Newer(s, r)
         /\ \A t \in S : Newer(r, s) /\ Newer(s, t) => Newer(r, t)
<1>1. r.id \in Int /\ r.at \in Int /\ s.id \in Int /\ s.at \in Int /\ (r.id = s.id => r = s)
  BY DEF Keyed
<1>2. \A t \in S : t.id \in Int /\ t.at \in Int
  BY DEF Keyed
<1> QED
  BY <1>1, <1>2 DEF Newer

\* A row has fewer rows before it than those it is newer than.
LEMMA RankGrows ==
  ASSUME NEW S, IsFiniteSet(S), Keyed(S), NEW r \in S, NEW s \in S, Newer(r, s)
  PROVE  Cardinality(NewerThan(S, r)) < Cardinality(NewerThan(S, s))
<1>1. NewerThan(S, r) \in SUBSET S /\ NewerThan(S, s) \in SUBSET S
  BY DEF NewerThan
<1>2. /\ IsFiniteSet(NewerThan(S, r)) /\ IsFiniteSet(NewerThan(S, s))
      /\ Cardinality(NewerThan(S, r)) \in Nat /\ Cardinality(NewerThan(S, s)) \in Nat
  BY <1>1, FS_Subset, FS_CardinalityType
<1>3. r \notin NewerThan(S, r)
  BY NewerOrders DEF NewerThan
<1>4. NewerThan(S, r) \cup {r} \in SUBSET NewerThan(S, s)
  BY NewerOrders DEF NewerThan
<1>5. Cardinality(NewerThan(S, r) \cup {r}) = Cardinality(NewerThan(S, r)) + 1
  BY <1>2, <1>3, FS_AddElement
<1>6. Cardinality(NewerThan(S, r) \cup {r}) <= Cardinality(NewerThan(S, s))
  BY <1>2, <1>4, FS_Subset
<1> QED
  BY <1>2, <1>5, <1>6

\* Every number below that of the rows is the rank of one of them.
LEMMA RanksAreTaken ==
  ASSUME NEW S, IsFiniteSet(S), Keyed(S)
  PROVE  /\ Cardinality(S) \in Nat
         /\ \A r \in S : Cardinality(NewerThan(S, r)) \in 0..Cardinality(S) - 1
         /\ \A i \in 0..Cardinality(S) - 1 : \E r \in S : Cardinality(NewerThan(S, r)) = i
<1>1. Cardinality(S) \in Nat
  BY FS_CardinalityType
<1>2. ASSUME NEW r \in S  PROVE Cardinality(NewerThan(S, r)) \in 0..Cardinality(S) - 1
  <2>1. NewerThan(S, r) \in SUBSET (S \ {r})
    BY NewerOrders DEF NewerThan
  <2>2. IsFiniteSet(S \ {r}) /\ Cardinality(S \ {r}) = Cardinality(S) - 1
    BY FS_RemoveElement
  <2>3. IsFiniteSet(NewerThan(S, r)) /\ Cardinality(NewerThan(S, r)) <= Cardinality(S) - 1
    BY <2>1, <2>2, FS_Subset
  <2> QED
    BY <1>1, <2>3, FS_CardinalityType
<1> DEFINE rank == [r \in S |-> Cardinality(NewerThan(S, r))]
           T == 0..Cardinality(S) - 1
<1>3. rank \in Injection(S, T)
  <2>1. rank \in [S -> T]
    BY <1>2
  <2>2. ASSUME NEW r \in S, NEW s \in S, rank[r] = rank[s]  PROVE r = s
    <3>1. Cardinality(NewerThan(S, r)) = Cardinality(NewerThan(S, s))
          /\ Cardinality(NewerThan(S, r)) \in Nat
      BY <1>2, <2>2
    <3>2. ~Newer(r, s) /\ ~Newer(s, r)
      BY <3>1, RankGrows
    <3> QED
      BY <3>2, NewerOrders
  <2> QED
    BY <2>1, <2>2 DEF Injection, IsInjective
<1>4. IsFiniteSet(T) /\ Cardinality(T) = Cardinality(S)
  <2>1. 0 \in Int /\ Cardinality(S) - 1 \in Int
    BY <1>1
  <2>2. IsFiniteSet(T) /\ Cardinality(T) = (IF 0 > Cardinality(S) - 1 THEN 0 ELSE Cardinality(S) - 1 - 0 + 1)
    BY <2>1, FS_Interval
  <2> QED
    BY <1>1, <2>2
<1>5. rank \in Surjection(S, T)
  <2> HIDE DEF rank, T
  <2> QED
    BY <1>3, <1>4, FS_Injection
<1> QED
  BY <1>1, <1>2, <1>5 DEF Surjection

LEMMA MinOfTwo ==
  ASSUME NEW a \in Int, NEW b \in Int
  PROVE  Min({a, b}) = IF a <= b THEN a ELSE b
BY DEF Min

\* A page is sorted, and what is listed and not on it follows its cursor.
LEMMA PageShows ==
  ASSUME NEW query, NEW cursor, IsFiniteSet(rows), Keyed(rows), query.limit \in 1..100
  PROVE  LET page == Page(query, cursor)
             next == NextCursor(query, cursor)
         IN  /\ page \in Seq(Listed(query, cursor)) /\ Sorted(page)
             /\ \A row \in Listed(query, cursor) :
                  row \in ToSet(page) \/ (next # None /\ AfterCursor(row, next))
             /\ next # None => PointsTo(next, page)
<1> DEFINE S == Listed(query, cursor)
           n == Min({query.limit, Cardinality(S)})
           page == Page(query, cursor)
           next == NextCursor(query, cursor)
<1>1. S \in SUBSET rows
  BY DEF Listed
<1>2. IsFiniteSet(S) /\ Keyed(S)
  BY <1>1, FS_Subset DEF Keyed
<1>3. page = [i \in 1..n |-> CHOOSE r \in S : Cardinality(NewerThan(S, r)) = i - 1]
  BY DEF Page, NewerThan
<1>4. next = IF Cardinality(S) > query.limit THEN [at |-> Last(page).at, id |-> Last(page).id]
             ELSE None
  BY DEF NextCursor
<1> HIDE DEF page, next, S
<1>5. /\ Cardinality(S) \in Nat
      /\ \A r \in S : Cardinality(NewerThan(S, r)) \in 0..Cardinality(S) - 1
      /\ \A i \in 0..Cardinality(S) - 1 : \E r \in S : Cardinality(NewerThan(S, r)) = i
  BY <1>2, RanksAreTaken
<1>6. n = (IF query.limit <= Cardinality(S) THEN query.limit ELSE Cardinality(S))
  <2>1. query.limit \in Int /\ Cardinality(S) \in Int
    BY <1>5
  <2> QED
    BY <2>1, MinOfTwo
<1>7. n \in Nat /\ n <= Cardinality(S) /\ n <= query.limit
  BY <1>5, <1>6
<1> HIDE DEF n
<1>8. \A i \in 1..n : page[i] \in S /\ Cardinality(NewerThan(S, page[i])) = i - 1
  <2>1. TAKE i \in 1..n
  <2>2. i - 1 \in 0..Cardinality(S) - 1
    BY <1>5, <1>7
  <2>3. \E r \in S : Cardinality(NewerThan(S, r)) = i - 1
    BY <1>5, <2>2
  <2> QED
    BY <1>3, <2>3
<1>9. page \in Seq(S) /\ Len(page) = n /\ DOMAIN page = 1..n
  <2>1. page \in [1..n -> S]
    BY <1>3, <1>8
  <2> QED
    BY <1>7, <2>1
<1>10. Sorted(page)
  <2>1. SUFFICES ASSUME NEW i \in 1..n, NEW j \in 1..n, i < j  PROVE Newer(page[i], page[j])
    BY <1>9 DEF Sorted
  <2>2. /\ page[i] \in S /\ page[j] \in S
        /\ Cardinality(NewerThan(S, page[i])) < Cardinality(NewerThan(S, page[j]))
    BY <1>8, <2>1
  <2>3. page[i] # page[j] /\ ~Newer(page[j], page[i])
    <3>1. Newer(page[j], page[i]) =>
            Cardinality(NewerThan(S, page[j])) < Cardinality(NewerThan(S, page[i]))
      BY <1>2, <2>2, RankGrows
    <3> QED
      BY <1>8, <2>2, <3>1
  <2> QED
    BY <1>2, <2>2, <2>3, NewerOrders
<1>11. ASSUME NEW row \in S, row \notin ToSet(page)
       PROVE  Cardinality(S) > query.limit /\ Newer(page[n], row)
  <2>1. \A i \in 1..n : page[i] # row
    BY <1>9, <1>11 DEF ToSet
  <2>2. PICK i \in 0..Cardinality(S) - 1 : i = Cardinality(NewerThan(S, row))
    BY <1>5
  <2>3. ~(i + 1 <= n)
    <3>1. SUFFICES ASSUME i + 1 \in 1..n PROVE FALSE
      BY <1>5, <1>7, <2>2
    <3>2. page[i + 1] \in S /\ Cardinality(NewerThan(S, page[i + 1])) = i
      BY <1>8, <3>1
    <3>3. ~Newer(page[i + 1], row) /\ ~Newer(row, page[i + 1])
      BY <1>2, <2>2, <3>2, RankGrows
    <3> QED
      BY <1>2, <2>1, <3>1, <3>2, <3>3, NewerOrders
  <2>4. n = query.limit /\ n >= 1 /\ Cardinality(S) > n
    BY <1>5, <1>6, <2>2, <2>3
  <2>5. page[n] \in S /\ Cardinality(NewerThan(S, page[n])) < i
    BY <1>7, <1>8, <2>2, <2>3, <2>4
  <2>6. ~Newer(row, page[n])
    <3>1. Newer(row, page[n]) => i < Cardinality(NewerThan(S, page[n]))
      BY <1>2, <2>2, <2>5, RankGrows
    <3> QED
      BY <1>5, <2>5, <3>1
  <2> QED
    BY <1>2, <2>1, <2>4, <2>5, <2>6, NewerOrders
<1>12. Cardinality(S) > query.limit =>
         /\ n >= 1 /\ page # <<>> /\ Last(page) = page[n] /\ page[n] \in S
         /\ next.at = page[n].at /\ next.id = page[n].id /\ next # None
  <2> SUFFICES ASSUME Cardinality(S) > query.limit
               PROVE  /\ n >= 1 /\ page # <<>> /\ Last(page) = page[n] /\ page[n] \in S
                      /\ next.at = page[n].at /\ next.id = page[n].id /\ next # None
    OBVIOUS
  <2>1. n >= 1 /\ n \in 1..n
    BY <1>5, <1>6
  <2>2. page[n] \in S /\ Last(page) = page[n] /\ page # <<>>
    BY <1>8, <1>9, <2>1 DEF Last
  <2>3. next = [at |-> page[n].at, id |-> page[n].id]
    BY <1>4, <2>2
  <2>4. next \in [at: Int, id: Int]
    BY <1>2, <2>2, <2>3 DEF Keyed
  <2> QED
    BY <2>1, <2>2, <2>3, <2>4, MachineAssumption
<1>13. next # None => PointsTo(next, page)
  BY <1>4, <1>9, <1>12 DEF PointsTo
<1>14. \A row \in S : row \in ToSet(page) \/ (next # None /\ AfterCursor(row, next))
  BY <1>2, <1>11, <1>12 DEF AfterCursor, Newer, Keyed
<1> QED
  BY <1>9, <1>10, <1>13, <1>14 DEF S, page, next

-----------------------------------------------------------------------------
(* What a step of one request leaves of the others.                        *)

LEMMA RowTypes ==
  ASSUME IInv
  PROVE  IsFiniteSet(rows) /\ Keyed(rows)
BY DEF IInv, Typed, KeysFit, Known, Keyed

LEMMA OnlyIt ==
  ASSUME DOMAIN request = Requests, NEW r \in Requests, NEW new, Becomes(r, new)
  PROVE  /\ request'[r] = new /\ DOMAIN request' = Requests
         /\ \A q \in Requests : q # r => request'[q] = request[q]
BY DEF Becomes

\* The keys stay fit as long as no row is stamped.
LEMMA KeysStay ==
  ASSUME IInv, NEW r \in Requests, NEW new, Becomes(r, new),
         new.state # "stamped",
         rows' = rows \/ (request[r].state = "stamped" /\ rows' = rows \cup {request[r].row})
  PROVE  KeysFit'
<1>1. \A q \in Requests : request'[q] = IF q = r THEN new ELSE request[q]
  BY OnlyIt DEF IInv, Typed
<1>2. \A row \in Known' : row \in Known
  BY <1>1 DEF Known
<1> QED
  BY <1>2 DEF IInv, KeysFit

\* Who walks goes on walking, and rows are not deleted.
LEMMA WalkStays ==
  ASSUME IInv, rows \subseteq rows', walk' = walk,
         \A q \in Requests : Walking(q) => request'[q].query = request[q].query
  PROVE  WalkFits'
<1>1. /\ WalkFits /\ walk.seen \in Seq(rows)
  BY DEF IInv, WalkFits
<1>2. walk.seen \in Seq(rows')
  BY <1>1
<1>3. \A i \in DOMAIN walk.seen : \E r \in Requests :
         request'[r].query.cursor = "next" /\ walk.seen[i].tenant = request'[r].query.tenant
  BY <1>1 DEF WalkFits, Walking
<1> QED
  BY <1>1, <1>2, <1>3 DEF WalkFits, Walking, Sorted, Newer, Matches, PointsTo, AfterCursor

\* The walking request that does not move goes on to fit.
LEMMA WalkerStays ==
  ASSUME NEW q \in Requests, WalkerFits(q), request'[q] = request[q], walk' = walk,
         rows \subseteq rows'
  PROVE  WalkerFits(q)'
<1>1. ASSUME PageFits(q)  PROVE PageFits(q)'
  <2>1. request[q].page \in Seq(rows) /\ request[q].page \in Seq(rows')
    BY <1>1 DEF PageFits
  <2> QED
    BY <1>1, <2>1 DEF PageFits, Sorted, Newer, AfterCursor, PointsTo
<1> QED
  BY <1>1 DEF WalkerFits

LEMMA RequestMoves ==
  ASSUME IInv, NEW r \in Requests, NEW new, Becomes(r, new),
         request[r].state \notin {"unasked", "answered"}, new.query = request[r].query,
         Columned(new), new.state \in States \ {"unasked"}, new.status \in Codes, now' = now,
         rows' = rows \/ (request[r].state = "stamped" /\ rows' = rows \cup {request[r].row}),
         walk' = walk \/ Walks(r), WalkTyped', KeysFit', WalkFits',
         RecordFits(r)', Walks(r)' => WalkerFits(r)'
  PROVE  IInv'
<1>1. Typed /\ OneWalker
  BY DEF IInv
<1>2. /\ request'[r] = new /\ DOMAIN request' = Requests
      /\ \A q \in Requests : q # r => request'[q] = request[q]
  BY <1>1, OnlyIt DEF Typed
<1>3. rows \subseteq rows' /\ \A row \in rows' : row \in rows \/ row.request = r
  BY DEF IInv, RecordFits
<1>4. IsFiniteSet(rows')
  BY <1>1, FS_AddElement DEF Typed
<1>5. Typed'
  <2>1. request[r].query \in Queries
    BY <1>1 DEF Typed
  <2> QED
    BY <1>1, <1>2, <1>4, <2>1 DEF Typed, Columned
<1>6. \A q \in Requests : Walks(q)' => Walks(q)
  BY <1>2 DEF Walks, Walking
<1>7. OneWalker'
  BY <1>1, <1>6 DEF OneWalker
<1>8. ASSUME NEW q \in Requests, q # r  PROVE RecordFits(q)'
  <2>1. request'[q] = request[q] /\ RecordFits(q)
    BY <1>2, <1>8 DEF IInv
  <2>2. RowsOf(q)' = RowsOf(q)
    BY <1>3, <1>8 DEF RowsOf
  <2> QED
    BY <2>1, <2>2 DEF RecordFits, InContext, Able, Tells
<1>9. ASSUME NEW q \in Requests, q # r, Walks(q)'  PROVE WalkerFits(q)'
  <2>1. Walks(q) /\ walk' = walk
    BY <1>1, <1>6, <1>9 DEF OneWalker
  <2>2. WalkerFits(q)
    BY <2>1 DEF IInv
  <2> QED
    BY <1>2, <1>3, <1>9, <2>1, <2>2, WalkerStays
<1> QED
  BY <1>5, <1>7, <1>8, <1>9 DEF IInv

-----------------------------------------------------------------------------
(* What a handler assigns to a request leaves its other columns alone.     *)

LEMMA RowMoves ==
  ASSUME NEW r \in Requests, DOMAIN request = Requests, Columned(request[r]), NEW t, Moves(r, t)
  PROVE  \E new : /\ Becomes(r, new) /\ Columned(new)
                  /\ new.state = t /\ new.status = request[r].status
                  /\ new.query = request[r].query /\ new.cursor = request[r].cursor
                  /\ new.row = request[r].row
<1> DEFINE new == [request[r] EXCEPT !.state = t]
<1>1. Columned(new) /\ \A f \in Columns \ {"state"} : new[f] = request[r][f]
  BY Zenon DEF Columned, Columns
<1>2. new.state = t
  BY Zenon DEF Columned, Columns
<1> QED
  BY <1>1, <1>2, Zenon DEF Becomes, Moves, Columns

LEMMA RowDecides ==
  ASSUME NEW r \in Requests, DOMAIN request = Requests, Columned(request[r]), NEW s, Decide(r, s)
  PROVE  \E new : /\ Becomes(r, new) /\ Columned(new)
                  /\ new.state = "decided" /\ new.status = s
                  /\ new.query = request[r].query /\ new.cursor = request[r].cursor
<1> DEFINE new == [request[r] EXCEPT !.status = s, !.state = "decided"]
<1>1. Columned(new) /\ \A f \in Columns \ {"status", "state"} : new[f] = request[r][f]
  BY Zenon DEF Columned, Columns
<1>2. new.state = "decided" /\ new.status = s
  BY Zenon DEF Columned, Columns
<1> QED
  BY <1>1, <1>2, Zenon DEF Becomes, Decide, Columns

LEMMA RowRefuses ==
  ASSUME NEW r \in Requests, DOMAIN request = Requests, Columned(request[r]), NEW s, Refuse(r, s)
  PROVE  \E new : /\ Becomes(r, new) /\ Columned(new)
                  /\ new.state = "answered" /\ new.status = s
                  /\ new.query = request[r].query /\ new.cursor = request[r].cursor
<1> DEFINE new == [request[r] EXCEPT !.status = s, !.state = "answered"]
<1>1. Columned(new) /\ \A f \in Columns \ {"status", "state"} : new[f] = request[r][f]
  BY Zenon DEF Columned, Columns
<1>2. new.state = "answered" /\ new.status = s
  BY Zenon DEF Columned, Columns
<1> QED
  BY <1>1, <1>2, Zenon DEF Becomes, Refuse, Columns

LEMMA RowStamps ==
  ASSUME NEW r \in Requests, DOMAIN request = Requests, Columned(request[r]), NEW row, Stamps(r, row)
  PROVE  \E new : /\ Becomes(r, new) /\ Columned(new)
                  /\ new.state = "stamped" /\ new.status = request[r].status /\ new.row = row
                  /\ new.query = request[r].query /\ new.cursor = request[r].cursor
                  /\ new.page = request[r].page /\ new.next = request[r].next
<1> DEFINE new == [request[r] EXCEPT !.state = "stamped", !.row = row]
<1>1. Columned(new) /\ \A f \in Columns \ {"state", "row"} : new[f] = request[r][f]
  BY Zenon DEF Columned, Columns
<1>2. new.state = "stamped" /\ new.row = row
  BY Zenon DEF Columned, Columns
<1> QED
  BY <1>1, <1>2, Zenon DEF Becomes, Stamps, Columns

LEMMA RowShows ==
  ASSUME NEW r \in Requests, DOMAIN request = Requests, Columned(request[r]),
         NEW s, NEW page, NEW next, Shows(r, s, page, next)
  PROVE  \E new : /\ Becomes(r, new) /\ Columned(new)
                  /\ new.state = "decided" /\ new.status = s
                  /\ new.query = request[r].query /\ new.cursor = request[r].cursor
                  /\ new.page = page /\ new.next = next
<1> DEFINE new == [request[r] EXCEPT !.status = s, !.state = "decided", !.page = page, !.next = next]
<1>1. Columned(new) /\ \A f \in Columns \ {"status", "state", "page", "next"} : new[f] = request[r][f]
  BY Zenon DEF Columned, Columns
<1>2. new.state = "decided" /\ new.status = s /\ new.page = page /\ new.next = next
  BY Zenon DEF Columned, Columns
<1> QED
  BY <1>1, <1>2, Zenon DEF Becomes, Shows, Columns

LEMMA RowIsReplaced ==
  ASSUME NEW r \in Requests, DOMAIN request = Requests, Columned(request[r]),
         NEW s, NEW page, NEW next, Replaces(r, s, page, next)
  PROVE  \E new : /\ Becomes(r, new) /\ Columned(new)
                  /\ new.state = "answered" /\ new.status = s
                  /\ new.query = request[r].query /\ new.row = request[r].row
<1> DEFINE new == [request[r] EXCEPT !.state = "answered", !.status = s, !.page = page, !.next = next]
<1>1. Columned(new) /\ \A f \in Columns \ {"status", "state", "page", "next"} : new[f] = request[r][f]
  BY Zenon DEF Columned, Columns
<1>2. new.state = "answered" /\ new.status = s
  BY Zenon DEF Columned, Columns
<1> QED
  BY <1>1, <1>2, Zenon DEF Becomes, Replaces, Columns

-----------------------------------------------------------------------------
(* Steps.                                                                  *)

LEMMA OnlyTimePasses ==
  ASSUME IInv, UNCHANGED <<request, rows, walk>>, now' \in Int
  PROVE  IInv'
<1>1. Typed'
  BY DEF IInv, Typed, WalkTyped, Columned
<1>2. KeysFit'
  BY DEF IInv, KeysFit, Known
<1>3. WalkFits'
  <2>1. rows \subseteq rows' /\ walk' = walk
    OBVIOUS
  <2>2. \A q \in Requests : Walking(q) => request'[q].query = request[q].query
    OBVIOUS
  <2> QED
    BY <2>1, <2>2, WalkStays
<1>4. \A r \in Requests : Walks(r)' <=> Walks(r)
  BY DEF Walks, Walking
<1>5. OneWalker'
  BY <1>4 DEF IInv, OneWalker
<1>6. ASSUME NEW r \in Requests  PROVE RecordFits(r)'
  BY DEF IInv, RecordFits, RowsOf, InContext, Able, Tells
<1>7. ASSUME NEW r \in Requests, Walks(r)  PROVE WalkerFits(r)'
  <2>1. WalkerFits(r) /\ request'[r] = request[r] /\ rows \subseteq rows'
    BY <1>7 DEF IInv
  <2> QED
    BY <2>1, WalkerStays
<1> QED
  BY <1>1, <1>2, <1>3, <1>4, <1>5, <1>6, <1>7 DEF IInv

LEMMA TickStep ==
  ASSUME IInv, Tick
  PROVE  IInv'
<1>1. UNCHANGED <<request, rows, walk>> /\ now' \in Int
  BY DEF Tick, IInv, Typed
<1> QED
  BY <1>1, OnlyTimePasses

\* A request that is not answered yet and not walking with a page.
LEMMA RefuseFits ==
  ASSUME IInv, NEW r \in Requests, NEW new, Becomes(r, new),
         UNCHANGED <<now, rows, walk>>, request[r].state \in {"identified", "admitted", "decided"},
         new.query = request[r].query, new.cursor = request[r].cursor,
         Columned(new), new.state \in {"admitted", "decided", "answered"},
         new.status \in Codes \ {200}, RecordFits(r)'
  PROVE  IInv'
<1>1. request'[r] = new /\ \A q \in Requests : q # r => request'[q] = request[q]
  BY OnlyIt DEF IInv, Typed
<1>2. KeysFit' /\ WalkFits'
  <2>1. new.state # "stamped" /\ rows' = rows /\ walk' = walk
    OBVIOUS
  <2>2. KeysFit'
    BY <2>1, KeysStay
  <2>3. \A q \in Requests : Walking(q) => request'[q].query = request[q].query
    BY <1>1
  <2>4. rows \subseteq rows'
    BY <2>1
  <2> QED
    BY <2>1, <2>2, <2>3, <2>4, WalkStays
<1>3. Walks(r)' => WalkerFits(r)'
  <2>1. SUFFICES ASSUME Walks(r)'  PROVE WalkerFits(r)'
    OBVIOUS
  <2>2. Walks(r) /\ request'[r].status # 200
    BY <1>1, <2>1 DEF Walks, Walking
  <2>3. WalkerFits(r)
    BY <2>2 DEF IInv
  <2> QED
    BY <1>1, <2>2, <2>3 DEF WalkerFits
<1>4. WalkTyped'
  BY DEF IInv, Typed, WalkTyped
<1>5. new.state \in States \ {"unasked"} /\ new.status \in Codes
  BY DEF States
<1>6. request[r].state \notin {"unasked", "answered"}
  OBVIOUS
<1>7. now' = now /\ rows' = rows /\ walk' = walk
  OBVIOUS
<1> QED
  BY <1>2, <1>3, <1>4, <1>5, <1>6, <1>7, RequestMoves

LEMMA AdmitStep ==
  ASSUME IInv, NEW r \in Requests, Admit(r)
  PROVE  IInv'
<1> DEFINE refusal == ContextRefusal(request[r].query.claims, request[r].query.tenant,
                                     request[r].query.organization)
<1>1. /\ Columned(request[r]) /\ request[r].status \in Codes /\ RecordFits(r)
      /\ DOMAIN request = Requests
  BY DEF IInv, Typed
<1>2. request[r].state = "identified" /\ UNCHANGED <<now, rows, walk>>
  BY DEF Admit
<1>3. refusal \in {0, 403, 422}
  BY DEF ContextRefusal
<1>4. RowsOf(r) = {} /\ RowsOf(r)' = RowsOf(r)
  BY <1>1, <1>2 DEF RecordFits, RowsOf
<1>5. CASE refusal # 0
  <2>1. Refuse(r, refusal)
    BY <1>5 DEF Admit
  <2> HIDE DEF refusal
  <2>2. PICK new : /\ Becomes(r, new)
                   /\ Columned(new) /\ new.state = "answered" /\ new.status = refusal
                   /\ new.query = request[r].query /\ new.cursor = request[r].cursor
    BY <1>1, <2>1, RowRefuses
  <2> USE DEF refusal
  <2>3. request'[r] = new
    BY <1>1, <2>2, OnlyIt
  <2>4. ~InContext(r)'
    BY <1>5, <2>2, <2>3 DEF InContext, ContextRefusal
  <2>5. RecordFits(r)'
    BY <1>3, <1>4, <1>5, <2>2, <2>3, <2>4 DEF RecordFits, Scoped
  <2>6. refusal \in Codes \ {200}
    BY <1>3 DEF Codes
  <2> HIDE DEF refusal
  <2> QED
    BY <1>2, <2>2, <2>5, <2>6, RefuseFits
<1>6. CASE refusal = 0 /\ Able(r)
  <2>1. Moves(r, "admitted")
    BY <1>2, <1>6 DEF Admit, Able, Moves
  <2>2. PICK new : /\ Becomes(r, new)
                   /\ Columned(new) /\ new.state = "admitted" /\ new.status = request[r].status
                   /\ new.query = request[r].query /\ new.cursor = request[r].cursor
    BY <1>1, <2>1, RowMoves
  <2>3. request'[r] = new
    BY <1>1, <2>2, OnlyIt
  <2>4. InContext(r)' /\ Able(r)'
    BY <1>6, <2>2, <2>3 DEF InContext, ContextRefusal, Able
  <2>5. RecordFits(r)'
    BY <1>4, <2>2, <2>3, <2>4 DEF RecordFits
  <2>6. KeysFit' /\ WalkFits'
    <3>1. new.state # "stamped" /\ rows' = rows /\ walk' = walk
      BY <1>2, <2>2
    <3>2. KeysFit'
      BY <2>2, <3>1, KeysStay
    <3>3. \A q \in Requests : q # r => request'[q] = request[q]
      BY <1>1, <2>2, OnlyIt
    <3>4. \A q \in Requests : Walking(q) => request'[q].query = request[q].query
      BY <2>2, <2>3, <3>3
    <3>5. rows \subseteq rows'
      BY <3>1
    <3> QED
      BY <3>1, <3>2, <3>4, <3>5, WalkStays
  <2>7. Walks(r)' => WalkerFits(r)'
    BY <1>2, <2>2, <2>3 DEF IInv, Walks, Walking, WalkerFits
  <2>8. WalkTyped' /\ new.state \in States \ {"unasked"}
    BY <1>2, <2>2 DEF IInv, Typed, WalkTyped, States
  <2> QED
    BY <1>1, <1>2, <2>2, <2>5, <2>6, <2>7, <2>8, RequestMoves
<1>7. CASE refusal = 0 /\ ~Able(r)
  <2>1. Decide(r, 403)
    BY <1>2, <1>7 DEF Admit, Able
  <2>2. PICK new : /\ Becomes(r, new)
                   /\ Columned(new) /\ new.state = "decided" /\ new.status = 403
                   /\ new.query = request[r].query /\ new.cursor = request[r].cursor
    BY <1>1, <2>1, RowDecides
  <2>3. request'[r] = new
    BY <1>1, <2>2, OnlyIt
  <2>4. InContext(r)'
    BY <1>7, <2>2, <2>3 DEF InContext, ContextRefusal
  <2>5. RecordFits(r)'
    BY <1>4, <2>2, <2>3, <2>4 DEF RecordFits
  <2>6. /\ new.status \in Codes \ {200} /\ new.state \in {"admitted", "decided", "answered"}
        /\ request[r].state \in {"identified", "admitted", "decided"}
    BY <1>2, <2>2 DEF Codes
  <2>7. /\ UNCHANGED <<now, rows, walk>> /\ Columned(new)
        /\ new.query = request[r].query /\ new.cursor = request[r].cursor
    BY <1>2, <2>2
  <2> QED
    BY <2>2, <2>5, <2>6, <2>7, RefuseFits
<1> QED
  BY <1>5, <1>6, <1>7

LEMMA HandlerFailsStep ==
  ASSUME IInv, NEW r \in Requests, HandlerFails(r)
  PROVE  IInv'
<1>1. /\ Columned(request[r]) /\ RecordFits(r) /\ DOMAIN request = Requests
  BY DEF IInv, Typed
<1>2. request[r].state \in {"identified", "admitted"} /\ UNCHANGED <<now, rows, walk>>
  BY DEF HandlerFails
<1> DEFINE state == IF request[r].state = "identified" THEN "answered" ELSE "decided"
<1>0. state \in {"answered", "decided"} /\ (state = "answered" <=> request[r].state = "identified")
  OBVIOUS
<1>10. IF state = "answered" THEN Refuse(r, 500) ELSE Decide(r, 500)
  BY <1>0 DEF HandlerFails
<1> HIDE DEF state
<1>3. PICK new : /\ Becomes(r, new)
                 /\ Columned(new) /\ new.state = state /\ new.status = 500
                 /\ new.query = request[r].query /\ new.cursor = request[r].cursor
  <2>1. CASE state = "answered"
    BY <1>1, <1>10, <2>1, RowRefuses
  <2>2. CASE state = "decided"
    BY <1>1, <1>10, <2>2, RowDecides
  <2> QED
    BY <1>0, <2>1, <2>2
<1>4. /\ Columned(new) /\ new.state = state /\ new.status = 500
      /\ new.query = request[r].query /\ new.cursor = request[r].cursor
  BY <1>3
<1>5. request'[r] = new
  BY <1>1, <1>3, OnlyIt
<1>6. RowsOf(r) = {} /\ RowsOf(r)' = RowsOf(r)
  BY <1>1, <1>2 DEF RecordFits, RowsOf
<1>7. RecordFits(r)'
  BY <1>0, <1>1, <1>2, <1>4, <1>5, <1>6 DEF RecordFits, InContext, ContextRefusal
<1>8. /\ new.status \in Codes \ {200} /\ new.state \in {"admitted", "decided", "answered"}
      /\ request[r].state \in {"identified", "admitted", "decided"}
  BY <1>0, <1>2, <1>4 DEF Codes
<1>9. /\ UNCHANGED <<now, rows, walk>> /\ Columned(new)
      /\ new.query = request[r].query /\ new.cursor = request[r].cursor
  BY <1>2, <1>4
<1> QED
  BY <1>3, <1>7, <1>8, <1>9, RefuseFits

\* A row that is stamped gets an identifier that no other row has.
LEMMA StampStep ==
  ASSUME IInv, NEW r \in Requests, NEW id \in RowIds, Stamp(r, id)
  PROVE  IInv'
<1> DEFINE row == [id |-> id, at |-> now, tenant |-> request[r].query.tenant, request |-> r,
                   capability |-> request[r].query.capability,
                   decision |-> IF request[r].status < 400 THEN "allow" ELSE "deny",
                   status |-> request[r].status]
<1>1. /\ Columned(request[r]) /\ request[r].status \in Codes /\ RecordFits(r)
      /\ DOMAIN request = Requests /\ KeysFit /\ now \in Int
  BY DEF IInv, Typed
<1>2. /\ request[r].state = "decided" /\ UNCHANGED <<now, rows, walk>> /\ id \notin Reserved
      /\ Stamps(r, row)
  BY DEF Stamp, Stamps
<1>3. /\ row.id = id /\ row.at = now /\ row.tenant = request[r].query.tenant /\ row.request = r
      /\ row.capability = request[r].query.capability
      /\ row.decision = (IF request[r].status < 400 THEN "allow" ELSE "deny")
      /\ row.status = request[r].status
  OBVIOUS
<1> HIDE DEF row
<1>4. PICK new : /\ Becomes(r, new)
                 /\ Columned(new) /\ new.state = "stamped" /\ new.status = request[r].status
                 /\ new.query = request[r].query /\ new.cursor = request[r].cursor
                 /\ new.row = row
                 /\ new.page = request[r].page /\ new.next = request[r].next
  BY <1>1, <1>2, RowStamps
<1>5. /\ Columned(new) /\ new.state = "stamped" /\ new.status = request[r].status
      /\ new.query = request[r].query /\ new.cursor = request[r].cursor /\ new.row = row
      /\ new.page = request[r].page /\ new.next = request[r].next
  BY <1>4
<1>6. request'[r] = new /\ \A q \in Requests : q # r => request'[q] = request[q]
  BY <1>1, <1>4, OnlyIt
<1>7. KeysFit'
  <2>1. \A other \in Known' : other \in Known \/ other = row
    <3>1. SUFFICES ASSUME NEW q \in Requests, request'[q].state = "stamped"
                   PROVE  request'[q].row \in Known \/ request'[q].row = row
      BY <1>2 DEF Known
    <3>2. CASE q = r
      BY <1>5, <1>6, <3>2
    <3>3. CASE q # r
      BY <1>6, <3>1, <3>3 DEF Known
    <3> QED
      BY <3>2, <3>3
  <2>2. \A other \in Known : other.id # id
    BY <1>2 DEF Reserved, Known
  <2>3. id \in Int
    BY MachineAssumption
  <2> QED
    BY <1>1, <1>3, <2>1, <2>2, <2>3 DEF KeysFit
<1>8. WalkFits' /\ WalkTyped'
  BY <1>2, <1>5, <1>6, WalkStays DEF IInv, Typed, WalkTyped
<1>9. RowsOf(r) = {} /\ RowsOf(r)' = RowsOf(r)
  BY <1>1, <1>2 DEF RecordFits, RowsOf
<1>10. RecordFits(r)'
  BY <1>1, <1>2, <1>3, <1>5, <1>6, <1>9 DEF RecordFits, InContext, ContextRefusal, Able, Tells
<1>11. Walks(r)' => WalkerFits(r)'
  <2>1. SUFFICES ASSUME Walks(r)'  PROVE WalkerFits(r)'
    OBVIOUS
  <2>2. Walks(r) /\ WalkerFits(r)
    BY <1>2, <1>5, <1>6, <2>1 DEF Walks, Walking, IInv
  <2>3. new.status = 200 => PageFits(r)
    BY <1>2, <1>5, <2>2 DEF WalkerFits
  <2>4. request'[r].page = request[r].page /\ request'[r].next = request[r].next
        /\ request'[r].query = request[r].query /\ walk' = walk /\ rows' = rows
    BY <1>2, <1>5, <1>6
  <2>5. PageFits(r) => PageFits(r)'
    BY <2>4 DEF PageFits, Sorted, Newer, AfterCursor, PointsTo
  <2> QED
    BY <1>2, <1>5, <1>6, <2>2, <2>3, <2>5 DEF WalkerFits
<1>12. new.state \in States \ {"unasked"} /\ new.status \in Codes
       /\ request[r].state \notin {"unasked", "answered"}
  BY <1>1, <1>2, <1>5 DEF States
<1> QED
  BY <1>2, <1>4, <1>5, <1>7, <1>8, <1>10, <1>11, <1>12, RequestMoves

\* A page that is read follows the cursor of the walk.
LEMMA HandleStep ==
  ASSUME IInv, NEW r \in Requests, Handle(r)
  PROVE  IInv'
<1> DEFINE query == request[r].query
           audit == query.capability = "fintech.audit.read"
<1>1. /\ Columned(request[r]) /\ RecordFits(r) /\ query \in Queries
      /\ DOMAIN request = Requests /\ (Walks(r) => WalkerFits(r))
      /\ WalkFits /\ WalkTyped
  BY DEF IInv, Typed, Handle
<1>2. request[r].state = "admitted" /\ now' = now /\ rows' = rows
  BY DEF Handle
<1>3. RowsOf(r) = {} /\ RowsOf(r)' = RowsOf(r)
  BY <1>1, <1>2 DEF RecordFits, RowsOf
<1>4. Walking(r) => audit
  BY <1>1, MachineAssumption DEF Walking
<1>15. Columned(request[r])
  BY <1>1
<1>5. PICK new : /\ Becomes(r, new) /\ Columned(new)
                 /\ new.state = "decided" /\ new.query = query /\ new.cursor = request[r].cursor
                 /\ \/ ~audit /\ new.status = 200
                    \/ audit /\ new.status = 422
                    \/ /\ audit /\ ~BadRange(query) /\ new.status = 200
                       /\ new.page = Page(query, request[r].cursor)
                       /\ new.next = NextCursor(query, request[r].cursor)
  <2>1. CASE ~audit
    <3>1. Decide(r, 200)
      BY <2>1 DEF Handle
    <3>2. PICK new : /\ Becomes(r, new)
                     /\ Columned(new) /\ new.state = "decided" /\ new.status = 200
                     /\ new.query = query /\ new.cursor = request[r].cursor
      BY <1>1, <3>1, RowDecides
    <3> HIDE DEF audit, query
    <3> QED
      BY <2>1, <3>2
  <2>2. CASE audit /\ BadRange(query)
    <3>1. Decide(r, 422)
      BY <2>2 DEF Handle
    <3>2. PICK new : /\ Becomes(r, new)
                     /\ Columned(new) /\ new.state = "decided" /\ new.status = 422
                     /\ new.query = query /\ new.cursor = request[r].cursor
      BY <1>1, <3>1, RowDecides
    <3> HIDE DEF audit, query
    <3> QED
      BY <2>2, <3>2
  <2>3. CASE audit /\ ~BadRange(query)
    <3> DEFINE page == Page(query, request[r].cursor)
               next == NextCursor(query, request[r].cursor)
    <3>1. Shows(r, 200, page, next)
      BY <2>3 DEF Handle, Shows
    <3> HIDE DEF page, next
    <3>2. PICK new : /\ Becomes(r, new)
                     /\ Columned(new) /\ new.state = "decided" /\ new.status = 200
                     /\ new.query = query /\ new.cursor = request[r].cursor
                     /\ new.page = page /\ new.next = next
      BY <1>1, <3>1, RowShows
    <3>3. /\ new.page = Page(query, request[r].cursor)
          /\ new.next = NextCursor(query, request[r].cursor)
      BY <3>2 DEF page, next
    <3> HIDE DEF audit, query
    <3> QED
      BY <2>3, <3>2, <3>3
  <2> QED
    BY <2>1, <2>2, <2>3
<1>14. /\ Becomes(r, new) /\ Columned(new)
       /\ new.state = "decided" /\ new.query = query /\ new.cursor = request[r].cursor
  BY <1>5
<1>6. request'[r] = new /\ \A q \in Requests : q # r => request'[q] = request[q]
  BY <1>1, <1>14, OnlyIt
<1>7. KeysFit'
  <2>1. new.state # "stamped"
    BY <1>14
  <2> QED
    BY <1>2, <1>14, <2>1, KeysStay
<1>8. RecordFits(r)'
  BY <1>1, <1>2, <1>3, <1>5, <1>6 DEF RecordFits, InContext, ContextRefusal, Able
<1>9. /\ walk' = walk \/ Walks(r)
      /\ walk' = IF Walking(r) /\ walk.state = "new"
                 THEN [walk EXCEPT !.begun = Listed(query, None)] ELSE walk
  BY <1>2 DEF Handle, Walks
<1>10. /\ WalkTyped' /\ walk'.state = walk.state /\ walk'.seen = walk.seen
       /\ walk'.cursor = walk.cursor
       /\ walk'.begun = IF Walking(r) /\ walk.state = "new" THEN Listed(query, None)
                        ELSE walk.begun
  BY <1>1, <1>9 DEF WalkTyped
<1>11. WalkFits'
  <2>1. CASE walk' = walk
    BY <1>2, <1>14, <1>6, <2>1, WalkStays
  <2>2. CASE walk' # walk
    <3>1. Walking(r) /\ walk.state = "new" /\ walk'.begun = Listed(query, None)
      BY <1>9, <1>10, <2>2
    <3>2. walk'.seen = <<>> /\ walk'.cursor = None /\ walk'.state = "new"
      BY <1>1, <1>10, <3>1 DEF WalkFits
    <3>3. Listed(query, None) \subseteq rows
          /\ \A row \in Listed(query, None) : Matches(row, query)
      BY DEF Listed, Matches
    <3>4. \A other \in Queries : other.cursor = "next" =>
            other.tenant = query.tenant /\ other.from = query.from /\ other.to = query.to
      BY <1>1, <3>1, MachineAssumption DEF Walking
    <3>5. \A row \in walk'.begun, other \in Queries :
            other.cursor = "next" => Matches(row, other)
      BY <3>1, <3>3, <3>4 DEF Matches
    <3> QED
      BY <1>2, <3>1, <3>2, <3>3, <3>5 DEF WalkFits, Sorted
  <2> QED
    BY <2>1, <2>2
<1>12. Walks(r)' => WalkerFits(r)'
  <2>1. SUFFICES ASSUME Walks(r)'  PROVE WalkerFits(r)'
    OBVIOUS
  <2>2. Walking(r) /\ Walks(r) /\ WalkerFits(r)
    BY <1>1, <1>2, <1>14, <1>6, <2>1 DEF Walks, Walking
  <2>3. request[r].cursor = walk.cursor /\ walk.state # "done"
    BY <2>2 DEF WalkerFits
  <2>4. request'[r].cursor = walk'.cursor /\ walk'.state # "done"
    BY <1>14, <1>6, <1>10, <2>3
  <2>5. ASSUME new.status = 200  PROVE PageFits(r)'
    <3> DEFINE page == Page(query, walk.cursor)
               next == NextCursor(query, walk.cursor)
               S == Listed(query, walk.cursor)
    <3>1. ~BadRange(query) /\ new.page = page /\ new.next = next
      BY <1>4, <1>5, <2>2, <2>3, <2>5
    <3>2. query.limit \in 1..100
      BY <3>1 DEF BadRange
    <3>3. /\ page \in Seq(S) /\ Sorted(page)
          /\ \A row \in S : row \in ToSet(page) \/ (next # None /\ AfterCursor(row, next))
          /\ next # None => PointsTo(next, page)
      BY <3>2, RowTypes, PageShows
    <3> HIDE DEF page, next
    <3>4. S \subseteq rows /\ \A row \in S : row.tenant = query.tenant /\ AfterCursor(row, walk.cursor)
      BY DEF Listed, AfterCursor
    <3>5. \A row \in walk'.begun : row \in rows /\ Matches(row, query)
      BY <1>1, <1>2, <1>11, <2>2 DEF WalkFits, Walking
    <3>6. \A row \in walk'.begun : AfterCursor(row, walk.cursor) => row \in S
      BY <3>5 DEF Matches, Listed
    <3> HIDE DEF S
    <3>7. page \in Seq(rows) /\ \A i \in DOMAIN page : page[i] \in S
      BY <3>3, <3>4
    <3> QED
      BY <1>2, <1>5, <1>6, <1>10, <3>1, <3>3, <3>4, <3>6, <3>7
      DEF PageFits, Sorted, Newer, AfterCursor, PointsTo
  <2> QED
    BY <1>5, <1>6, <2>4, <2>5 DEF WalkerFits
<1>13. new.state \in States \ {"unasked"} /\ new.status \in Codes
       /\ request[r].state \notin {"unasked", "answered"} /\ new.query = request[r].query
       /\ Columned(new) /\ Becomes(r, new)
  BY <1>2, <1>5 DEF States, Codes
<1> QED
  BY <1>2, <1>7, <1>8, <1>9, <1>10, <1>11, <1>12, <1>13, RequestMoves

\* A request that arrives is refused before it has a context, or has one to come.
LEMMA ArriveStep ==
  ASSUME IInv, NEW r \in Requests, NEW query \in Queries, NEW reachable \in BOOLEAN,
         Arrive(r, query, reachable)
  PROVE  IInv'
<1> DEFINE cursor == IF query.cursor = "next" THEN walk.cursor ELSE None
           refusal == IF ~query.ids THEN 422
                      ELSE IF ~Configured THEN 503
                      ELSE IF query.claims = None THEN 401
                      ELSE IF ~reachable THEN 503
                      ELSE CredentialRefusal(query.claims)
           asked == [Unasked EXCEPT !.query = query, !.cursor = cursor]
           state == IF refusal = 0 THEN "identified" ELSE "answered"
           new == IF refusal = 0 THEN [asked EXCEPT !.state = "identified"]
                  ELSE [asked EXCEPT !.state = "answered", !.status = refusal]
<1>1. /\ Typed /\ KeysFit /\ WalkFits /\ OneWalker /\ RecordFits(r)
      /\ DOMAIN request = Requests /\ (request[r].state = "unasked" => request[r].query = NoQuery)
  BY DEF IInv, Typed
<1>2. /\ request[r].state = "unasked"
      /\ query.cursor = "next" =>
           /\ walk.state # "done"
           /\ \A q \in Requests : Walking(q) => request[q].state = "answered"
      /\ Becomes(r, new)
      /\ UNCHANGED <<now, rows, walk>>
  BY DEF Arrive, Becomes
<1>3. refusal \in {0, 401, 403, 422, 503}
      /\ (refusal = 403 => ~Scoped(query.claims))
  BY DEF CredentialRefusal
<1>4. /\ Columned(new) /\ new.state = state /\ new.query = query /\ new.cursor = cursor
      /\ new.status = refusal
  <2> HIDE DEF refusal, cursor
  <2> QED
    BY DEF Unasked, Columned, Columns
<1> HIDE DEF new, asked
<1>5. state \in {"identified", "answered"}
  OBVIOUS
<1>6. new.status \in Codes
  BY <1>3, <1>4 DEF Codes
<1>7. request'[r] = new /\ \A q \in Requests : q # r => request'[q] = request[q]
  BY <1>1, <1>2, OnlyIt
<1>8. KeysFit'
  <2>1. new.state # "stamped"
    BY <1>4, <1>5
  <2> QED
    BY <1>2, <2>1, KeysStay
<1>9. ~Walking(r)
  BY <1>1, <1>2, MachineAssumption DEF Walking, NoQuery
<1>10. WalkFits'
  BY <1>2, <1>7, <1>9, WalkStays
<1>11. Typed'
  <2>1. DOMAIN request' = Requests
    BY <1>1, <1>2, OnlyIt
  <2>2. new.state \in States \ {"unasked"}
    BY <1>4, <1>5 DEF States
  <2>3. \A q \in Requests :
          /\ Columned(request'[q]) /\ request'[q].state \in States /\ request'[q].status \in Codes
          /\ IF request'[q].state = "unasked" THEN request'[q].query = NoQuery
             ELSE request'[q].query \in Queries
    BY <1>1, <1>4, <1>6, <1>7, <2>2 DEF Typed
  <2> QED
    BY <1>1, <1>2, <2>1, <2>3 DEF Typed, WalkTyped, Columned
<1>12. RowsOf(r) = {} /\ \A q \in Requests : RowsOf(q)' = RowsOf(q)
  BY <1>1, <1>2 DEF RecordFits, RowsOf
<1>13. RecordFits(r)'
  <2>1. request'[r].state \in {"identified", "answered"} /\ request'[r].query = query
        /\ RowsOf(r)' = {} /\ request'[r].status = refusal
    BY <1>4, <1>5, <1>7, <1>12
  <2> HIDE DEF refusal, state
  <2> QED
    BY <1>3, <2>1 DEF RecordFits, Scoped
<1>14. ASSUME NEW q \in Requests, q # r  PROVE RecordFits(q)'
  <2>1. RecordFits(q)
    BY DEF IInv
  <2> QED
    BY <1>7, <1>12, <1>14, <2>1 DEF RecordFits, InContext, Able, Tells
<1>15. CASE query.cursor = "next" /\ state = "identified"
  <2>1. \A q \in Requests : Walks(q)' => q = r
    BY <1>2, <1>7, <1>15 DEF Walks, Walking
  <2>2. WalkerFits(r)'
    BY <1>2, <1>4, <1>7, <1>15 DEF WalkerFits
  <2> QED
    BY <1>8, <1>10, <1>11, <1>13, <1>14, <2>1, <2>2 DEF IInv, OneWalker
<1>16. CASE ~(query.cursor = "next" /\ state = "identified")
  <2>1. ~Walks(r)'
    BY <1>4, <1>5, <1>7, <1>16 DEF Walks, Walking
  <2>2. \A q \in Requests : Walks(q)' => Walks(q) /\ q # r
    BY <1>7, <2>1 DEF Walks, Walking
  <2>3. ASSUME NEW q \in Requests, Walks(q)'  PROVE WalkerFits(q)'
    <3>1. WalkerFits(q) /\ q # r
      BY <2>2, <2>3 DEF IInv
    <3> QED
      BY <1>2, <1>7, <3>1, WalkerStays
  <2>4. OneWalker'
    BY <1>1, <2>2 DEF OneWalker
  <2> QED
    BY <1>8, <1>10, <1>11, <1>13, <1>14, <2>3, <2>4 DEF IInv
<1> QED
  BY <1>15, <1>16

\* What the walk has after a page was taken.
LEMMA TakesFits ==
  ASSUME IInv, NEW r \in Requests, Walks(r), request[r].state = "stamped",
         request[r].status = 200,
         walk' = [walk EXCEPT !.state = IF request[r].next = None THEN "done" ELSE "begun",
                              !.seen = walk.seen \o request[r].page, !.cursor = request[r].next],
         rows \subseteq rows',
         \A q \in Requests : Walking(q) => request'[q].query = request[q].query
  PROVE  WalkTyped' /\ WalkFits'
<1> DEFINE page == request[r].page
           next == request[r].next
           seen == walk.seen
           all == seen \o page
<1>1. /\ WalkTyped /\ WalkFits /\ PageFits(r) /\ Keyed(rows) /\ walk.state # "done"
  BY RowTypes DEF IInv, Typed, WalkerFits
<1>2. /\ walk'.state = (IF next = None THEN "done" ELSE "begun") /\ walk'.seen = all
      /\ walk'.cursor = next /\ walk'.begun = walk.begun
      /\ DOMAIN walk' = {"state", "begun", "seen", "cursor"}
  BY <1>1 DEF WalkTyped
<1>3. WalkTyped'
  BY <1>2 DEF WalkTyped
<1>4. /\ seen \in Seq(rows) /\ Sorted(seen) /\ page \in Seq(rows) /\ Sorted(page)
      /\ \A i \in DOMAIN page : /\ page[i].tenant = request[r].query.tenant
                                /\ AfterCursor(page[i], walk.cursor)
      /\ next # None => PointsTo(next, page)
  BY <1>1 DEF WalkFits, PageFits
<1> HIDE DEF page, next, seen
<1>5. /\ all \in Seq(rows) /\ Len(seen) \in Nat /\ Len(page) \in Nat
      /\ DOMAIN all = 1..Len(seen) + Len(page)
      /\ DOMAIN seen = 1..Len(seen) /\ DOMAIN page = 1..Len(page)
      /\ \A i \in 1..Len(seen) : all[i] = seen[i]
      /\ \A i \in 1..Len(page) : all[Len(seen) + i] = page[i]
  BY <1>4
<1>6. \A k \in DOMAIN all : k \in DOMAIN seen \/ \E i \in DOMAIN page : k = Len(seen) + i
  <2>1. TAKE k \in DOMAIN all
  <2>2. CASE k > Len(seen)
    <3>1. k - Len(seen) \in DOMAIN page /\ k = Len(seen) + (k - Len(seen))
      BY <1>5, <2>2
    <3> QED
      BY <3>1
  <2>3. CASE ~(k > Len(seen))
    BY <1>5, <2>3
  <2> QED
    BY <2>2, <2>3
<1>7. \A i \in DOMAIN seen : i \in DOMAIN all /\ seen[i] = all[i]
  BY <1>5
<1>8. \A i \in DOMAIN page : Len(seen) + i \in DOMAIN all /\ page[i] = all[Len(seen) + i]
  BY <1>5
<1> HIDE DEF all
<1>9. ASSUME NEW i \in DOMAIN seen, NEW j \in DOMAIN page  PROVE Newer(seen[i], page[j])
  <2> DEFINE last == seen[Len(seen)]
  <2>1. walk.state = "begun" /\ walk.cursor # None /\ PointsTo(walk.cursor, seen)
    BY <1>1, <1>9 DEF WalkFits, seen, WalkTyped
  <2>2. last \in rows /\ seen[i] \in rows /\ page[j] \in rows /\ Len(seen) \in DOMAIN seen
    BY <1>4, <1>5, <1>9
  <2>3. Newer(last, page[j])
    <3>1. AfterCursor(page[j], walk.cursor)
      BY <1>4
    <3> QED
      BY <1>1, <2>1, <2>2, <3>1 DEF AfterCursor, PointsTo, Newer, Keyed
  <2>4. CASE i = Len(seen)
    BY <2>3, <2>4
  <2>5. CASE i # Len(seen)
    <3>1. Newer(seen[i], last)
      <4>1. Sorted(seen) /\ Len(seen) \in DOMAIN seen /\ i < Len(seen)
        BY <1>4, <1>5, <2>2, <2>5
      <4> QED
        BY <4>1 DEF Sorted
    <3> HIDE DEF last
    <3> QED
      BY <1>1, <2>2, <2>3, <3>1, NewerOrders
  <2> QED
    BY <2>4, <2>5
<1>10. Sorted(all)
  <2>1. SUFFICES ASSUME NEW k \in DOMAIN all, NEW m \in DOMAIN all, k < m
                 PROVE  Newer(all[k], all[m])
    BY DEF Sorted
  <2>2. CASE k \in DOMAIN seen /\ m \in DOMAIN seen
    BY <1>4, <1>7, <2>1, <2>2 DEF Sorted
  <2>3. CASE k \in DOMAIN seen /\ m \notin DOMAIN seen
    <3>1. PICK j \in DOMAIN page : m = Len(seen) + j
      BY <1>6, <2>3
    <3>2. all[m] = page[j] /\ all[k] = seen[k]
      BY <1>7, <1>8, <2>3, <3>1
    <3> QED
      BY <1>9, <2>3, <3>2
  <2>4. CASE k \notin DOMAIN seen
    <3>1. PICK i \in DOMAIN page : k = Len(seen) + i
      BY <1>6, <2>4
    <3>2. m \notin DOMAIN seen
      BY <1>5, <2>1, <3>1
    <3>3. PICK j \in DOMAIN page : m = Len(seen) + j
      BY <1>6, <3>2
    <3>4. i < j
      BY <1>5, <2>1, <3>1, <3>3
    <3>5. all[k] = page[i] /\ all[m] = page[j]
      BY <1>8, <3>1, <3>3
    <3> QED
      BY <1>4, <3>4, <3>5 DEF Sorted
  <2> QED
    BY <2>2, <2>3, <2>4
<1>11. ToSet(all) = ToSet(seen) \cup ToSet(page)
  <2>1. \A row : row \in ToSet(all) => row \in ToSet(seen) \cup ToSet(page)
    BY <1>6, <1>7, <1>8 DEF ToSet
  <2>2. \A row : row \in ToSet(seen) \cup ToSet(page) => row \in ToSet(all)
    BY <1>7, <1>8 DEF ToSet
  <2> QED
    BY <2>1, <2>2
<1>12. \A row \in walk.begun : row \in ToSet(all) \/ (next # None /\ AfterCursor(row, next))
  <2>1. SUFFICES ASSUME NEW row \in walk.begun
                 PROVE  row \in ToSet(all) \/ (next # None /\ AfterCursor(row, next))
    OBVIOUS
  <2>2. row \in ToSet(seen) \/ AfterCursor(row, walk.cursor)
    BY <1>1 DEF WalkFits, WalkTyped, seen, AfterCursor
  <2>3. AfterCursor(row, walk.cursor) =>
          row \in ToSet(page) \/ (next # None /\ AfterCursor(row, next))
    BY <1>1 DEF PageFits, page, next
  <2> QED
    BY <1>11, <2>2, <2>3
<1>13. next # None => PointsTo(next, all)
  <2>1. SUFFICES ASSUME next # None  PROVE PointsTo(next, all)
    OBVIOUS
  <2>2. page # <<>> /\ next.at = page[Len(page)].at /\ next.id = page[Len(page)].id
    BY <1>4, <2>1 DEF PointsTo
  <2>3. Len(page) \in DOMAIN page
    BY <1>4, <1>5, <2>2
  <2>4. Len(all) = Len(seen) + Len(page) /\ all # <<>>
    BY <1>5, <2>3
  <2> QED
    BY <1>8, <2>2, <2>3, <2>4 DEF PointsTo
<1>14. \A i \in DOMAIN all : \E q \in Requests :
         request'[q].query.cursor = "next" /\ all[i].tenant = request'[q].query.tenant
  <2>1. TAKE i \in DOMAIN all
  <2>2. CASE i \in DOMAIN seen
    <3>1. PICK q \in Requests : Walking(q) /\ seen[i].tenant = request[q].query.tenant
      BY <1>1, <2>2 DEF WalkFits, seen
    <3> QED
      BY <1>7, <2>2, <3>1 DEF Walking
  <2>3. CASE i \notin DOMAIN seen
    <3>1. PICK j \in DOMAIN page : i = Len(seen) + j
      BY <1>6, <2>3
    <3>2. all[i].tenant = request[r].query.tenant
      BY <1>4, <1>8, <3>1
    <3> QED
      BY <3>2 DEF Walks, Walking
  <2> QED
    BY <2>2, <2>3
<1>15. all \in Seq(rows')
  BY <1>5
<1>16. /\ walk'.state \in {"begun", "done"} /\ (walk'.state = "done" <=> next = None)
  BY <1>2
<1>17. walk.begun \subseteq rows' /\ \A row \in walk.begun, query \in Queries :
         query.cursor = "next" => Matches(row, query)
  BY <1>1 DEF WalkFits
<1>18. WalkFits'
  <2>1. walk'.seen \in Seq(rows')
    BY <1>2, <1>15
  <2>7. Sorted(walk.seen)'
    <3>1. \A i, j \in DOMAIN walk'.seen : i < j => Newer(walk'.seen[i], walk'.seen[j])
      BY <1>2, <1>10 DEF Sorted
    <3> QED
      BY <3>1 DEF Sorted, Newer
  <2>2. \A i \in DOMAIN walk'.seen : \E q \in Requests :
          Walking(q)' /\ walk'.seen[i].tenant = request'[q].query.tenant
    BY <1>2, <1>14 DEF Walking
  <2>3. walk'.begun \subseteq rows' /\ \A row \in walk'.begun, query \in Queries :
          query.cursor = "next" => Matches(row, query)
    BY <1>2, <1>17
  <2>4. walk'.state = "begun" =>
          /\ walk'.cursor # None /\ PointsTo(walk'.cursor, walk'.seen)
          /\ \A row \in walk'.begun : row \in ToSet(walk'.seen) \/ AfterCursor(row, walk'.cursor)
    BY <1>2, <1>12, <1>13, <1>16
  <2>5. walk'.state = "done" => walk'.begun \subseteq ToSet(walk'.seen)
    BY <1>2, <1>12, <1>16
  <2>6. walk'.state # "new"
    BY <1>16
  <2> QED
    BY <2>1, <2>2, <2>3, <2>4, <2>5, <2>6, <2>7
    DEF WalkFits, Walking, Matches, PointsTo, AfterCursor
<1> QED
  BY <1>3, <1>18

\* A request whose audit was written or failed.
LEMMA AnswerFits ==
  ASSUME IInv, NEW r \in Requests, NEW new, Becomes(r, new),
         request[r].state = "stamped", new.state = "answered", new.query = request[r].query,
         new.row = request[r].row, Columned(new), new.status \in Codes, now' = now,
         rows' = rows \/ rows' = rows \cup {request[r].row},
         new.status \in {200, 403} =>
            new.status = request[r].status /\ rows' = rows \cup {request[r].row},
         walk' = walk \/ Walks(r), WalkTyped', WalkFits'
  PROVE  IInv'
<1>1. RecordFits(r) /\ request'[r] = new
  BY OnlyIt DEF IInv, Typed
<1>2. /\ RowsOf(r) = {} /\ InContext(r) /\ request[r].row.request = r /\ Tells(r)
      /\ (request[r].status = 200 => Able(r))
  BY <1>1 DEF RecordFits
<1>3. \A row \in RowsOf(r)' : row = request[r].row
  BY <1>2 DEF RowsOf
<1>4. rows' = rows \cup {request[r].row} => request[r].row \in RowsOf(r)'
  BY <1>2 DEF RowsOf
<1>5. RecordFits(r)'
  BY <1>1, <1>2, <1>3, <1>4 DEF RecordFits, InContext, ContextRefusal, Able, Tells
<1>6. KeysFit'
  <2>1. new.state # "stamped"
    OBVIOUS
  <2>2. rows' = rows \/ (request[r].state = "stamped" /\ rows' = rows \cup {request[r].row})
    OBVIOUS
  <2> QED
    BY <2>1, <2>2, KeysStay
<1>7. ~Walks(r)'
  BY <1>1 DEF Walks
<1>8. new.state \in States \ {"unasked"} /\ request[r].state \notin {"unasked", "answered"}
  BY DEF States
<1> QED
  BY <1>5, <1>6, <1>7, <1>8, RequestMoves

LEMMA CommitAuditStep ==
  ASSUME IInv, NEW r \in Requests, CommitAudit(r)
  PROVE  IInv'
<1>1. /\ Columned(request[r]) /\ request[r].status \in Codes /\ DOMAIN request = Requests
  BY DEF IInv, Typed
<1>2. /\ request[r].state = "stamped" /\ rows' = rows \cup {request[r].row} /\ now' = now
      /\ Moves(r, "answered") /\ Takes(r)
  BY DEF CommitAudit, Moves
<1>6. PICK new : /\ Becomes(r, new)
                 /\ Columned(new) /\ new.state = "answered" /\ new.query = request[r].query
                 /\ new.status = request[r].status /\ new.row = request[r].row
  BY <1>1, <1>2, RowMoves
<1>3. /\ Columned(new) /\ new.state = "answered" /\ new.query = request[r].query
      /\ new.status = request[r].status /\ new.row = request[r].row
  BY <1>6
<1>4. \A q \in Requests : Walking(q) => request'[q].query = request[q].query
  <2>1. request'[r] = new /\ \A q \in Requests : q # r => request'[q] = request[q]
    BY <1>1, <1>6, OnlyIt
  <2> QED
    BY <1>3, <2>1
<1>5. /\ walk' = walk \/ Walks(r)
      /\ WalkTyped' /\ WalkFits'
  <2>1. CASE Walking(r) /\ request[r].status = 200
    <3>1. Walks(r)
      BY <1>2, <2>1 DEF Walks
    <3>2. walk' = [walk EXCEPT !.state = IF request[r].next = None THEN "done" ELSE "begun",
                               !.seen = walk.seen \o request[r].page, !.cursor = request[r].next]
      BY <1>2, <2>1 DEF Takes
    <3> QED
      BY <1>2, <1>4, <2>1, <3>1, <3>2, TakesFits
  <2>2. CASE ~(Walking(r) /\ request[r].status = 200)
    <3>1. walk' = walk
      BY <1>2, <2>2 DEF Takes
    <3> QED
      BY <1>2, <1>4, <3>1, WalkStays DEF IInv, Typed, WalkTyped
  <2> QED
    BY <2>1, <2>2
<1> QED
  BY <1>1, <1>2, <1>3, <1>5, <1>6, AnswerFits

LEMMA AuditFailsStep ==
  ASSUME IInv, NEW r \in Requests, NEW kept \in BOOLEAN, AuditFails(r, kept)
  PROVE  IInv'
<1>0. PICK status, empty : status = 500 /\ empty = <<>>
  OBVIOUS
<1>1. /\ Columned(request[r]) /\ DOMAIN request = Requests
  BY DEF IInv, Typed
<1>8. Replaces(r, status, empty, None)
  BY <1>0 DEF AuditFails, Replaces
<1>9. PICK new : /\ Becomes(r, new)
                 /\ Columned(new) /\ new.state = "answered" /\ new.status = status
                 /\ new.query = request[r].query /\ new.row = request[r].row
  BY <1>1, <1>8, RowIsReplaced
<1>2. /\ request[r].state = "stamped" /\ UNCHANGED <<now, walk>>
      /\ rows' = rows \/ rows' = rows \cup {request[r].row}
      /\ Becomes(r, new)
  BY <1>9 DEF AuditFails
<1>3. /\ Columned(new) /\ new.state = "answered" /\ new.query = request[r].query
      /\ new.status = status /\ new.row = request[r].row
  BY <1>9
<1>4. \A q \in Requests : Walking(q) => request'[q].query = request[q].query
  <2>1. request'[r] = new /\ \A q \in Requests : q # r => request'[q] = request[q]
    BY <1>1, <1>9, OnlyIt
  <2> QED
    BY <1>3, <2>1
<1>5. WalkTyped' /\ WalkFits'
  BY <1>2, <1>4, WalkStays DEF IInv, Typed, WalkTyped
<1>6. new.status \in Codes /\ new.status \notin {200, 403}
  BY <1>0, <1>3 DEF Codes
<1>7. /\ Columned(new) /\ new.state = "answered" /\ new.query = request[r].query
      /\ new.row = request[r].row
  BY <1>3
<1> QED
  BY <1>2, <1>5, <1>6, <1>7, AnswerFits

-----------------------------------------------------------------------------
(* The invariant is inductive.                                             *)

LEMMA Initially == Init => IInv
<1> SUFFICES ASSUME Init PROVE IInv
  OBVIOUS
<1>1. \A r \in Requests : /\ Columned(request[r]) /\ request[r].state = "unasked"
                          /\ request[r].status = 0 /\ request[r].query = NoQuery
  BY DEF Init, Unasked, Columned, Columns
<1>2. /\ walk.state = "new" /\ walk.begun = {} /\ walk.seen = <<>> /\ walk.cursor = None
      /\ DOMAIN walk = {"state", "begun", "seen", "cursor"}
  BY DEF Init, NewWalk
<1>3. /\ IsFiniteSet(rows) /\ Keyed(rows) /\ \A row \in rows : row.request \notin Requests
  BY MachineAssumption DEF Init, Keyed
<1>4. Typed
  BY <1>1, <1>2, <1>3 DEF Init, Typed, WalkTyped, States, Codes
<1>5. KeysFit
  BY <1>1, <1>3 DEF KeysFit, Known, Keyed
<1>6. \A r \in Requests : ~Walks(r)
  BY <1>1, MachineAssumption DEF Walks, Walking, NoQuery
<1>7. WalkFits /\ OneWalker
  BY <1>2, <1>6 DEF WalkFits, Sorted, OneWalker
<1>8. \A r \in Requests : RecordFits(r)
  BY <1>1, <1>3 DEF RecordFits, RowsOf
<1> QED
  BY <1>4, <1>5, <1>6, <1>7, <1>8 DEF IInv

LEMMA Inductive == IInv /\ [Next]_vars => IInv'
<1> SUFFICES ASSUME IInv, [Next]_vars PROVE IInv'
  OBVIOUS
<1>1. CASE UNCHANGED vars
  <2>1. UNCHANGED <<request, rows, walk>> /\ now' \in Int
    BY <1>1 DEF vars, IInv, Typed
  <2> QED
    BY <2>1, OnlyTimePasses
<1>2. ASSUME NEW r \in Requests, NEW query \in Queries, NEW reachable \in BOOLEAN,
             Arrive(r, query, reachable)
      PROVE  IInv'
  BY <1>2, ArriveStep
<1>3. ASSUME NEW r \in Requests,
             Admit(r) \/ Handle(r) \/ HandlerFails(r) \/ CommitAudit(r)
      PROVE  IInv'
  BY <1>3, AdmitStep, HandleStep, HandlerFailsStep, CommitAuditStep
<1>4. ASSUME NEW r \in Requests,
             \/ \E id \in RowIds : Stamp(r, id)
             \/ \E kept \in BOOLEAN : AuditFails(r, kept)
      PROVE  IInv'
  BY <1>4, StampStep, AuditFailsStep
<1> QED
  BY <1>1, <1>2, <1>3, <1>4, TickStep DEF Next

-----------------------------------------------------------------------------
(* Theorems.                                                               *)

\* The inductive invariant holds of every reachable state: rows have keys of
\* their own, requests agree with the rows they have stamped, and one request
\* at a time walks the audit, with the cursor of the walk.
THEOREM Invariance == Spec => []IInv
BY Initially, Inductive, PTL DEF Spec

\* Data reach a machine only with a row that says so, in the audit of the
\* tenant it asked for; a denial by capability leaves one as well, and no
\* request leaves two (m2m_audit_middleware, require_m2m_capability).
THEOREM OnRecord == Spec => []EveryAnswerIsOnRecord
<1>1. IInv => EveryAnswerIsOnRecord
  <2>1. SUFFICES ASSUME IInv, NEW r \in Requests, request[r].state = "answered"
                 PROVE  LET query  == request[r].query
                            status == request[r].status
                            claims == query.claims
                            Told(decision) == \E row \in RowsOf(r) :
                               /\ row.tenant = query.tenant /\ row.capability = query.capability
                               /\ row.decision = decision /\ row.status = status
                        IN  /\ Cardinality(RowsOf(r)) <= 1
                            /\ RowsOf(r) # {} => /\ query.tenant \in claims.tenant_scope
                                                 /\ Tenants[query.tenant] = query.organization
                            /\ status = 200 => Told("allow") /\ query.capability \in claims.capabilities
                            /\ status = 403 /\ Scoped(claims)
                               /\ ContextRefusal(claims, query.tenant, query.organization) = 0
                                 => Told("deny")
    BY DEF EveryAnswerIsOnRecord, Answered
  <2>2. RecordFits(r)
    BY <2>1 DEF IInv
  <2>3. Cardinality(RowsOf(r)) <= 1
    <3>1. RowsOf(r) \in SUBSET {request[r].row}
      BY <2>2 DEF RecordFits
    <3>2. IsFiniteSet({request[r].row}) /\ Cardinality({request[r].row}) = 1
      BY FS_Singleton
    <3> QED
      BY <3>1, <3>2, FS_Subset
  <2>4. RowsOf(r) # {} => /\ request[r].query.tenant \in request[r].query.claims.tenant_scope
                          /\ Tenants[request[r].query.tenant] = request[r].query.organization
    <3>1. RowsOf(r) # {} => InContext(r)
      BY <2>2 DEF RecordFits
    <3> QED
      BY <3>1 DEF InContext, ContextRefusal
  <2>5. request[r].status = 200 =>
           /\ Able(r) /\ request[r].row \in RowsOf(r) /\ Tells(r)
           /\ request[r].row.decision = "allow"
    BY <2>1, <2>2 DEF RecordFits, Tells
  <2>6. request[r].status = 403 /\ Scoped(request[r].query.claims) /\ InContext(r) =>
           /\ request[r].row \in RowsOf(r) /\ Tells(r) /\ request[r].row.decision = "deny"
    BY <2>1, <2>2 DEF RecordFits, Tells
  <2> QED
    BY <2>3, <2>4, <2>5, <2>6 DEF Able, InContext, Tells
<1> QED
  BY <1>1, Invariance, PTL

\* A client that reads the audit to its end gets every row there was when it
\* began, in order and none twice, whatever the page sizes, however many rows
\* are of one moment and whoever adds to it meanwhile (audit_events).
THEOREM Walk == Spec => []WalksMissNothing
<1>1. IInv => WalksMissNothing
  <2>1. SUFFICES ASSUME IInv PROVE WalksMissNothing
    OBVIOUS
  <2>2. WalkFits
    BY <2>1 DEF IInv
  <2>3. \A i \in DOMAIN walk.seen : walk.seen[i] \in rows
    BY <2>2 DEF WalkFits
  <2> QED
    BY <2>2, <2>3 DEF WalkFits, Sorted, WalksMissNothing
<1> QED
  BY <1>1, Invariance, PTL

-----------------------------------------------------------------------------
(* Streams of events, by induction over the lines.                         *)

\* A set of natural numbers that is not empty has a least one.
LEMMA LeastNatural ==
    ASSUME NEW T \in SUBSET Nat, T # {}
    PROVE  \E x \in T : \A y \in T : x <= y
<1> DEFINE R == OpToRel(<, Nat)
<1>1. IsWellFoundedOn(R, Nat)
  BY NatLessThanWellFounded
<1>2. \A x, y \in Nat : y < x => <<y, x>> \in R
  BY DEF R, OpToRel
<1> HIDE DEF R
<1>3. PICK x \in T : \A y \in T : ~ (<<y, x>> \in R)
  BY <1>1, WFMin
<1>4. ASSUME NEW y \in T, ~ (x <= y)
      PROVE  FALSE
  <2>1. x \in Nat /\ y \in Nat /\ y < x
    BY <1>4
  <2>2. <<y, x>> \in R
    BY <1>2, <2>1
  <2> QED
    BY <1>3, <2>2
<1> QED
  BY <1>4

\* What holds of 0, and of n + 1 when of n, holds of every number.
LEMMA StepByStep ==
    ASSUME NEW S, 0 \in S, \A n \in Nat : n \in S => n + 1 \in S
    PROVE  \A n \in Nat : n \in S
<1> SUFFICES ASSUME Nat \ S # {}
             PROVE  FALSE
  OBVIOUS
<1>1. PICK m \in Nat \ S : \A y \in Nat \ S : m <= y
  BY LeastNatural
<1>2. m # 0 /\ m - 1 \in Nat
  BY <1>1
<1>3. m - 1 \in S
  BY <1>1, <1>2
<1>4. (m - 1) + 1 \in S
  BY <1>2, <1>3
<1> QED
  BY <1>1, <1>4

-----------------------------------------------------------------------------
(* Sizes of what has been read.                                            *)

Sizes(b, n) ==
    LET size[k \in 0..n] == IF k = 0 THEN 0 ELSE size[k - 1] + Size(b[k])
    IN  size

\* f holds the sizes of the first lines of b.
IsSizes(f, b, n) ==
    /\ f = [i \in 0..n |-> f[i]]
    /\ f[0] = 0
    /\ \A i \in 1..n : f[i] = f[i - 1] + Size(b[i])

LEMMA SizesExist ==
    ASSUME NEW b, NEW n \in Nat
    PROVE  \E f : IsSizes(f, b, n)
<1> DEFINE S == {k \in Nat : \E f : IsSizes(f, b, k)}
<1>1. 0 \in S
  <2>1. IsSizes([i \in 0..0 |-> 0], b, 0)
    BY DEF IsSizes
  <2> QED
    BY <2>1
<1>2. ASSUME NEW k \in Nat, k \in S
      PROVE  k + 1 \in S
  <2>1. PICK f : IsSizes(f, b, k)
    BY <1>2
  <2>2. PICK g : g = [i \in 0..k + 1 |-> IF i = k + 1 THEN f[k] + Size(b[k + 1]) ELSE f[i]]
    OBVIOUS
  <2>3. g[0] = 0
    BY <2>1, <2>2 DEF IsSizes
  <2>4. ASSUME NEW i \in 1..k + 1
        PROVE  g[i] = g[i - 1] + Size(b[i])
    <3>1. CASE i = k + 1
      <4>1. i \in 0..k + 1 /\ i - 1 \in 0..k + 1 /\ i - 1 = k /\ k # k + 1
        BY <3>1
      <4>2. g[i] = f[k] + Size(b[k + 1]) /\ g[k] = f[k]
        BY <2>2, <3>1, <4>1
      <4> QED
        BY <3>1, <4>1, <4>2
    <3>2. CASE i # k + 1
      <4>1. i \in 1..k /\ i \in 0..k + 1 /\ i - 1 \in 0..k + 1 /\ i - 1 # k + 1
        BY <3>2
      <4>2. g[i] = f[i] /\ g[i - 1] = f[i - 1]
        BY <2>2, <3>2, <4>1
      <4> QED
        BY <2>1, <4>1, <4>2 DEF IsSizes
    <3> QED
      BY <3>1, <3>2
  <2>5. g = [i \in 0..k + 1 |-> g[i]]
    BY <2>2
  <2>6. IsSizes(g, b, k + 1)
    BY <2>3, <2>4, <2>5 DEF IsSizes
  <2> QED
    BY <2>6
<1> HIDE DEF S
<1>3. n \in S
  BY <1>1, <1>2, StepByStep
<1> QED
  BY <1>3 DEF S

LEMMA SizesRun ==
    ASSUME NEW b, NEW n \in Nat
    PROVE  IsSizes(Sizes(b, n), b, n)
<1>1. PICK f : IsSizes(f, b, n)
  BY SizesExist
<1>2. f = [i \in 0..n |-> IF i = 0 THEN 0 ELSE f[i - 1] + Size(b[i])]
  <2>1. ASSUME NEW i \in 0..n
        PROVE  f[i] = IF i = 0 THEN 0 ELSE f[i - 1] + Size(b[i])
    <3>1. i = 0 \/ i \in 1..n
      OBVIOUS
    <3> QED
      BY <1>1, <3>1 DEF IsSizes
  <2> QED
    BY <1>1, <2>1 DEF IsSizes
<1>3. Sizes(b, n) = [i \in 0..n |-> IF i = 0 THEN 0 ELSE Sizes(b, n)[i - 1] + Size(b[i])]
  BY <1>2 DEF Sizes
<1> HIDE DEF Sizes
<1> QED
  BY <1>3 DEF IsSizes

LEMMA SizeIsLast ==
    ASSUME NEW b, NEW n
    PROVE  SizeOf(b, n) = Sizes(b, n)[n]
BY DEF SizeOf, Sizes

\* One line more adds its size.
LEMMA SizeGrows ==
    ASSUME NEW b, NEW n \in Nat
    PROVE  SizeOf(b, 0) = 0 /\ SizeOf(b, n + 1) = SizeOf(b, n) + Size(b[n + 1])
<1> DEFINE f == Sizes(b, n)
           g == Sizes(b, n + 1)
           S == {j \in Nat : j <= n => f[j] = g[j]}
<1>0. IsSizes(f, b, n) /\ IsSizes(g, b, n + 1) /\ IsSizes(Sizes(b, 0), b, 0)
  BY SizesRun
<1> HIDE DEF f, g
<1>1. 0 \in S
  BY <1>0 DEF IsSizes
<1>2. ASSUME NEW j \in Nat, j \in S
      PROVE  j + 1 \in S
  <2> SUFFICES ASSUME j + 1 <= n
               PROVE  f[j + 1] = g[j + 1]
    OBVIOUS
  <2>1. f[j] = g[j]
    BY <1>2
  <2>2. j + 1 \in 1..n /\ j + 1 \in 1..n + 1 /\ (j + 1) - 1 = j
    OBVIOUS
  <2>3. f[j + 1] = f[j] + Size(b[j + 1]) /\ g[j + 1] = g[j] + Size(b[j + 1])
    BY <1>0, <2>2 DEF IsSizes
  <2> QED
    BY <2>1, <2>3
<1> HIDE DEF S
<1>3. n \in S
  BY <1>1, <1>2, StepByStep
<1>4. f[n] = g[n]
  BY <1>3 DEF S
<1>5. g[n + 1] = g[n] + Size(b[n + 1])
  <2>1. n + 1 \in 1..n + 1 /\ (n + 1) - 1 = n
    OBVIOUS
  <2> QED
    BY <1>0, <2>1 DEF IsSizes
<1>6. SizeOf(b, 0) = 0
  BY <1>0, SizeIsLast DEF IsSizes
<1> QED
  BY <1>4, <1>5, <1>6, SizeIsLast DEF f, g

LEMMA SizeWhole ==
    ASSUME NEW b, Answer(b), NEW n \in Nat, n <= Len(b)
    PROVE  SizeOf(b, n) \in Int
<1> DEFINE S == {k \in Nat : k <= n => SizeOf(b, k) \in Int}
<1>1. 0 \in S
  BY SizeGrows
<1>2. ASSUME NEW k \in Nat, k \in S
      PROVE  k + 1 \in S
  <2> SUFFICES ASSUME k + 1 <= n
               PROVE  SizeOf(b, k + 1) \in Int
    OBVIOUS
  <2>1. Size(b[k + 1]) \in Int
    <3>1. k + 1 \in DOMAIN b
      BY DEF Answer
    <3> QED
      BY <3>1 DEF Answer, Size
  <2>2. SizeOf(b, k) \in Int
    BY <1>2
  <2> QED
    BY <2>1, <2>2, SizeGrows
<1> HIDE DEF S
<1>3. n \in S
  BY <1>1, <1>2, StepByStep
<1> QED
  BY <1>3 DEF S

-----------------------------------------------------------------------------
(* The inductive invariant of a stream.                                    *)

Lines(b, i) == [j \in Fields(b, i, "data") |-> b[j].data]

IsLeast(m, S) == m \in S /\ \A x \in S : m <= x
IsGreatest(m, S) == m \in S /\ \A x \in S : x <= m

\* As much is written, and the same first and last.
SameWritten(f, g) ==
    LET V == Written(f)
        W == Written(g)
    IN  /\ Cardinality(V) = Cardinality(W)
        /\ V = {} <=> W = {}
        /\ V # {} => \E v1 \in V, v2 \in V, w1 \in W, w2 \in W :
              /\ IsLeast(v1, V) /\ IsGreatest(v2, V) /\ IsLeast(w1, W) /\ IsGreatest(w2, W)
              /\ f[v1] = g[w1] /\ f[v2] = g[w2]

DataLines(b) == {i \in DOMAIN b : b[i].field = "data"}

\* After n lines of b the parser has this name, these lines and bytes.
NameFits(b, n, name) ==
    IF Fields(b, n + 1, "event") = {} THEN name = Absent
    ELSE \E m \in Fields(b, n + 1, "event") :
           IsGreatest(m, Fields(b, n + 1, "event")) /\ name = b[m].name

LinesFit(b, n, lines) ==
    /\ lines = <<>> <=> Fields(b, n + 1, "data") = {}
    /\ SameWritten(lines, Lines(b, n + 1))

BytesFit(b, n, bytes) ==
    /\ bytes \in Int /\ bytes <= MaxEventBytes
    /\ \E s \in {0} \cup StopsBefore(b, n + 1) :
         /\ IsGreatest(s, {0} \cup StopsBefore(b, n + 1))
         /\ bytes = SizeOf(b, n) - SizeOf(b, s)

SmallUpTo(b, n) == \A i \in 1..n : Counted(b, i) <= MaxEventBytes

Reads(b, n, name, lines, bytes) ==
    NameFits(b, n, name) /\ LinesFit(b, n, lines) /\ BytesFit(b, n, bytes) /\ SmallUpTo(b, n)

\* All of b has been read, and the count of events is complete.
Finished(b, n, name, lines, count) ==
    /\ n = Len(b) /\ name = Absent /\ lines = <<>>
    /\ SmallUpTo(b, Len(b))
    /\ count = Cardinality(EventStops(b))

\* The events es are those of b, as far as they go.
SaidIn(b) == {Said(b, i) : i \in EventStops(b)}

Begin(es, b) ==
    /\ es \in Seq(SaidIn(b))
    /\ Len(es) <= Cardinality(EventStops(b))
    /\ \A k \in 1..Len(es) : es[k] = Events(b)[k]

\* What is known of the events es once they have passed the checks.
NumberAt(es, k) == SequenceOf(es[k].data)
Numbered(es) == {k \in DOMAIN es : NumberAt(es, k) # Absent}
Adjacent(S, j, k) == j \in S /\ k \in S /\ j < k /\ \A m \in S : ~(j < m /\ m < k)

IdsFit(es, id) ==
    /\ \A k \in DOMAIN es : ExecutionId(es[k].data) \in {Absent, id}
    /\ id # Absent => \E k \in DOMAIN es : ExecutionId(es[k].data) = id

NumbersFit(es, last) ==
    /\ IF last = Absent THEN Numbered(es) = {}
       ELSE \E m \in Numbered(es) : IsGreatest(m, Numbered(es)) /\ last = NumberAt(es, m)
    /\ \A j, k : Adjacent(Numbered(es), j, k) => NumberAt(es, k) = NumberAt(es, j) + 1

Passed(es, count, id, last, done) ==
    /\ \A k \in DOMAIN es : Parses(es[k].name, es[k].data)
    /\ count = Len(es) /\ count <= MaxEvents
    /\ \A k \in 1..Len(es) : es[k].name = "done" <=> (k = Len(es) /\ done)
    /\ done => es # <<>>
    /\ IdsFit(es, id) /\ NumbersFit(es, last)

DataOf(b) == {b[i].data : i \in DataLines(b)}

Fresh ==
    /\ body = <<>> /\ at = 0 /\ event_name = Absent /\ data_lines = <<>> /\ event_bytes = 0
    /\ events = <<>> /\ event_count = 0 /\ expected_execution_id = Absent
    /\ last_sequence = Absent /\ done_seen = FALSE

StreamInv ==
    /\ body \in Bodies \cup {<<>>} /\ at \in 0..Len(body)
    /\ done_seen \in BOOLEAN
    /\ Begin(events, body)
    /\ data_lines \in Seq(DataOf(body))
    /\ phase = "idle" => Fresh
    /\ Reading =>
         /\ Passed(events, event_count, expected_execution_id, last_sequence, done_seen)
         /\ \/ /\ Reads(body, at, event_name, data_lines, event_bytes)
               /\ Len(events) = Cardinality(StopsBefore(body, at + 1))
            \/ Finished(body, at, event_name, data_lines, Len(events))
    /\ phase = "OK" => Whole(body) /\ Len(events) = Cardinality(EventStops(body))
    /\ phase = "CONTRACT" => ~Whole(body)

-----------------------------------------------------------------------------
(* Blocks and events of an answer.                                         *)

LEMMA MaxIsGreatest ==
    ASSUME NEW S \in SUBSET Int, NEW m, IsGreatest(m, S)
    PROVE  Max(S) = m
<1>1. m \in S /\ \A x \in S : m >= x
  BY DEF IsGreatest
<1>2. Max(S) \in S /\ \A x \in S : Max(S) >= x
  BY <1>1 DEF Max
<1>3. m \in Int /\ Max(S) \in Int
  BY <1>1, <1>2
<1>4. m <= Max(S) /\ Max(S) <= m
  BY <1>1, <1>2, <1>3
<1> QED
  BY <1>3, <1>4

LEMMA MinIsLeast ==
    ASSUME NEW S \in SUBSET Int, NEW m, IsLeast(m, S)
    PROVE  Min(S) = m
<1>1. m \in S /\ \A x \in S : m <= x
  BY DEF IsLeast
<1>2. Min(S) \in S /\ \A x \in S : Min(S) <= x
  BY <1>1 DEF Min
<1>3. m \in Int /\ Min(S) \in Int
  BY <1>1, <1>2
<1>4. m <= Min(S) /\ Min(S) <= m
  BY <1>1, <1>2, <1>3
<1> QED
  BY <1>3, <1>4

\* A block starts anew after a blank line and goes on after any other.
LEMMA FieldsGrow ==
    ASSUME NEW b, NEW n \in Nat, NEW field, field # "blank"
    PROVE  /\ Fields(b, 1, field) = {}
           /\ Fields(b, n + 1, field) \in SUBSET (1..n)
           /\ b[n + 1].field = "blank" => Fields(b, n + 2, field) = {}
           /\ b[n + 1].field # "blank" =>
                Fields(b, n + 2, field) =
                   Fields(b, n + 1, field) \cup {j \in {n + 1} : b[j].field = field}
<1>1. Fields(b, 1, field) = {} /\ Fields(b, n + 1, field) \in SUBSET (1..n)
  BY DEF Fields
<1>2. ASSUME b[n + 1].field = "blank", NEW j \in Fields(b, n + 2, field)
      PROVE  FALSE
  <2>1. j \in 1..n + 1 /\ \A k \in j..n + 1 : b[k].field # "blank"
    BY DEF Fields
  <2>2. n + 1 \in j..n + 1
    BY <2>1
  <2> QED
    BY <1>2, <2>1, <2>2
<1>3. ASSUME b[n + 1].field # "blank", NEW j
      PROVE  j \in Fields(b, n + 2, field) <=>
               j \in Fields(b, n + 1, field) \/ (j = n + 1 /\ b[j].field = field)
  <2>1. j \in Fields(b, n + 2, field) <=>
          j \in 1..n + 1 /\ b[j].field = field /\ \A k \in j..n + 1 : b[k].field # "blank"
    BY DEF Fields
  <2>2. j \in Fields(b, n + 1, field) <=>
          j \in 1..n /\ b[j].field = field /\ \A k \in j..n : b[k].field # "blank"
    BY DEF Fields
  <2>3. j \in 1..n + 1 => \A k : k \in j..n + 1 <=> (k \in j..n \/ k = n + 1)
    OBVIOUS
  <2>4. j \in 1..n + 1 <=> j \in 1..n \/ j = n + 1
    OBVIOUS
  <2>5. j = n + 1 => ~ \E k : k \in j..n
    OBVIOUS
  <2> QED
    BY <1>3, <2>1, <2>2, <2>3, <2>4, <2>5
<1> QED
  BY <1>1, <1>2, <1>3

LEMMA StopsGrow ==
    ASSUME NEW b, NEW n \in Nat, Answer(b)
    PROVE  /\ EventStops(b) \in SUBSET (1..Len(b) + 1)
           /\ StopsBefore(b, 1) = {}
           /\ StopsBefore(b, n + 2) = StopsBefore(b, n + 1) \cup {j \in {n + 1} : j \in EventStops(b)}
           /\ n + 1 \in EventStops(b) <=>
                /\ (n + 1 \in 1..Len(b) /\ b[n + 1].field = "blank") \/ n = Len(b)
                /\ Fields(b, n + 1, "event") # {} \/ Fields(b, n + 1, "data") # {}
<1>1. DOMAIN b = 1..Len(b) /\ Len(b) \in Nat
  BY DEF Answer
<1>2. Stops(b) \in SUBSET (1..Len(b) + 1)
  BY <1>1 DEF Stops
<1>3. EventStops(b) \in SUBSET (1..Len(b) + 1)
  BY <1>2 DEF EventStops
<1>4. StopsBefore(b, 1) = {}
  BY <1>1, <1>3 DEF StopsBefore
<1>5. StopsBefore(b, n + 2) = StopsBefore(b, n + 1) \cup {j \in {n + 1} : j \in EventStops(b)}
  <2>1. \A j \in EventStops(b) : j < n + 2 <=> j < n + 1 \/ j = n + 1
    BY <1>1, <1>3
  <2> QED
    BY <2>1 DEF StopsBefore
<1>6. n + 1 \in Stops(b) <=> (n + 1 \in 1..Len(b) /\ b[n + 1].field = "blank") \/ n = Len(b)
  <2>0. \A k \in Nat : (n + 1 = k + 1) <=> (n = k)
    OBVIOUS
  <2>1. n + 1 = Len(b) + 1 <=> n = Len(b)
    BY <1>1, <2>0
  <2>2. n + 1 \in Stops(b) <=> (n + 1 \in DOMAIN b /\ b[n + 1].field = "blank") \/ n + 1 = Len(b) + 1
    BY DEF Stops
  <2> QED
    BY <1>1, <2>1, <2>2
<1>7. n + 1 \in EventStops(b) <=>
        n + 1 \in Stops(b) /\ (Fields(b, n + 1, "event") # {} \/ Fields(b, n + 1, "data") # {})
  BY DEF EventStops
<1> QED
  BY <1>3, <1>4, <1>5, <1>6, <1>7

LEMMA StopsFinite ==
    ASSUME NEW b, Answer(b), NEW i \in Int
    PROVE  /\ IsFiniteSet(EventStops(b)) /\ Cardinality(EventStops(b)) \in Nat
           /\ IsFiniteSet(StopsBefore(b, i)) /\ Cardinality(StopsBefore(b, i)) \in Nat
           /\ Cardinality(StopsBefore(b, i)) <= Cardinality(EventStops(b))
           /\ StopsBefore(b, i) \in SUBSET EventStops(b)
<1>1. Len(b) \in Nat /\ EventStops(b) \in SUBSET (1..Len(b) + 1)
  BY StopsGrow DEF Answer
<1>2. IsFiniteSet(1..Len(b) + 1)
  BY <1>1, FS_Interval
<1>3. IsFiniteSet(EventStops(b))
  BY <1>1, <1>2, FS_Subset
<1>4. StopsBefore(b, i) \in SUBSET EventStops(b)
  BY DEF StopsBefore
<1> QED
  BY <1>3, <1>4, FS_Subset, FS_CardinalityType

\* The events before a stop are as many as the stops before it.
LEMMA EventAt ==
    ASSUME NEW b, Answer(b), NEW i \in EventStops(b)
    PROVE  /\ Cardinality(StopsBefore(b, i)) + 1 \in 1..Cardinality(EventStops(b))
           /\ Events(b)[Cardinality(StopsBefore(b, i)) + 1] = Said(b, i)
<1>1. EventStops(b) \in SUBSET Int /\ i \in Int
  BY StopsGrow DEF Answer
<1>2. \A j \in EventStops(b) :
        /\ IsFiniteSet(StopsBefore(b, j)) /\ Cardinality(StopsBefore(b, j)) \in Nat
        /\ StopsBefore(b, j) \in SUBSET EventStops(b) /\ j \notin StopsBefore(b, j)
  BY <1>1, StopsFinite DEF StopsBefore
<1>3. IsFiniteSet(EventStops(b)) /\ Cardinality(EventStops(b)) \in Nat
  BY <1>1, StopsFinite
<1>4. \A j, k \in EventStops(b) : j < k =>
        Cardinality(StopsBefore(b, j)) < Cardinality(StopsBefore(b, k))
  <2> SUFFICES ASSUME NEW j \in EventStops(b), NEW k \in EventStops(b), j < k
               PROVE  Cardinality(StopsBefore(b, j)) < Cardinality(StopsBefore(b, k))
    OBVIOUS
  <2>1. StopsBefore(b, j) \cup {j} \in SUBSET StopsBefore(b, k)
    BY <1>1 DEF StopsBefore
  <2>2. Cardinality(StopsBefore(b, j) \cup {j}) = Cardinality(StopsBefore(b, j)) + 1
    BY <1>2, FS_AddElement
  <2>3. Cardinality(StopsBefore(b, j) \cup {j}) <= Cardinality(StopsBefore(b, k))
    BY <1>2, <2>1, FS_Subset
  <2> QED
    BY <1>2, <2>2, <2>3
<1>5. Cardinality(StopsBefore(b, i)) + 1 \in 1..Cardinality(EventStops(b))
  <2>1. StopsBefore(b, i) \cup {i} \in SUBSET EventStops(b)
    BY <1>2
  <2>2. Cardinality(StopsBefore(b, i) \cup {i}) = Cardinality(StopsBefore(b, i)) + 1
    BY <1>2, FS_AddElement
  <2>3. Cardinality(StopsBefore(b, i) \cup {i}) <= Cardinality(EventStops(b))
    BY <1>3, <2>1, FS_Subset
  <2> QED
    BY <1>2, <1>3, <2>2, <2>3
<1>6. PICK c \in Nat : c = Cardinality(StopsBefore(b, i))
  BY <1>2
<1>7. (CHOOSE j \in EventStops(b) : Cardinality(StopsBefore(b, j)) = c) = i
  <2>1. \A j \in EventStops(b) : Cardinality(StopsBefore(b, j)) = c => j = i
    <3> SUFFICES ASSUME NEW j \in EventStops(b), Cardinality(StopsBefore(b, j)) = c, j # i
                 PROVE  FALSE
      OBVIOUS
    <3>1. j < i \/ i < j
      BY <1>1
    <3> QED
      BY <1>2, <1>4, <1>6, <3>1
  <2> QED
    BY <1>6, <2>1
<1>8. Events(b)[c + 1] = Said(b, CHOOSE j \in EventStops(b) : Cardinality(StopsBefore(b, j)) = (c + 1) - 1)
  BY <1>5, <1>6 DEF Events
<1>9. (c + 1) - 1 = c
  OBVIOUS
<1> QED
  BY <1>5, <1>6, <1>7, <1>8, <1>9

LEMMA EventsDomain ==
    ASSUME NEW b, Answer(b)
    PROVE  /\ DOMAIN Events(b) = 1..Cardinality(EventStops(b))
           /\ Len(Events(b)) = Cardinality(EventStops(b))
           /\ Len(Events(b)) \in Nat
<1>1. Cardinality(EventStops(b)) \in Nat
  BY StopsFinite
<1>2. DOMAIN Events(b) = 1..Cardinality(EventStops(b))
  BY DEF Events
<1> QED
  BY <1>1, <1>2

\* The size up to line i of what follows the last stop before it.
LEMMA CountedSince ==
    ASSUME NEW b, Answer(b), NEW i \in Int,
           NEW s, IsGreatest(s, {0} \cup StopsBefore(b, i))
    PROVE  Counted(b, i) = SizeOf(b, i) - SizeOf(b, s)
<1>1. {0} \cup StopsBefore(b, i) \in SUBSET Int
  BY StopsGrow DEF Answer, StopsBefore
<1>2. Max({0} \cup StopsBefore(b, i)) = s
  BY <1>1, MaxIsGreatest
<1> QED
  BY <1>2 DEF Counted

\* What is written on the lines decides what they say together.
LEMMA SamePayload ==
    ASSUME NEW f, NEW g, Written(f) \in SUBSET Int, Written(g) \in SUBSET Int, SameWritten(f, g)
    PROVE  Payload(f) = Payload(g)
<1> DEFINE V == Written(f)
           W == Written(g)
<1>1. CASE V = {}
  <2>1. W = {}
    BY <1>1 DEF SameWritten
  <2> QED
    BY <1>1, <2>1 DEF Payload
<1>2. CASE V # {}
  <2>1. PICK v1 \in V, v2 \in V, w1 \in W, w2 \in W :
              /\ IsLeast(v1, V) /\ IsGreatest(v2, V) /\ IsLeast(w1, W) /\ IsGreatest(w2, W)
              /\ f[v1] = g[w1] /\ f[v2] = g[w2]
    BY <1>2 DEF SameWritten
  <2>2. Min(V) = v1 /\ Max(V) = v2 /\ Min(W) = w1 /\ Max(W) = w2
    BY <2>1, MinIsLeast, MaxIsGreatest
  <2>3. Cardinality(V) = Cardinality(W) /\ W # {}
    BY <2>1 DEF SameWritten
  <2> QED
    BY <1>2, <2>1, <2>2, <2>3 DEF Payload
<1> QED
  BY <1>1, <1>2

-----------------------------------------------------------------------------
(* One line more.                                                          *)

LEMMA NameGrows ==
    ASSUME NEW b, NEW n \in Nat, NEW name, NameFits(b, n, name)
    PROVE  /\ b[n + 1].field = "blank" => NameFits(b, n + 1, Absent)
           /\ b[n + 1].field = "event" => NameFits(b, n + 1, b[n + 1].name)
           /\ b[n + 1].field \notin {"blank", "event"} => NameFits(b, n + 1, name)
<1> DEFINE F == Fields(b, n + 1, "event")
           G == Fields(b, n + 2, "event")
<1>1. (n + 1) + 1 = n + 2
  OBVIOUS
<1>2. F \in SUBSET (1..n) /\ (b[n + 1].field = "blank" => G = {})
  BY FieldsGrow
<1>3. b[n + 1].field # "blank" => G = F \cup {j \in {n + 1} : b[j].field = "event"}
  BY FieldsGrow
<1>4. CASE b[n + 1].field = "blank"
  BY <1>1, <1>2, <1>4 DEF NameFits
<1>5. CASE b[n + 1].field = "event"
  <2>1. G = F \cup {n + 1}
    BY <1>3, <1>5
  <2>2. IsGreatest(n + 1, G)
    BY <1>2, <2>1 DEF IsGreatest
  <2>3. n + 1 \in G /\ G # {}
    BY <2>1
  <2>4. NameFits(b, n + 1, b[n + 1].name)
    BY <1>1, <2>2, <2>3 DEF NameFits
  <2> QED
    BY <1>5, <2>4
<1>6. CASE b[n + 1].field \notin {"blank", "event"}
  <2>1. G = F
    BY <1>3, <1>6
  <2>2. NameFits(b, n + 1, name)
    BY <1>1, <2>1 DEF NameFits
  <2> QED
    BY <1>6, <2>2
<1> QED
  BY <1>4, <1>5, <1>6

\* A written line more, on a function as on another.
LEMMA WrittenGrows ==
    ASSUME NEW f, NEW p, p \notin DOMAIN f, NEW f2, DOMAIN f2 = DOMAIN f \cup {p},
           \A x \in DOMAIN f : f2[x] = f[x]
    PROVE  Written(f2) = IF f2[p].text = "blank" THEN Written(f) ELSE Written(f) \cup {p}
BY DEF Written

\* f2 is f and one more position p.
Longer(f, p, f2) ==
    /\ p \in Int /\ DOMAIN f \in SUBSET Int /\ \A x \in DOMAIN f : x < p
    /\ DOMAIN f2 = DOMAIN f \cup {p} /\ \A x \in DOMAIN f : f2[x] = f[x]

LEMMA SameWrittenGrows ==
    ASSUME NEW f, NEW g, SameWritten(f, g),
           IsFiniteSet(Written(f)), IsFiniteSet(Written(g)),
           NEW p, NEW q, NEW f2, NEW g2, Longer(f, p, f2), Longer(g, q, g2), f2[p] = g2[q]
    PROVE  SameWritten(f2, g2)
<1>0. /\ p \in Int /\ DOMAIN f \in SUBSET Int /\ \A x \in DOMAIN f : x < p
      /\ q \in Int /\ DOMAIN g \in SUBSET Int /\ \A x \in DOMAIN g : x < q
      /\ DOMAIN f2 = DOMAIN f \cup {p} /\ \A x \in DOMAIN f : f2[x] = f[x]
      /\ DOMAIN g2 = DOMAIN g \cup {q} /\ \A x \in DOMAIN g : g2[x] = g[x]
  BY DEF Longer
<1> DEFINE V == Written(f)
           W == Written(g)
           V2 == Written(f2)
           W2 == Written(g2)
<1>1. p \notin DOMAIN f /\ q \notin DOMAIN g
  BY <1>0
<1>2. V2 = IF f2[p].text = "blank" THEN V ELSE V \cup {p}
  BY <1>0, <1>1, WrittenGrows
<1>3. W2 = IF f2[p].text = "blank" THEN W ELSE W \cup {q}
  BY <1>0, <1>1, WrittenGrows
<1>4. V \in SUBSET DOMAIN f /\ W \in SUBSET DOMAIN g
  BY DEF Written
<1>5. /\ Cardinality(V) = Cardinality(W)
      /\ V = {} <=> W = {}
  BY DEF SameWritten
<1>6. ASSUME V # {}
      PROVE  \E v1 \in V, v2 \in V, w1 \in W, w2 \in W :
              /\ IsLeast(v1, V) /\ IsGreatest(v2, V) /\ IsLeast(w1, W) /\ IsGreatest(w2, W)
              /\ f[v1] = g[w1] /\ f[v2] = g[w2]
  BY <1>6 DEF SameWritten
<1> HIDE DEF V, W, V2, W2
<1>7. CASE f2[p].text = "blank"
  <2>1. V2 = V /\ W2 = W
    BY <1>2, <1>3, <1>7
  <2>2. ASSUME V2 # {}
        PROVE  \E v1 \in V2, v2 \in V2, w1 \in W2, w2 \in W2 :
              /\ IsLeast(v1, V2) /\ IsGreatest(v2, V2) /\ IsLeast(w1, W2) /\ IsGreatest(w2, W2)
              /\ f2[v1] = g2[w1] /\ f2[v2] = g2[w2]
    <3>1. PICK v1 \in V, v2 \in V, w1 \in W, w2 \in W :
              /\ IsLeast(v1, V) /\ IsGreatest(v2, V) /\ IsLeast(w1, W) /\ IsGreatest(w2, W)
              /\ f[v1] = g[w1] /\ f[v2] = g[w2]
      BY <1>6, <2>1, <2>2
    <3>2. f2[v1] = f[v1] /\ f2[v2] = f[v2] /\ g2[w1] = g[w1] /\ g2[w2] = g[w2]
      BY <1>0, <1>4
    <3>3. /\ IsLeast(v1, V2) /\ IsGreatest(v2, V2) /\ IsLeast(w1, W2) /\ IsGreatest(w2, W2)
          /\ f2[v1] = g2[w1] /\ f2[v2] = g2[w2]
          /\ v1 \in V2 /\ v2 \in V2 /\ w1 \in W2 /\ w2 \in W2
      BY <2>1, <3>1, <3>2
    <3> QED
      BY <3>3, Zenon
  <2> QED
    BY <1>5, <2>1, <2>2 DEF SameWritten, V2, W2
<1>8. CASE f2[p].text # "blank"
  <2>1. V2 = V \cup {p} /\ W2 = W \cup {q}
    BY <1>2, <1>3, <1>8
  <2>2. Cardinality(V2) = Cardinality(V) + 1 /\ Cardinality(W2) = Cardinality(W) + 1
    <3>1. p \notin V /\ q \notin W
      BY <1>1, <1>4
    <3>2. IsFiniteSet(V) /\ IsFiniteSet(W)
      BY DEF V, W
    <3> QED
      BY <2>1, <3>1, <3>2, FS_AddElement
  <2>3. IsGreatest(p, V2) /\ IsGreatest(q, W2) /\ p \in V2 /\ q \in W2
    <3>1. \A x \in V2 : x <= p
      BY <1>0, <1>4, <2>1
    <3>2. \A x \in W2 : x <= q
      BY <1>0, <1>4, <2>1
    <3> QED
      BY <2>1, <3>1, <3>2 DEF IsGreatest
  <2>4. \E v1 \in V2, w1 \in W2 : IsLeast(v1, V2) /\ IsLeast(w1, W2) /\ f2[v1] = g2[w1]
    <3>1. CASE V = {}
      <4>1. V2 = {p} /\ W2 = {q}
        BY <1>5, <2>1, <3>1
      <4> QED
        BY <1>0, <4>1 DEF IsLeast
    <3>2. CASE V # {}
      <4>1. PICK v1 \in V, w1 \in W :
              IsLeast(v1, V) /\ IsLeast(w1, W) /\ f[v1] = g[w1]
        BY <1>6, <3>2
      <4>2. f2[v1] = f[v1] /\ g2[w1] = g[w1] /\ v1 \in V2 /\ w1 \in W2
        BY <1>0, <1>4, <2>1
      <4>3. IsLeast(v1, V2) /\ IsLeast(w1, W2)
        <5>1. v1 <= p /\ w1 <= q
          BY <1>0, <1>4
        <5> QED
          BY <2>1, <4>1, <4>2, <5>1 DEF IsLeast
      <4> QED
        BY <4>1, <4>2, <4>3
    <3> QED
      BY <3>1, <3>2
  <2>5. PICK v1 \in V2, w1 \in W2 : IsLeast(v1, V2) /\ IsLeast(w1, W2) /\ f2[v1] = g2[w1]
    BY <2>4
  <2>6. /\ IsLeast(v1, V2) /\ IsGreatest(p, V2) /\ IsLeast(w1, W2) /\ IsGreatest(q, W2)
        /\ f2[v1] = g2[w1] /\ f2[p] = g2[q]
        /\ v1 \in V2 /\ p \in V2 /\ w1 \in W2 /\ q \in W2
    BY <2>3, <2>5
  <2>7. \E u1 \in V2, u2 \in V2, x1 \in W2, x2 \in W2 :
              /\ IsLeast(u1, V2) /\ IsGreatest(u2, V2) /\ IsLeast(x1, W2) /\ IsGreatest(x2, W2)
              /\ f2[u1] = g2[x1] /\ f2[u2] = g2[x2]
    BY <2>6, Zenon
  <2>8. Cardinality(V2) = Cardinality(W2) /\ V2 # {} /\ W2 # {}
    BY <1>5, <2>2, <2>3
  <2> QED
    BY <2>7, <2>8 DEF SameWritten, V2, W2
<1> QED
  BY <1>7, <1>8

LEMMA LinesDomain ==
    ASSUME NEW b, NEW i \in Nat
    PROVE  /\ DOMAIN Lines(b, i) = Fields(b, i, "data")
           /\ \A j \in Fields(b, i, "data") : Lines(b, i)[j] = b[j].data
           /\ DOMAIN Lines(b, i) \in SUBSET (1..i - 1)
           /\ Written(Lines(b, i)) \in SUBSET Int /\ IsFiniteSet(Written(Lines(b, i)))
<1>1. DOMAIN Lines(b, i) = Fields(b, i, "data")
      /\ \A j \in Fields(b, i, "data") : Lines(b, i)[j] = b[j].data
  BY DEF Lines
<1>2. Fields(b, i, "data") \in SUBSET (1..i - 1)
  BY DEF Fields
<1>3. Written(Lines(b, i)) \in SUBSET DOMAIN Lines(b, i)
  BY DEF Written
<1>4. IsFiniteSet(1..i - 1) /\ (1..i - 1) \in SUBSET Int
  BY FS_Interval
<1>5. Written(Lines(b, i)) \in SUBSET (1..i - 1)
  BY <1>1, <1>2, <1>3
<1> QED
  BY <1>1, <1>2, <1>4, <1>5, FS_Subset

LEMMA SeqWritten ==
    ASSUME NEW D, NEW lines \in Seq(D)
    PROVE  /\ Len(lines) \in Nat /\ DOMAIN lines = 1..Len(lines)
           /\ Written(lines) \in SUBSET Int /\ IsFiniteSet(Written(lines))
<1>1. Len(lines) \in Nat /\ DOMAIN lines = 1..Len(lines)
  OBVIOUS
<1>2. Written(lines) \in SUBSET (1..Len(lines))
  BY <1>1 DEF Written
<1>3. IsFiniteSet(1..Len(lines)) /\ (1..Len(lines)) \in SUBSET Int
  BY <1>1, FS_Interval
<1> QED
  BY <1>1, <1>2, <1>3, FS_Subset

LEMMA LinesGrow ==
    ASSUME NEW b, NEW n \in Nat, NEW D, NEW lines \in Seq(D), LinesFit(b, n, lines),
           n + 1 \in DOMAIN b
    PROVE  /\ b[n + 1].field = "blank" => LinesFit(b, n + 1, <<>>)
           /\ b[n + 1].field = "data" /\ b[n + 1].data \in D =>
                LinesFit(b, n + 1, Append(lines, b[n + 1].data))
           /\ b[n + 1].field \notin {"blank", "data"} => LinesFit(b, n + 1, lines)
<1> DEFINE F == Fields(b, n + 1, "data")
           G == Fields(b, n + 2, "data")
<1>1. (n + 1) + 1 = n + 2
  OBVIOUS
<1>2. F \in SUBSET (1..n) /\ (b[n + 1].field = "blank" => G = {})
  BY FieldsGrow
<1>3. b[n + 1].field # "blank" => G = F \cup {j \in {n + 1} : b[j].field = "data"}
  BY FieldsGrow
<1>4. CASE b[n + 1].field = "blank"
  <2>1. G = {}
    BY <1>2, <1>4
  <2>2. Written(Lines(b, n + 2)) = {} /\ Written(<<>>) = {}
    BY <2>1 DEF Lines, Written
  <2>3. SameWritten(<<>>, Lines(b, n + 2))
    BY <2>2 DEF SameWritten
  <2>4. LinesFit(b, n + 1, <<>>)
    BY <1>1, <2>1, <2>3 DEF LinesFit
  <2> QED
    BY <1>4, <2>4
<1>5. ASSUME b[n + 1].field = "data", b[n + 1].data \in D
      PROVE  LinesFit(b, n + 1, Append(lines, b[n + 1].data))
  <2> DEFINE f2 == Append(lines, b[n + 1].data)
             g == Lines(b, n + 1)
             g2 == Lines(b, n + 2)
             p == Len(lines) + 1
  <2>1. G = F \cup {n + 1}
    BY <1>3, <1>5
  <2>2. /\ SameWritten(lines, g)
        /\ IsFiniteSet(Written(lines)) /\ IsFiniteSet(Written(g))
    BY SeqWritten, LinesDomain DEF LinesFit
  <2>3. /\ Len(lines) \in Nat /\ DOMAIN lines = 1..Len(lines) /\ p = Len(lines) + 1
        /\ f2 \in Seq(D) /\ Len(f2) = p /\ DOMAIN f2 = 1..p
        /\ f2[p] = b[n + 1].data
    <3>1. Len(lines) \in Nat /\ DOMAIN lines = 1..Len(lines)
      BY SeqWritten
    <3>2. f2 \in Seq(D) /\ Len(f2) = p /\ DOMAIN f2 = 1..p
      BY <1>5, <3>1
    <3>3. f2[p] = b[n + 1].data
      BY <1>5, <3>1
    <3> QED
      BY <3>1, <3>2, <3>3
  <2>4. \A x \in 1..Len(lines) : f2[x] = lines[x]
    BY <1>5, <2>3
  <2>8. /\ DOMAIN g = F /\ DOMAIN g2 = G
        /\ \A x \in F : g[x] = b[x].data
        /\ \A x \in G : g2[x] = b[x].data
    BY LinesDomain
  <2> HIDE DEF f2, g, g2, p, F, G
  <2>9. Longer(lines, p, f2)
    <3>1. p \in Int /\ DOMAIN lines \in SUBSET Int /\ \A x \in DOMAIN lines : x < p
      BY <2>3
    <3>2. DOMAIN f2 = DOMAIN lines \cup {p}
      BY <2>3
    <3>3. \A x \in DOMAIN lines : f2[x] = lines[x]
      BY <2>3, <2>4
    <3> QED
      BY <3>1, <3>2, <3>3 DEF Longer
  <2>10. Longer(g, n + 1, g2)
    <3>1. n + 1 \in Int /\ \A x \in F : x \in Int /\ x < n + 1
      BY <1>2
    <3>2. DOMAIN g \in SUBSET Int /\ \A x \in DOMAIN g : x < n + 1
      BY <2>8, <3>1
    <3>3. DOMAIN g2 = DOMAIN g \cup {n + 1} /\ \A x \in DOMAIN g : g2[x] = g[x]
      BY <2>1, <2>8
    <3> QED
      BY <3>1, <3>2, <3>3 DEF Longer
  <2>11. f2[p] = g2[n + 1]
    BY <2>1, <2>3, <2>8
  <2>5. SameWritten(f2, g2)
    BY <2>2, <2>9, <2>10, <2>11, SameWrittenGrows
  <2>6. n + 1 \in G
    BY <2>1
  <2>7. f2 = <<>> <=> G = {}
    <3>1. f2 # <<>>
      BY <2>3
    <3> QED
      BY <2>6, <3>1
  <2> QED
    BY <1>1, <2>5, <2>7 DEF LinesFit, f2, g2, G
<1>6. CASE b[n + 1].field \notin {"blank", "data"}
  <2>1. G = F
    BY <1>3, <1>6
  <2>2. Lines(b, n + 2) = Lines(b, n + 1)
    BY <2>1 DEF Lines
  <2>3. LinesFit(b, n + 1, lines)
    BY <1>1, <2>1, <2>2 DEF LinesFit
  <2> QED
    BY <1>6, <2>3
<1> QED
  BY <1>4, <1>5, <1>6

\* The bytes count on, from anew after an event.
LEMMA BytesGrow ==
    ASSUME NEW b, Answer(b), NEW n \in Nat, n + 1 \in DOMAIN b,
           NEW bytes, BytesFit(b, n, bytes)
    PROVE  /\ Counted(b, n + 1) = bytes + Size(b[n + 1])
           /\ Size(b[n + 1]) \in Nat /\ bytes + Size(b[n + 1]) \in Int
           /\ n + 1 \in EventStops(b) => BytesFit(b, n + 1, 0)
           /\ n + 1 \notin EventStops(b) /\ bytes + Size(b[n + 1]) <= MaxEventBytes =>
                BytesFit(b, n + 1, bytes + Size(b[n + 1]))
<1> DEFINE P == StopsBefore(b, n + 1)
           Q == StopsBefore(b, n + 2)
<1>1. n + 1 \in Int /\ n + 1 <= Len(b) /\ (n + 1) + 1 = n + 2 /\ n <= Len(b)
  BY DEF Answer
<1>2. Size(b[n + 1]) \in Nat
  BY DEF Answer, Size
<1>3. PICK s \in {0} \cup P : IsGreatest(s, {0} \cup P) /\ bytes = SizeOf(b, n) - SizeOf(b, s)
  BY DEF BytesFit
<1>4. Q = P \cup {j \in {n + 1} : j \in EventStops(b)}
  BY StopsGrow
<1>5. \A x \in {0} \cup P : x \in 0..n
  <2>1. EventStops(b) \in SUBSET (1..Len(b) + 1) /\ Len(b) \in Nat
    BY StopsGrow DEF Answer
  <2> QED
    BY <2>1 DEF StopsBefore
<1>6. /\ SizeOf(b, n) \in Int /\ SizeOf(b, s) \in Int /\ SizeOf(b, n + 1) \in Int
      /\ SizeOf(b, n + 1) = SizeOf(b, n) + Size(b[n + 1])
  <2>1. s \in Nat /\ s <= Len(b)
    BY <1>1, <1>3, <1>5
  <2> QED
    BY <1>1, <2>1, SizeWhole, SizeGrows
<1>7. Counted(b, n + 1) = SizeOf(b, n + 1) - SizeOf(b, s)
  BY <1>1, <1>3, CountedSince
<1>8. bytes + Size(b[n + 1]) = SizeOf(b, n + 1) - SizeOf(b, s)
  BY <1>2, <1>3, <1>6
<1>9. ASSUME n + 1 \in EventStops(b)
      PROVE  BytesFit(b, n + 1, 0)
  <2>1. Q = P \cup {n + 1}
    BY <1>4, <1>9
  <2>2. n + 1 \in {0} \cup Q /\ IsGreatest(n + 1, {0} \cup Q)
    BY <1>5, <2>1 DEF IsGreatest
  <2>3. 0 = SizeOf(b, n + 1) - SizeOf(b, n + 1)
    BY <1>6
  <2>4. MaxEventBytes \in Nat
    BY StreamAssumption
  <2>5. \E t \in {0} \cup Q : IsGreatest(t, {0} \cup Q) /\ 0 = SizeOf(b, n + 1) - SizeOf(b, t)
    BY <2>2, <2>3
  <2> QED
    BY <1>1, <2>4, <2>5 DEF BytesFit
<1>10. ASSUME n + 1 \notin EventStops(b), bytes + Size(b[n + 1]) <= MaxEventBytes
       PROVE  BytesFit(b, n + 1, bytes + Size(b[n + 1]))
  <2>1. Q = P
    BY <1>4, <1>10
  <2>2. \E t \in {0} \cup Q :
          IsGreatest(t, {0} \cup Q) /\ bytes + Size(b[n + 1]) = SizeOf(b, n + 1) - SizeOf(b, t)
    BY <1>3, <1>8, <2>1
  <2> QED
    BY <1>1, <1>6, <1>8, <1>10, <2>2 DEF BytesFit
<1> QED
  BY <1>2, <1>6, <1>7, <1>8, <1>9, <1>10

LEMMA SmallGrows ==
    ASSUME NEW b, NEW n \in Nat, SmallUpTo(b, n), Counted(b, n + 1) <= MaxEventBytes
    PROVE  SmallUpTo(b, n + 1)
<1>1. \A i \in 1..n + 1 : i \in 1..n \/ i = n + 1
  OBVIOUS
<1> QED
  BY <1>1 DEF SmallUpTo

-----------------------------------------------------------------------------
(* One event more.                                                         *)

\* What is pending before a stop is the event of its block.
LEMMA EventFlushed ==
    ASSUME NEW b, Answer(b), NEW n \in Nat, NEW D, NEW lines \in Seq(D), NEW name, NEW bytes,
           Reads(b, n, name, lines, bytes),
           (n + 1 \in 1..Len(b) /\ b[n + 1].field = "blank") \/ n = Len(b),
           name # Absent \/ lines # <<>>
    PROVE  /\ n + 1 \in EventStops(b)
           /\ Said(b, n + 1) = [name |-> name, data |-> Payload(lines)]
<1>1. n + 1 \in EventStops(b)
  <2>1. Fields(b, n + 1, "event") # {} \/ Fields(b, n + 1, "data") # {}
    BY DEF Reads, NameFits, LinesFit
  <2> QED
    BY <2>1, StopsGrow
<1>2. Payload(lines) = Payload(Lines(b, n + 1))
  <2>1. SameWritten(lines, Lines(b, n + 1))
    BY DEF Reads, LinesFit
  <2> QED
    BY <2>1, SeqWritten, LinesDomain, SamePayload
<1> DEFINE F == Fields(b, n + 1, "event")
<1>3. (IF F = {} THEN Absent ELSE b[Max(F)].name) = name
  <2>1. CASE F = {}
    BY <2>1 DEF Reads, NameFits
  <2>2. CASE F # {}
    <3>1. PICK m \in F : IsGreatest(m, F) /\ name = b[m].name
      BY <2>2 DEF Reads, NameFits
    <3>2. F \in SUBSET Int
      BY DEF Fields
    <3>3. Max(F) = m
      BY <3>1, <3>2, MaxIsGreatest
    <3> QED
      BY <2>2, <3>1, <3>3
  <2> QED
    BY <2>1, <2>2
<1>4. Said(b, n + 1) =
        [name |-> IF F = {} THEN Absent ELSE b[Max(F)].name, data |-> Payload(Lines(b, n + 1))]
  BY DEF Said, Lines
<1> QED
  BY <1>1, <1>2, <1>3, <1>4

\* Where nothing is pending no event ends.
LEMMA NothingPending ==
    ASSUME NEW b, Answer(b), NEW n \in Nat, n <= Len(b), NEW lines, NEW bytes,
           Reads(b, n, Absent, lines, bytes), lines = <<>>
    PROVE  n + 1 \notin EventStops(b)
<1>1. Fields(b, n + 1, "data") = {}
  BY DEF Reads, LinesFit
<1>2. Fields(b, n + 1, "event") = {}
  <2> SUFFICES ASSUME Fields(b, n + 1, "event") # {}
               PROVE  FALSE
    OBVIOUS
  <2>1. PICK m \in Fields(b, n + 1, "event") : Absent = b[m].name
    BY DEF Reads, NameFits
  <2>2. m \in DOMAIN b /\ b[m].field = "event"
    BY FieldsGrow DEF Fields, Answer
  <2> QED
    BY <2>1, <2>2 DEF Answer
<1> QED
  BY <1>1, <1>2 DEF EventStops

\* The next event of an answer joins those taken before.
LEMMA EventTaken ==
    ASSUME NEW b, Answer(b), NEW n \in Nat, n + 1 \in EventStops(b),
           NEW es, Begin(es, b), Len(es) = Cardinality(StopsBefore(b, n + 1))
    PROVE  /\ Said(b, n + 1) \in SaidIn(b)
           /\ Len(es) + 1 \in 1..Cardinality(EventStops(b))
           /\ Events(b)[Len(es) + 1] = Said(b, n + 1)
           /\ Begin(Append(es, Said(b, n + 1)), b)
           /\ Len(es) + 1 = Cardinality(StopsBefore(b, n + 2))
<1>1. /\ Len(es) + 1 \in 1..Cardinality(EventStops(b))
      /\ Events(b)[Len(es) + 1] = Said(b, n + 1)
  BY EventAt
<1>2. PICK e : e = Said(b, n + 1)
  OBVIOUS
<1>3. e \in SaidIn(b)
  BY <1>2 DEF SaidIn
<1>4. es \in Seq(SaidIn(b)) /\ \A k \in 1..Len(es) : es[k] = Events(b)[k]
  BY DEF Begin
<1>5. Begin(Append(es, e), b)
  <2>1. /\ Append(es, e) \in Seq(SaidIn(b)) /\ Len(Append(es, e)) = Len(es) + 1
        /\ Len(es) \in Nat
        /\ Append(es, e)[Len(es) + 1] = e
        /\ \A k \in 1..Len(es) : Append(es, e)[k] = es[k]
    BY <1>3, <1>4
  <2>2. \A k \in 1..Len(es) + 1 : k \in 1..Len(es) \/ k = Len(es) + 1
    BY <2>1
  <2>3. \A k \in 1..Len(es) + 1 : Append(es, e)[k] = Events(b)[k]
    BY <1>1, <1>2, <1>4, <2>1, <2>2
  <2>4. Len(es) + 1 <= Cardinality(EventStops(b))
    BY <1>1, StopsFinite
  <2> QED
    BY <2>1, <2>3, <2>4 DEF Begin
<1>6. Len(es) + 1 = Cardinality(StopsBefore(b, n + 2))
  <2>1. StopsBefore(b, n + 2) = StopsBefore(b, n + 1) \cup {n + 1}
    <3>1. StopsBefore(b, n + 2) = StopsBefore(b, n + 1) \cup {j \in {n + 1} : j \in EventStops(b)}
      BY StopsGrow
    <3> QED
      BY <3>1
  <2>2. n + 1 \notin StopsBefore(b, n + 1)
    BY DEF StopsBefore
  <2>3. IsFiniteSet(StopsBefore(b, n + 1))
    BY StopsFinite
  <2> QED
    BY <2>1, <2>2, <2>3, FS_AddElement
<1> QED
  BY <1>1, <1>2, <1>3, <1>5, <1>6

\* The events and one more.
LEMMA OneMore ==
    ASSUME NEW S, NEW es \in Seq(S), NEW e \in S
    PROVE  /\ Len(es) \in Nat /\ DOMAIN es = 1..Len(es)
           /\ Append(es, e) \in Seq(S) /\ Len(Append(es, e)) = Len(es) + 1
           /\ DOMAIN Append(es, e) = 1..Len(es) + 1
           /\ Append(es, e) # <<>>
           /\ Append(es, e)[Len(es) + 1] = e
           /\ \A k \in 1..Len(es) : Append(es, e)[k] = es[k]
<1>1. /\ Len(es) \in Nat /\ DOMAIN es = 1..Len(es)
      /\ Append(es, e) \in Seq(S) /\ Len(Append(es, e)) = Len(es) + 1
  OBVIOUS
<1>2. DOMAIN Append(es, e) = 1..Len(es) + 1
  BY <1>1
<1>3. Append(es, e) # <<>>
  BY <1>1
<1>4. Append(es, e)[Len(es) + 1] = e
  BY <1>1
<1>5. \A k \in 1..Len(es) : Append(es, e)[k] = es[k]
  BY <1>1
<1> QED
  BY <1>1, <1>2, <1>3, <1>4, <1>5

LEMMA IdsGrow ==
    ASSUME NEW S, NEW es \in Seq(S), NEW e \in S, NEW id, IdsFit(es, id),
           ExecutionId(e.data) # Absent /\ id # Absent => ExecutionId(e.data) = id
    PROVE  IdsFit(Append(es, e), IF id = Absent THEN ExecutionId(e.data) ELSE id)
<1> DEFINE es2 == Append(es, e)
           L == Len(es)
           E == ExecutionId(e.data)
           id2 == IF id = Absent THEN E ELSE id
<1>1. /\ L \in Nat /\ DOMAIN es = 1..L /\ DOMAIN es2 = 1..L + 1
      /\ es2[L + 1] = e /\ \A k \in 1..L : es2[k] = es[k]
  BY OneMore
<1>2. /\ \A k \in DOMAIN es : ExecutionId(es[k].data) \in {Absent, id}
      /\ id # Absent => \E k \in DOMAIN es : ExecutionId(es[k].data) = id
  BY DEF IdsFit
<1> HIDE DEF es2, L
<1>3. \A k \in 1..L + 1 : k \in 1..L \/ k = L + 1
  BY <1>1
<1>4. \A k \in DOMAIN es2 : ExecutionId(es2[k].data) \in {Absent, id2}
  <2> SUFFICES ASSUME NEW k \in DOMAIN es2
               PROVE  ExecutionId(es2[k].data) \in {Absent, id2}
    OBVIOUS
  <2>1. CASE k \in 1..L
    <3>1. ExecutionId(es2[k].data) = ExecutionId(es[k].data)
      BY <1>1, <2>1
    <3>2. ExecutionId(es[k].data) \in {Absent, id}
      BY <1>1, <1>2, <2>1
    <3> QED
      BY <3>1, <3>2
  <2>2. CASE k = L + 1
    <3>1. ExecutionId(es2[k].data) = E
      BY <1>1, <2>2
    <3> QED
      BY <3>1
  <2> QED
    BY <1>1, <1>3, <2>1, <2>2
<1>5. ASSUME id2 # Absent
      PROVE  \E k \in DOMAIN es2 : ExecutionId(es2[k].data) = id2
  <2>1. CASE id = Absent
    <3>1. L + 1 \in DOMAIN es2 /\ ExecutionId(es2[L + 1].data) = id2
      BY <1>1, <2>1
    <3> QED
      BY <3>1
  <2>2. CASE id # Absent
    <3>1. PICK k \in DOMAIN es : ExecutionId(es[k].data) = id
      BY <1>2, <2>2
    <3>2. k \in DOMAIN es2 /\ ExecutionId(es2[k].data) = ExecutionId(es[k].data)
      BY <1>1, <3>1
    <3> QED
      BY <2>2, <3>1, <3>2
  <2> QED
    BY <2>1, <2>2
<1> QED
  BY <1>4, <1>5 DEF IdsFit, es2

LEMMA NumbersGrow ==
    ASSUME NEW S, NEW es \in Seq(S), NEW e \in S, NEW last, NumbersFit(es, last),
           SequenceOf(e.data) # Absent /\ last # Absent => SequenceOf(e.data) = last + 1
    PROVE  NumbersFit(Append(es, e), IF SequenceOf(e.data) = Absent THEN last ELSE SequenceOf(e.data))
<1> DEFINE es2 == Append(es, e)
           L == Len(es)
           E == SequenceOf(e.data)
           last2 == IF E = Absent THEN last ELSE E
           M == Numbered(es)
           M2 == Numbered(es2)
<1>1. /\ L \in Nat /\ DOMAIN es = 1..L /\ DOMAIN es2 = 1..L + 1
      /\ es2[L + 1] = e /\ \A k \in 1..L : es2[k] = es[k]
  BY OneMore
<1>2. IF last = Absent THEN M = {}
      ELSE \E m \in M : IsGreatest(m, M) /\ last = NumberAt(es, m)
  BY DEF NumbersFit
<1>3. \A j, k : Adjacent(M, j, k) => NumberAt(es, k) = NumberAt(es, j) + 1
  BY DEF NumbersFit
<1>4. M \in SUBSET (1..L)
  BY <1>1 DEF Numbered
<1> HIDE DEF es2, L
<1>5. NumberAt(es2, L + 1) = E
  BY <1>1 DEF NumberAt
<1>6. \A k \in 1..L : NumberAt(es2, k) = NumberAt(es, k)
  BY <1>1 DEF NumberAt
<1>7. M2 = IF E = Absent THEN M ELSE M \cup {L + 1}
  <2>1. \A k : k \in 1..L + 1 <=> k \in 1..L \/ k = L + 1
    BY <1>1
  <2>2. \A k : k \in M2 <=> k \in 1..L + 1 /\ NumberAt(es2, k) # Absent
    BY <1>1 DEF Numbered
  <2>3. \A k : k \in M <=> k \in 1..L /\ NumberAt(es, k) # Absent
    BY <1>1 DEF Numbered
  <2> HIDE DEF M, M2, E
  <2>4. \A k : k \in M2 <=> k \in M \/ (k = L + 1 /\ E # Absent)
    BY <1>5, <1>6, <2>1, <2>2, <2>3
  <2> QED
    BY <2>4
<1> HIDE DEF M, M2, E
<1>8. IF last2 = Absent THEN M2 = {}
      ELSE \E m \in M2 : IsGreatest(m, M2) /\ last2 = NumberAt(es2, m)
  <2>1. CASE E = Absent
    <3>1. M2 = M /\ last2 = last
      BY <1>7, <2>1
    <3>2. \A m \in M : NumberAt(es2, m) = NumberAt(es, m)
      BY <1>4, <1>6
    <3> QED
      BY <1>2, <3>1, <3>2
  <2>2. CASE E # Absent
    <3>1. M2 = M \cup {L + 1} /\ last2 = E
      BY <1>7, <2>2
    <3>2. IsGreatest(L + 1, M2)
      BY <1>1, <1>4, <3>1 DEF IsGreatest
    <3> QED
      BY <1>5, <2>2, <3>1, <3>2
  <2> QED
    BY <2>1, <2>2
<1>9. ASSUME NEW j, NEW k, Adjacent(M2, j, k)
      PROVE  NumberAt(es2, k) = NumberAt(es2, j) + 1
  <2>1. j \in M2 /\ k \in M2 /\ j < k /\ \A m \in M2 : ~(j < m /\ m < k)
    BY <1>9 DEF Adjacent
  <2>2. M2 \in SUBSET (1..L + 1) /\ M \in SUBSET M2
    BY <1>1, <1>4, <1>7
  <2>3. j \in M
    BY <1>1, <1>7, <2>1, <2>2
  <2>4. NumberAt(es2, j) = NumberAt(es, j)
    BY <1>4, <1>6, <2>3
  <2>5. CASE k \in M
    <3>1. Adjacent(M, j, k)
      BY <2>1, <2>2, <2>3, <2>5 DEF Adjacent
    <3>2. NumberAt(es2, k) = NumberAt(es, k)
      BY <1>4, <1>6, <2>5
    <3> QED
      BY <1>3, <2>4, <3>1, <3>2
  <2>6. CASE k \notin M
    <3>1. k = L + 1 /\ E # Absent
      BY <1>7, <2>1, <2>6
    <3>2. last # Absent
      BY <1>2, <2>3
    <3>3. PICK m \in M : IsGreatest(m, M) /\ last = NumberAt(es, m)
      BY <1>2, <3>2
    <3>4. m = j
      <4>1. m \in 1..L /\ j \in 1..L /\ m \in M2
        BY <1>4, <2>2, <2>3, <3>3
      <4>2. j <= m /\ m < k
        BY <1>1, <2>3, <3>1, <3>3, <4>1 DEF IsGreatest
      <4>3. ~(j < m)
        BY <2>1, <4>1, <4>2
      <4> QED
        BY <4>1, <4>2, <4>3
    <3>5. E = last + 1
      BY <3>1, <3>2 DEF E
    <3> QED
      BY <1>5, <2>4, <3>1, <3>3, <3>4, <3>5
  <2> QED
    BY <2>5, <2>6
<1> QED
  BY <1>8, <1>9 DEF NumbersFit, M, M2, E, es2

\* The checks hold of the events they have let pass.
LEMMA CheckPassed ==
    ASSUME NEW S, events \in Seq(S), NEW e \in S,
           Passed(events, event_count, expected_execution_id, last_sequence, done_seen),
           Parses(e.name, e.data), Follows(e.name, e.data), AdvanceChecks(e.name, e.data)
    PROVE  Passed(Append(events, e), event_count', expected_execution_id', last_sequence', done_seen')
<1> DEFINE es2 == Append(events, e)
           L == Len(events)
<1>1. /\ L \in Nat /\ DOMAIN events = 1..L /\ DOMAIN es2 = 1..L + 1 /\ Len(es2) = L + 1
      /\ es2 # <<>>
      /\ es2[L + 1] = e /\ \A k \in 1..L : es2[k] = events[k]
  BY OneMore
<1>2. IdsFit(es2, expected_execution_id')
  <2>1. ExecutionId(e.data) # Absent /\ expected_execution_id # Absent
          => ExecutionId(e.data) = expected_execution_id
    BY DEF Follows
  <2>2. IdsFit(events, expected_execution_id)
    BY DEF Passed
  <2>3. expected_execution_id' =
          IF expected_execution_id = Absent THEN ExecutionId(e.data) ELSE expected_execution_id
    BY DEF AdvanceChecks
  <2>4. IdsFit(es2, IF expected_execution_id = Absent THEN ExecutionId(e.data) ELSE expected_execution_id)
    BY <2>1, <2>2, IdsGrow
  <2> QED
    BY <2>3, <2>4
<1>3. NumbersFit(es2, last_sequence')
  <2>1. SequenceOf(e.data) # Absent /\ last_sequence # Absent
          => SequenceOf(e.data) = last_sequence + 1
    BY DEF Follows
  <2>2. NumbersFit(events, last_sequence)
    BY DEF Passed
  <2>3. last_sequence' = IF SequenceOf(e.data) = Absent THEN last_sequence ELSE SequenceOf(e.data)
    BY DEF AdvanceChecks
  <2>4. NumbersFit(es2, IF SequenceOf(e.data) = Absent THEN last_sequence ELSE SequenceOf(e.data))
    BY <2>1, <2>2, NumbersGrow
  <2> QED
    BY <2>3, <2>4
<1> HIDE DEF es2, L
<1>4. \A k \in 1..L + 1 : k \in 1..L \/ k = L + 1
  BY <1>1
<1>5. \A k \in DOMAIN es2 : Parses(es2[k].name, es2[k].data)
  <2>1. \A k \in 1..L : Parses(es2[k].name, es2[k].data)
    BY <1>1 DEF Passed
  <2> QED
    BY <1>1, <1>4, <2>1
<1>6. event_count' = Len(es2) /\ event_count' <= MaxEvents
  <2>1. event_count = L /\ event_count < MaxEvents /\ event_count' = event_count + 1
    BY DEF Passed, Follows, AdvanceChecks, L
  <2> QED
    BY <1>1, <2>1, StreamAssumption
<1>7. \A k \in 1..Len(es2) : es2[k].name = "done" <=> (k = Len(es2) /\ done_seen')
  <2>1. ~done_seen /\ done_seen' = (e.name = "done")
    BY DEF Follows, AdvanceChecks
  <2>2. \A k \in 1..L : events[k].name # "done"
    BY <2>1 DEF Passed, L
  <2>3. \A k \in 1..L : es2[k].name # "done" /\ k # L + 1
    BY <1>1, <2>2
  <2> QED
    BY <1>1, <1>4, <2>1, <2>3
<1> QED
  BY <1>1, <1>2, <1>3, <1>5, <1>6, <1>7 DEF Passed, es2

\* The terminal contract, in the terms of the checks.
LEMMA ContractOf ==
    ASSUME NEW es
    PROVE  TerminalContract(es) <=>
             /\ {k \in DOMAIN es : es[k].name = "done"} = {Len(es)} \ {0}
             /\ es # <<>>
             /\ \A j, k \in DOMAIN es :
                  ExecutionId(es[j].data) # Absent /\ ExecutionId(es[k].data) # Absent
                  => ExecutionId(es[j].data) = ExecutionId(es[k].data)
             /\ \A j, k : Adjacent(Numbered(es), j, k) => NumberAt(es, k) = NumberAt(es, j) + 1
<1> DEFINE ids == {ExecutionId(es[k].data) : k \in DOMAIN es} \ {Absent}
<1>1. (\A x, y \in ids : x = y) <=>
        \A j, k \in DOMAIN es :
                  ExecutionId(es[j].data) # Absent /\ ExecutionId(es[k].data) # Absent
                  => ExecutionId(es[j].data) = ExecutionId(es[k].data)
  OBVIOUS
<1>2. (\A j, k \in Numbered(es) :
         j < k /\ (\A m \in Numbered(es) : ~(j < m /\ m < k)) => NumberAt(es, k) = NumberAt(es, j) + 1)
      <=> \A j, k : Adjacent(Numbered(es), j, k) => NumberAt(es, k) = NumberAt(es, j) + 1
  BY DEF Adjacent
<1>3. TerminalContract(es) <=>
         /\ {k \in DOMAIN es : es[k].name = "done"} = {Len(es)} \ {0}
         /\ es # <<>>
         /\ \A x, y \in ids : x = y
         /\ \A j, k \in Numbered(es) :
              j < k /\ (\A m \in Numbered(es) : ~(j < m /\ m < k)) => NumberAt(es, k) = NumberAt(es, j) + 1
  BY DEF TerminalContract, Numbered, NumberAt
<1> QED
  BY <1>1, <1>2, <1>3

\* An event that the checks refuse is one that no whole answer says.
LEMMA CheckFails ==
    ASSUME NEW b, Answer(b), Begin(events, b), NEW e,
           Passed(events, event_count, expected_execution_id, last_sequence, done_seen),
           Len(events) + 1 \in 1..Cardinality(EventStops(b)),
           Events(b)[Len(events) + 1] = e,
           ~(Parses(e.name, e.data) /\ Follows(e.name, e.data))
    PROVE  ~Whole(b)
<1> SUFFICES ASSUME Whole(b)
             PROVE  FALSE
  OBVIOUS
<1> DEFINE E == Events(b)
           L == Len(events)
           C == Cardinality(EventStops(b))
           M == Numbered(events)
           M2 == Numbered(E)
<1>1. /\ L \in Nat /\ DOMAIN events = 1..L /\ \A k \in 1..L : events[k] = E[k]
      /\ C \in Nat /\ DOMAIN E = 1..C /\ Len(E) = C
      /\ L + 1 \in 1..C /\ E[L + 1] = e
  <2>1. events \in Seq(SaidIn(b)) /\ \A k \in 1..L : events[k] = E[k]
    BY DEF Begin
  <2> QED
    BY <2>1, EventsDomain
<1>2. /\ \A k \in DOMAIN E : Parses(E[k].name, E[k].data)
      /\ Len(E) <= MaxEvents /\ TerminalContract(E)
  BY DEF Whole
<1>3. /\ {k \in DOMAIN E : E[k].name = "done"} = {Len(E)} \ {0}
      /\ \A j, k \in DOMAIN E :
                  ExecutionId(E[j].data) # Absent /\ ExecutionId(E[k].data) # Absent
                  => ExecutionId(E[j].data) = ExecutionId(E[k].data)
      /\ \A j, k : Adjacent(M2, j, k) => NumberAt(E, k) = NumberAt(E, j) + 1
  BY <1>2, ContractOf
<1> HIDE DEF E, C, M, M2
<1>4. ~Follows(e.name, e.data)
  BY <1>1, <1>2
<1>5. ~done_seen
  <2> SUFFICES ASSUME done_seen
               PROVE  FALSE
    OBVIOUS
  <2>1. L \in 1..L
    BY <1>1 DEF Passed
  <2>2. events[L].name = "done"
    BY <2>1 DEF Passed
  <2>3. L \in DOMAIN E /\ E[L].name = "done"
    BY <1>1, <2>1, <2>2
  <2>4. L = C
    BY <1>1, <1>3, <2>3
  <2> QED
    BY <1>1, <2>4
<1>6. event_count < MaxEvents
  <2>1. event_count = L
    BY DEF Passed
  <2> QED
    BY <1>1, <1>2, <2>1, StreamAssumption
<1>7. ~(/\ ExecutionId(e.data) # Absent /\ expected_execution_id # Absent
        /\ ExecutionId(e.data) # expected_execution_id)
  <2> SUFFICES ASSUME ExecutionId(e.data) # Absent, expected_execution_id # Absent
               PROVE  ExecutionId(e.data) = expected_execution_id
    OBVIOUS
  <2>1. PICK k \in 1..L : ExecutionId(events[k].data) = expected_execution_id
    BY <1>1 DEF Passed, IdsFit
  <2>2. k \in DOMAIN E /\ L + 1 \in DOMAIN E
    BY <1>1
  <2>3. ExecutionId(E[k].data) = expected_execution_id /\ ExecutionId(E[L + 1].data) = ExecutionId(e.data)
    BY <1>1, <2>1
  <2> QED
    BY <1>3, <2>2, <2>3
<1>8. ~(/\ SequenceOf(e.data) # Absent /\ last_sequence # Absent
        /\ SequenceOf(e.data) # last_sequence + 1)
  <2> SUFFICES ASSUME SequenceOf(e.data) # Absent, last_sequence # Absent
               PROVE  SequenceOf(e.data) = last_sequence + 1
    OBVIOUS
  <2>1. PICK m \in M : IsGreatest(m, M) /\ last_sequence = NumberAt(events, m)
    BY DEF Passed, NumbersFit, M
  <2>2. \A k \in 1..L : NumberAt(E, k) = NumberAt(events, k)
    BY <1>1 DEF NumberAt
  <2>3. NumberAt(E, L + 1) = SequenceOf(e.data)
    BY <1>1 DEF NumberAt
  <2>4. \A k : k \in M <=> k \in 1..L /\ NumberAt(events, k) # Absent
    BY <1>1 DEF M, Numbered
  <2>5. \A k : k \in M2 <=> k \in 1..C /\ NumberAt(E, k) # Absent
    BY <1>1 DEF M2, Numbered
  <2>6. m \in M2 /\ L + 1 \in M2 /\ m < L + 1
    BY <1>1, <2>1, <2>2, <2>3, <2>4, <2>5
  <2>7. ASSUME NEW k \in M2, m < k, k < L + 1
        PROVE  FALSE
    <3>1. k \in 1..L
      BY <1>1, <2>5, <2>6, <2>7
    <3>2. k \in M
      BY <2>2, <2>4, <2>5, <3>1
    <3>3. k <= m
      BY <2>1, <3>2 DEF IsGreatest
    <3>4. m \in 1..L
      BY <2>1, <2>4
    <3> QED
      BY <2>7, <3>1, <3>3, <3>4
  <2>8. Adjacent(M2, m, L + 1)
    BY <2>6, <2>7 DEF Adjacent
  <2>9. NumberAt(E, L + 1) = NumberAt(E, m) + 1
    BY <1>3, <2>8
  <2>10. NumberAt(E, m) = last_sequence
    BY <2>1, <2>2, <2>4
  <2> QED
    BY <2>3, <2>9, <2>10
<1> QED
  BY <1>4, <1>5, <1>6, <1>7, <1>8 DEF Follows

LEMMA AllTaken ==
    ASSUME NEW b, Answer(b), NEW es, Begin(es, b), Len(es) = Cardinality(EventStops(b))
    PROVE  es = Events(b)
<1>1. es \in Seq(SaidIn(b)) /\ \A k \in 1..Len(es) : es[k] = Events(b)[k]
  BY DEF Begin
<1>2. es = [k \in 1..Len(es) |-> es[k]] /\ DOMAIN es = 1..Len(es)
  BY <1>1
<1>3. DOMAIN Events(b) = 1..Len(es)
  BY EventsDomain
<1>4. Events(b) = [k \in 1..Len(es) |-> Events(b)[k]]
  BY <1>3 DEF Events
<1> QED
  BY <1>1, <1>2, <1>4

\* At the end of an answer it is whole when its terminal event has been seen.
LEMMA WholeAtEnd ==
    ASSUME NEW b, Answer(b), Begin(events, b), done_seen \in BOOLEAN,
           Passed(events, event_count, expected_execution_id, last_sequence, done_seen),
           SmallUpTo(b, Len(b)), Len(events) = Cardinality(EventStops(b))
    PROVE  Whole(b) <=> done_seen
<1>1. events = Events(b)
  BY AllTaken
<1>2. events \in Seq(SaidIn(b)) /\ Len(events) \in Nat /\ DOMAIN events = 1..Len(events)
  BY DEF Begin
<1>3. ASSUME done_seen
      PROVE  Whole(b)
  <2>1. {k \in DOMAIN events : events[k].name = "done"} = {Len(events)} \ {0}
    <3>1. \A k \in 1..Len(events) : events[k].name = "done" <=> k = Len(events)
      BY <1>3 DEF Passed
    <3>2. events # <<>>
      BY <1>3 DEF Passed
    <3>3. Len(events) # 0
      BY <1>2, <3>2
    <3>4. Len(events) \in 1..Len(events)
      BY <1>2, <3>3
    <3>5. {k \in DOMAIN events : events[k].name = "done"} = {Len(events)}
      BY <1>2, <3>1, <3>4
    <3> QED
      BY <3>3, <3>5
  <2>2. events # <<>>
    BY <1>3 DEF Passed
  <2>3. \A j, k \in DOMAIN events :
          ExecutionId(events[j].data) # Absent /\ ExecutionId(events[k].data) # Absent
          => ExecutionId(events[j].data) = ExecutionId(events[k].data)
    <3>1. \A k \in DOMAIN events : ExecutionId(events[k].data) \in {Absent, expected_execution_id}
      BY DEF Passed, IdsFit
    <3> QED
      BY <3>1
  <2>4. \A j, k : Adjacent(Numbered(events), j, k) => NumberAt(events, k) = NumberAt(events, j) + 1
    BY DEF Passed, NumbersFit
  <2>5. TerminalContract(events)
    BY <2>1, <2>2, <2>3, <2>4, ContractOf
  <2>6. \A k \in DOMAIN events : Parses(events[k].name, events[k].data)
    BY DEF Passed
  <2>7. Len(events) <= MaxEvents
    BY DEF Passed
  <2>8. \A i \in DOMAIN b : Counted(b, i) <= MaxEventBytes
    BY DEF SmallUpTo, Answer
  <2> QED
    BY <1>1, <2>5, <2>6, <2>7, <2>8 DEF Whole
<1>4. ASSUME Whole(b)
      PROVE  done_seen
  <2>1. TerminalContract(events)
    BY <1>1, <1>4 DEF Whole
  <2>2. {k \in DOMAIN events : events[k].name = "done"} = {Len(events)} \ {0} /\ events # <<>>
    BY <2>1, ContractOf
  <2>3. Len(events) # 0
    BY <1>2, <2>2
  <2>4. Len(events) \in 1..Len(events) /\ events[Len(events)].name = "done"
    BY <1>2, <2>2, <2>3
  <2> QED
    BY <2>4 DEF Passed
<1> QED
  BY <1>3, <1>4

-----------------------------------------------------------------------------
(* The steps of a stream.                                                  *)

\* A line that ends no event.
LEMMA ReadOn ==
    ASSUME NEW b, Answer(b), NEW n \in Nat, n + 1 \in DOMAIN b, n + 1 \notin EventStops(b),
           NEW name, NEW lines, NEW bytes, Reads(b, n, name, lines, bytes),
           bytes + Size(b[n + 1]) <= MaxEventBytes,
           NEW name2, NEW lines2, NameFits(b, n + 1, name2), LinesFit(b, n + 1, lines2)
    PROVE  /\ Reads(b, n + 1, name2, lines2, bytes + Size(b[n + 1]))
           /\ StopsBefore(b, n + 2) = StopsBefore(b, n + 1)
<1>1. Counted(b, n + 1) <= MaxEventBytes /\ BytesFit(b, n + 1, bytes + Size(b[n + 1]))
  BY BytesGrow DEF Reads
<1>2. SmallUpTo(b, n + 1)
  BY <1>1, SmallGrows DEF Reads
<1>3. StopsBefore(b, n + 2) = StopsBefore(b, n + 1) \cup {j \in {n + 1} : j \in EventStops(b)}
  BY StopsGrow
<1>4. StopsBefore(b, n + 2) = StopsBefore(b, n + 1)
  BY <1>3
<1> QED
  BY <1>1, <1>2, <1>4 DEF Reads

\* A blank line that ends an event.
LEMMA ReadOver ==
    ASSUME NEW b, Answer(b), NEW n \in Nat, n + 1 \in DOMAIN b, n + 1 \in EventStops(b),
           b[n + 1].field = "blank", NEW D,
           NEW name, NEW lines \in Seq(D), NEW bytes, Reads(b, n, name, lines, bytes)
    PROVE  Reads(b, n + 1, Absent, <<>>, 0)
<1>1. Size(b[n + 1]) = 0
  BY DEF Size
<1>2. bytes \in Int /\ bytes <= MaxEventBytes
  BY DEF Reads, BytesFit
<1>3. Counted(b, n + 1) <= MaxEventBytes /\ BytesFit(b, n + 1, 0)
  <2>1. Counted(b, n + 1) = bytes + Size(b[n + 1]) /\ BytesFit(b, n + 1, 0)
    BY BytesGrow DEF Reads
  <2> QED
    BY <1>1, <1>2, <2>1
<1>4. SmallUpTo(b, n + 1)
  BY <1>3, SmallGrows DEF Reads
<1>5. NameFits(b, n + 1, Absent)
  BY NameGrows DEF Reads
<1>6. LinesFit(b, n + 1, <<>>)
  BY LinesGrow DEF Reads
<1> QED
  BY <1>3, <1>4, <1>5, <1>6 DEF Reads

\* At the end no stop is left but the last.
LEMMA StopsAtEnd ==
    ASSUME NEW b, Answer(b)
    PROVE  /\ StopsBefore(b, Len(b) + 2) = EventStops(b)
           /\ Len(b) + 1 \notin EventStops(b) => StopsBefore(b, Len(b) + 1) = EventStops(b)
<1>1. Len(b) \in Nat /\ EventStops(b) \in SUBSET (1..Len(b) + 1)
  BY StopsGrow DEF Answer
<1>2. \A i \in EventStops(b) : i < Len(b) + 2 /\ (i # Len(b) + 1 => i < Len(b) + 1)
  BY <1>1
<1> QED
  BY <1>2 DEF StopsBefore

LEMMA EmptyAnswer == Answer(<<>>)
<1>1. <<>> \in Seq({}) /\ Len(<<>>) = 0
  OBVIOUS
<1>2. DOMAIN <<>> = 1..Len(<<>>)
  BY <1>1
<1> QED
  BY <1>1, <1>2 DEF Answer

LEMMA InvBody ==
    ASSUME StreamInv
    PROVE  /\ Answer(body) /\ at \in Nat /\ Len(body) \in Nat /\ at <= Len(body)
           /\ at < Len(body) => at + 1 \in DOMAIN body /\ at + 1 \in 1..Len(body)
           /\ data_lines \in Seq(DataOf(body)) /\ events \in Seq(SaidIn(body))
<1>1. Answer(body)
  BY EmptyAnswer, StreamAssumption DEF StreamInv
<1>2. Len(body) \in Nat /\ DOMAIN body = 1..Len(body)
  BY <1>1 DEF Answer
<1> QED
  BY <1>1, <1>2 DEF StreamInv, Begin

\* While a line is left, the stream is being read.
LEMMA InvReads ==
    ASSUME StreamInv, Reading, at < Len(body) \/ Pending
    PROVE  /\ Reads(body, at, event_name, data_lines, event_bytes)
           /\ Len(events) = Cardinality(StopsBefore(body, at + 1))
           /\ Passed(events, event_count, expected_execution_id, last_sequence, done_seen)
<1>1. at \in Nat /\ Len(body) \in Nat
  BY InvBody
<1>2. ~Finished(body, at, event_name, data_lines, Len(events))
  BY <1>1 DEF Finished, Pending
<1> QED
  BY <1>2 DEF StreamInv

\* What holds again after a line.
Onward ==
    /\ body' = body /\ at' \in 0..Len(body) /\ done_seen' \in BOOLEAN
    /\ Begin(events', body) /\ data_lines' \in Seq(DataOf(body))

LEMMA KeepsReading ==
    ASSUME StreamInv, Onward, phase' \in {"reading", "yielded"},
           Passed(events', event_count', expected_execution_id', last_sequence', done_seen'),
           \/ /\ Reads(body, at', event_name', data_lines', event_bytes')
              /\ Len(events') = Cardinality(StopsBefore(body, at' + 1))
           \/ Finished(body, at', event_name', data_lines', Len(events'))
    PROVE  StreamInv'
<1>1. /\ phase' # "idle" /\ phase' # "OK" /\ phase' # "CONTRACT"
  OBVIOUS
<1>2. body' = body
  BY DEF Onward
<1> QED
  BY <1>1, <1>2 DEF StreamInv, Onward

LEMMA StopsReading ==
    ASSUME StreamInv, Onward, phase' \notin {"idle", "reading", "yielded"},
           phase' = "OK" => Whole(body) /\ Len(events') = Cardinality(EventStops(body)),
           phase' = "CONTRACT" => ~Whole(body)
    PROVE  StreamInv'
<1>1. body' = body
  BY DEF Onward
<1> QED
  BY <1>1 DEF StreamInv, Onward, Reading

\* Only a blank line ends an event before the end.
LEMMA NoStop ==
    ASSUME NEW b, Answer(b), NEW i \in 1..Len(b), b[i].field # "blank"
    PROVE  i \notin EventStops(b)
<1>1. i # Len(b) + 1
  BY DEF Answer
<1> QED
  BY <1>1 DEF EventStops, Stops

LEMMA ReadCommentStep ==
    ASSUME StreamInv, ReadComment
    PROVE  StreamInv'
<1>1. Reading /\ at < Len(body) /\ body[at + 1].field = "comment"
  BY DEF ReadComment, NextLine, Line
<1>2. /\ Answer(body) /\ at \in Nat /\ at + 1 \in DOMAIN body /\ at + 1 \in 1..Len(body)
      /\ data_lines \in Seq(DataOf(body)) /\ Len(body) \in Nat
  BY <1>1, InvBody
<1>3. /\ Reads(body, at, event_name, data_lines, event_bytes)
      /\ Len(events) = Cardinality(StopsBefore(body, at + 1))
      /\ Passed(events, event_count, expected_execution_id, last_sequence, done_seen)
  BY <1>1, InvReads
<1>4. at + 1 \notin EventStops(body)
  BY <1>1, <1>2, NoStop
<1>5. NameFits(body, at + 1, event_name)
  BY <1>1, <1>2, <1>3, NameGrows DEF Reads
<1>6. LinesFit(body, at + 1, data_lines)
  BY <1>1, <1>2, <1>3, LinesGrow DEF Reads
<1>7. event_bytes \in Int /\ event_bytes + Size(body[at + 1]) = event_bytes
      /\ event_bytes <= MaxEventBytes
  BY <1>1, <1>3 DEF Reads, BytesFit, Size
<1>8. /\ Reads(body, at + 1, event_name, data_lines, event_bytes)
      /\ StopsBefore(body, at + 2) = StopsBefore(body, at + 1)
  BY <1>2, <1>3, <1>4, <1>5, <1>6, <1>7, ReadOn
<1>9. /\ phase' = "reading" /\ at' = at + 1 /\ body' = body
      /\ event_name' = event_name /\ data_lines' = data_lines /\ event_bytes' = event_bytes
      /\ events' = events /\ event_count' = event_count /\ done_seen' = done_seen
      /\ expected_execution_id' = expected_execution_id /\ last_sequence' = last_sequence
  BY DEF ReadComment, parser, checks
<1>10. Onward
  BY <1>2, <1>9 DEF Onward, StreamInv
<1>11. at' + 1 = at + 2
  BY <1>2, <1>9
<1> QED
  BY <1>3, <1>8, <1>9, <1>10, <1>11, KeepsReading

LEMMA ReadFieldStep ==
    ASSUME StreamInv, ReadField
    PROVE  StreamInv'
<1> DEFINE field == body[at + 1].field
           bytes == event_bytes + Size(body[at + 1])
<1>1. Reading /\ at < Len(body) /\ field \in {"event", "data", "other"}
  BY DEF ReadField, NextLine, Line
<1>2. /\ Answer(body) /\ at \in Nat /\ at + 1 \in DOMAIN body /\ at + 1 \in 1..Len(body)
      /\ data_lines \in Seq(DataOf(body)) /\ Len(body) \in Nat
  BY <1>1, InvBody
<1>3. /\ Reads(body, at, event_name, data_lines, event_bytes)
      /\ Len(events) = Cardinality(StopsBefore(body, at + 1))
      /\ Passed(events, event_count, expected_execution_id, last_sequence, done_seen)
  BY <1>1, InvReads
<1>4. at + 1 \notin EventStops(body)
  BY <1>1, <1>2, NoStop
<1>5. bytes = event_bytes + Line.size
  BY <1>1 DEF Size, Line
<1>6. /\ at' = at + 1 /\ body' = body /\ event_bytes' = bytes
      /\ events' = events /\ event_count' = event_count /\ done_seen' = done_seen
      /\ expected_execution_id' = expected_execution_id /\ last_sequence' = last_sequence
  BY <1>5 DEF ReadField, checks
<1>7. CASE event_bytes' > MaxEventBytes
  <2>1. phase' = "CONTRACT" /\ data_lines' = data_lines
    BY <1>7 DEF ReadField, Rejected, StreamEnds
  <2>2. Counted(body, at + 1) = bytes /\ bytes \in Int
    BY <1>2, <1>3, BytesGrow DEF Reads
  <2>3. ~Whole(body)
    <3>1. ~(Counted(body, at + 1) <= MaxEventBytes)
      BY <1>6, <1>7, <2>2, StreamAssumption
    <3> QED
      BY <1>2, <3>1 DEF Whole
  <2>4. Onward
    BY <1>2, <1>6, <2>1 DEF Onward, StreamInv
  <2> QED
    BY <2>1, <2>3, <2>4, StopsReading
<1>8. CASE ~(event_bytes' > MaxEventBytes)
  <2>1. /\ phase' = "reading"
        /\ event_name' = IF field = "event" THEN body[at + 1].name ELSE event_name
        /\ data_lines' = IF field = "data" THEN Append(data_lines, body[at + 1].data) ELSE data_lines
    BY <1>8 DEF ReadField, Line
  <2>2. bytes <= MaxEventBytes
    <3>1. bytes \in Int
      BY <1>2, <1>3, BytesGrow DEF Reads
    <3> HIDE DEF bytes
    <3> QED
      BY <1>6, <1>8, <3>1, StreamAssumption
  <2>3. NameFits(body, at + 1, event_name')
    <3>1. /\ field = "event" => NameFits(body, at + 1, body[at + 1].name)
          /\ field \notin {"blank", "event"} => NameFits(body, at + 1, event_name)
      BY <1>2, <1>3, NameGrows DEF Reads
    <3> QED
      BY <1>1, <2>1, <3>1
  <2>4. body[at + 1].data \in DataOf(body) \/ field # "data"
    BY <1>2 DEF DataOf, DataLines
  <2>5. LinesFit(body, at + 1, data_lines')
    <3>1. LinesFit(body, at, data_lines)
      BY <1>3 DEF Reads
    <3>2. /\ field = "data" /\ body[at + 1].data \in DataOf(body) =>
               LinesFit(body, at + 1, Append(data_lines, body[at + 1].data))
          /\ field \notin {"blank", "data"} => LinesFit(body, at + 1, data_lines)
      BY <1>2, <3>1, LinesGrow
    <3> QED
      BY <1>1, <2>1, <2>4, <3>2
  <2>6. data_lines' \in Seq(DataOf(body))
    <3>1. CASE field = "data"
      <4>1. body[at + 1].data \in DataOf(body) /\ data_lines' = Append(data_lines, body[at + 1].data)
        BY <2>1, <2>4, <3>1
      <4> QED
        BY <1>2, <4>1
    <3>2. CASE field # "data"
      BY <1>2, <2>1, <3>2
    <3> QED
      BY <3>1, <3>2
  <2>7. /\ Reads(body, at + 1, event_name', data_lines', bytes)
        /\ StopsBefore(body, at + 2) = StopsBefore(body, at + 1)
    BY <1>2, <1>3, <1>4, <2>2, <2>3, <2>5, ReadOn
  <2>8. Onward
    BY <1>2, <1>6, <2>6 DEF Onward, StreamInv
  <2>9. at' + 1 = at + 2
    BY <1>2, <1>6
  <2> HIDE DEF bytes, field
  <2> QED
    BY <1>3, <1>6, <2>1, <2>7, <2>8, <2>9, KeepsReading
<1> QED
  BY <1>7, <1>8

\* The flush of a pending event, at a stop.
LEMMA FlushStep ==
    ASSUME StreamInv, Reading, Pending, Flush, body' = body, at' \in 0..Len(body),
           (at + 1 \in 1..Len(body) /\ body[at + 1].field = "blank") \/ at = Len(body)
    PROVE  /\ at + 1 \in EventStops(body)
           /\ phase' = "CONTRACT" => StreamInv'
           /\ phase' # "CONTRACT" =>
                /\ Onward /\ phase' = "yielded"
                /\ event_name' = Absent /\ data_lines' = <<>> /\ event_bytes' = 0
                /\ Passed(events', event_count', expected_execution_id', last_sequence', done_seen')
                /\ Len(events') = Cardinality(StopsBefore(body, at + 2))
<1>1. /\ Answer(body) /\ at \in Nat /\ Len(body) \in Nat
      /\ data_lines \in Seq(DataOf(body)) /\ events \in Seq(SaidIn(body))
  BY InvBody
<1>2. /\ Reads(body, at, event_name, data_lines, event_bytes)
      /\ Len(events) = Cardinality(StopsBefore(body, at + 1))
      /\ Passed(events, event_count, expected_execution_id, last_sequence, done_seen)
  BY InvReads
<1>3. /\ at + 1 \in EventStops(body)
      /\ Said(body, at + 1) = [name |-> event_name, data |-> Payload(data_lines)]
  BY <1>1, <1>2, EventFlushed DEF Pending
<1>4. PICK e : e = Said(body, at + 1)
  OBVIOUS
<1>5. Begin(events, body)
  BY DEF StreamInv
<1>6. /\ e \in SaidIn(body)
      /\ Len(events) + 1 \in 1..Cardinality(EventStops(body))
      /\ Events(body)[Len(events) + 1] = e
      /\ Begin(Append(events, e), body)
      /\ Len(events) + 1 = Cardinality(StopsBefore(body, at + 2))
  BY <1>1, <1>2, <1>3, <1>4, <1>5, EventTaken
<1>7. e.name = event_name /\ e.data = Payload(data_lines)
  BY <1>3, <1>4
<1>8. CASE Parses(e.name, e.data) /\ Follows(e.name, e.data)
  <2>1. /\ AdvanceChecks(e.name, e.data)
        /\ event_name' = Absent /\ data_lines' = <<>> /\ event_bytes' = 0
        /\ events' = Append(events, e) /\ phase' = "yielded"
    BY <1>3, <1>4, <1>7, <1>8 DEF Flush
  <2>2. Passed(events', event_count', expected_execution_id', last_sequence', done_seen')
    BY <1>1, <1>2, <1>6, <1>8, <2>1, CheckPassed
  <2>3. Len(events') = Len(events) + 1
    BY <1>1, <1>6, <2>1
  <2>4. done_seen' \in BOOLEAN
    BY <2>1 DEF AdvanceChecks
  <2>5. Onward
    BY <1>6, <2>1, <2>4 DEF Onward
  <2> QED
    BY <1>3, <1>6, <2>1, <2>2, <2>3, <2>5
<1>9. CASE ~(Parses(e.name, e.data) /\ Follows(e.name, e.data))
  <2>1. phase' = "CONTRACT" /\ data_lines' = data_lines /\ events' = events /\ done_seen' = done_seen
    BY <1>7, <1>9 DEF Flush, Rejected, StreamEnds, parser, checks
  <2>2. ~Whole(body)
    BY <1>1, <1>2, <1>5, <1>6, <1>9, CheckFails
  <2>3. Onward
    BY <1>1, <1>5, <2>1 DEF Onward, StreamInv
  <2>4. StreamInv'
    BY <2>1, <2>2, <2>3, StopsReading
  <2> QED
    BY <1>3, <2>1, <2>4
<1> QED
  BY <1>8, <1>9

LEMMA ReadBlankStep ==
    ASSUME StreamInv, ReadBlank
    PROVE  StreamInv'
<1>1. Reading /\ at < Len(body) /\ body[at + 1].field = "blank" /\ at' = at + 1 /\ body' = body
  BY DEF ReadBlank, NextLine, Line
<1>2. /\ Answer(body) /\ at \in Nat /\ at + 1 \in DOMAIN body /\ at + 1 \in 1..Len(body)
      /\ data_lines \in Seq(DataOf(body)) /\ Len(body) \in Nat
  BY <1>1, InvBody
<1>3. /\ Reads(body, at, event_name, data_lines, event_bytes)
      /\ Len(events) = Cardinality(StopsBefore(body, at + 1))
      /\ Passed(events, event_count, expected_execution_id, last_sequence, done_seen)
  BY <1>1, InvReads
<1>4. at' + 1 = at + 2 /\ at' \in 0..Len(body)
  BY <1>1, <1>2
<1>5. CASE Pending
  <2>1. Flush
    BY <1>5 DEF ReadBlank
  <2>2. /\ at + 1 \in EventStops(body)
        /\ phase' = "CONTRACT" => StreamInv'
        /\ phase' # "CONTRACT" =>
                /\ Onward /\ phase' = "yielded"
                /\ event_name' = Absent /\ data_lines' = <<>> /\ event_bytes' = 0
                /\ Passed(events', event_count', expected_execution_id', last_sequence', done_seen')
                /\ Len(events') = Cardinality(StopsBefore(body, at + 2))
    BY <1>1, <1>2, <1>4, <1>5, <2>1, FlushStep
  <2>3. Reads(body, at + 1, Absent, <<>>, 0)
    BY <1>1, <1>2, <1>3, <2>2, ReadOver
  <2> QED
    BY <1>1, <1>4, <2>2, <2>3, KeepsReading
<1>6. CASE ~Pending
  <2>1. event_name = Absent /\ data_lines = <<>>
    BY <1>6 DEF Pending
  <2>2. /\ phase' = "reading"
        /\ event_name' = event_name /\ data_lines' = data_lines /\ event_bytes' = event_bytes
        /\ events' = events /\ event_count' = event_count /\ done_seen' = done_seen
        /\ expected_execution_id' = expected_execution_id /\ last_sequence' = last_sequence
    BY <1>6 DEF ReadBlank, parser, checks
  <2>3. at + 1 \notin EventStops(body)
    <3>1. at <= Len(body)
      BY <1>1, <1>2
    <3> QED
      BY <1>2, <1>3, <2>1, <3>1, NothingPending
  <2>4. NameFits(body, at + 1, event_name)
    BY <1>1, <1>2, <1>3, <2>1, NameGrows DEF Reads
  <2>5. LinesFit(body, at + 1, data_lines)
    BY <1>1, <1>2, <1>3, <2>1, LinesGrow DEF Reads
  <2>6. event_bytes \in Int /\ event_bytes + Size(body[at + 1]) = event_bytes
        /\ event_bytes <= MaxEventBytes
    BY <1>1, <1>3 DEF Reads, BytesFit, Size
  <2>7. /\ Reads(body, at + 1, event_name, data_lines, event_bytes)
        /\ StopsBefore(body, at + 2) = StopsBefore(body, at + 1)
    BY <1>2, <1>3, <2>3, <2>4, <2>5, <2>6, ReadOn
  <2>8. Onward
    BY <1>1, <1>2, <1>4, <2>2 DEF Onward, StreamInv
  <2> QED
    BY <1>1, <1>3, <1>4, <2>2, <2>7, <2>8, KeepsReading
<1> QED
  BY <1>5, <1>6

LEMMA ReadLastStep ==
    ASSUME StreamInv, ReadLast
    PROVE  StreamInv'
<1>1. Reading /\ at = Len(body) /\ Pending /\ Flush /\ at' = at /\ body' = body
  BY DEF ReadLast
<1>2. Answer(body) /\ at \in Nat /\ Len(body) \in Nat /\ at' \in 0..Len(body)
  BY <1>1, InvBody
<1>3. /\ phase' = "CONTRACT" => StreamInv'
      /\ phase' # "CONTRACT" =>
                /\ Onward /\ phase' = "yielded"
                /\ event_name' = Absent /\ data_lines' = <<>> /\ event_bytes' = 0
                /\ Passed(events', event_count', expected_execution_id', last_sequence', done_seen')
                /\ Len(events') = Cardinality(StopsBefore(body, at + 2))
  BY <1>1, <1>2, FlushStep
<1>4. Cardinality(StopsBefore(body, at + 2)) = Cardinality(EventStops(body))
  BY <1>1, <1>2, StopsAtEnd
<1>5. SmallUpTo(body, Len(body))
  BY <1>1, InvReads DEF Reads
<1>6. phase' # "CONTRACT" => Finished(body, at', event_name', data_lines', Len(events'))
  BY <1>1, <1>3, <1>4, <1>5 DEF Finished
<1> QED
  BY <1>3, <1>6, KeepsReading

LEMMA EndStreamStep ==
    ASSUME StreamInv, EndStream
    PROVE  StreamInv'
<1>1. Reading /\ at = Len(body) /\ event_name = Absent /\ data_lines = <<>>
  BY DEF EndStream, Pending
<1>2. /\ body' = body /\ at' = at /\ data_lines' = data_lines /\ events' = events
      /\ done_seen' = done_seen
      /\ phase' = IF done_seen THEN "OK" ELSE "CONTRACT"
  BY DEF EndStream, parser, checks, StreamEnds, Rejected
<1>3. /\ Answer(body) /\ at \in Nat /\ Len(body) \in Nat
      /\ data_lines \in Seq(DataOf(body)) /\ events \in Seq(SaidIn(body))
  BY InvBody
<1>4. SmallUpTo(body, Len(body)) /\ Len(events) = Cardinality(EventStops(body))
  <2>1. CASE Finished(body, at, event_name, data_lines, Len(events))
    BY <2>1 DEF Finished
  <2>2. CASE /\ Reads(body, at, event_name, data_lines, event_bytes)
             /\ Len(events) = Cardinality(StopsBefore(body, at + 1))
    <3>1. at <= Len(body)
      BY <1>1, <1>3
    <3>2. at + 1 \notin EventStops(body)
      BY <1>1, <1>3, <2>2, <3>1, NothingPending
    <3>3. StopsBefore(body, at + 1) = EventStops(body)
      BY <1>1, <1>3, <3>2, StopsAtEnd
    <3> QED
      BY <1>1, <2>2, <3>3 DEF Reads
  <2> QED
    BY <1>1, <2>1, <2>2 DEF StreamInv
<1>5. Whole(body) <=> done_seen
  BY <1>1, <1>3, <1>4, WholeAtEnd DEF StreamInv
<1>6. Onward
  BY <1>2, <1>3 DEF Onward, StreamInv
<1> QED
  BY <1>2, <1>4, <1>5, <1>6, StopsReading

LEMMA OpenStep ==
    ASSUME StreamInv, NEW answer \in Bodies, NEW status \in Statuses, OpenStream(status, answer)
    PROVE  StreamInv'
<1>1. Fresh
  BY DEF OpenStream, StreamInv
<1>2. /\ phase' = "reading" /\ body' = answer /\ at' = 0
      /\ event_name' = Absent /\ data_lines' = <<>> /\ event_bytes' = 0
      /\ events' = <<>> /\ event_count' = 0 /\ expected_execution_id' = Absent
      /\ last_sequence' = Absent /\ done_seen' = FALSE
  BY <1>1 DEF OpenStream, Fresh, parser, checks
<1>3. Answer(answer) /\ Len(answer) \in Nat /\ MaxEventBytes \in Nat /\ MaxEvents \in Nat
  BY StreamAssumption DEF Answer
<1>4. Fields(answer, 1, "event") = {} /\ Fields(answer, 1, "data") = {}
  BY FieldsGrow
<1>5. StopsBefore(answer, 1) = {} /\ Cardinality(StopsBefore(answer, 1)) = 0
  BY <1>3, StopsGrow, FS_EmptySet
<1>6. NameFits(answer, 0, Absent)
  BY <1>4 DEF NameFits
<1>7. LinesFit(answer, 0, <<>>)
  <2>1. Written(Lines(answer, 1)) = {} /\ Written(<<>>) = {}
    BY <1>4 DEF Lines, Written
  <2>2. SameWritten(<<>>, Lines(answer, 1))
    BY <2>1 DEF SameWritten
  <2>3. 0 + 1 = 1
    OBVIOUS
  <2> QED
    BY <1>4, <2>2, <2>3 DEF LinesFit
<1>8. BytesFit(answer, 0, 0)
  <2>1. SizeOf(answer, 0) = 0
    BY SizeGrows
  <2>2. {0} \cup StopsBefore(answer, 0 + 1) = {0}
    BY <1>5
  <2>3. IsGreatest(0, {0}) /\ 0 = SizeOf(answer, 0) - SizeOf(answer, 0)
    BY <2>1 DEF IsGreatest
  <2> QED
    BY <1>3, <2>2, <2>3 DEF BytesFit
<1>9. SmallUpTo(answer, 0)
  BY DEF SmallUpTo
<1>10. <<>> \in Seq(SaidIn(answer)) /\ <<>> \in Seq(DataOf(answer)) /\ Len(<<>>) = 0
       /\ DOMAIN <<>> = {}
  <2>1. <<>> \in Seq(SaidIn(answer)) /\ <<>> \in Seq(DataOf(answer)) /\ Len(<<>>) = 0
    OBVIOUS
  <2>2. DOMAIN <<>> = 1..Len(<<>>)
    BY <2>1
  <2> QED
    BY <2>1, <2>2
<1>11. Begin(<<>>, answer)
  BY <1>3, <1>10, StopsFinite DEF Begin
<1>12. Passed(<<>>, 0, Absent, Absent, FALSE)
  <2>1. Numbered(<<>>) = {}
    BY <1>10 DEF Numbered
  <2>2. NumbersFit(<<>>, Absent)
    BY <2>1 DEF NumbersFit, Adjacent
  <2>3. IdsFit(<<>>, Absent)
    BY <1>10 DEF IdsFit
  <2> QED
    BY <1>3, <1>10, <2>2, <2>3 DEF Passed
<1>13. Reads(answer, 0, Absent, <<>>, 0) /\ Len(<<>>) = Cardinality(StopsBefore(answer, 0 + 1))
  BY <1>5, <1>6, <1>7, <1>8, <1>9, <1>10 DEF Reads
<1>14. answer \in Bodies \cup {<<>>} /\ 0 \in 0..Len(answer)
  BY <1>3
<1> QED
  BY <1>2, <1>10, <1>11, <1>12, <1>13, <1>14 DEF StreamInv, Reading

LEMMA InitStep ==
    ASSUME StreamInit
    PROVE  StreamInv
<1>1. body = <<>> /\ events = <<>> /\ data_lines = <<>> /\ at = 0 /\ done_seen = FALSE /\ phase = "idle"
  BY DEF StreamInit
<1>2. Fresh
  BY DEF StreamInit, Fresh
<1>3. <<>> \in Seq(SaidIn(<<>>)) /\ <<>> \in Seq(DataOf(<<>>)) /\ Len(<<>>) = 0
  OBVIOUS
<1>4. Begin(<<>>, <<>>)
  BY <1>3, EmptyAnswer, StopsFinite DEF Begin
<1>5. at \in 0..Len(body) /\ body \in Bodies \cup {<<>>} /\ ~Reading
  BY <1>1, <1>3 DEF Reading
<1>6. Begin(events, body) /\ data_lines \in Seq(DataOf(body)) /\ done_seen \in BOOLEAN
  BY <1>1, <1>3, <1>4
<1> QED
  BY <1>1, <1>2, <1>5, <1>6 DEF StreamInv

\* A step that leaves the stream as it is.
LEMMA StreamKept ==
    ASSUME StreamInv, UNCHANGED Stream
    PROVE  StreamInv'
<1>1. /\ phase' = phase /\ body' = body /\ at' = at
      /\ event_name' = event_name /\ data_lines' = data_lines /\ event_bytes' = event_bytes
      /\ events' = events /\ event_count' = event_count /\ done_seen' = done_seen
      /\ expected_execution_id' = expected_execution_id /\ last_sequence' = last_sequence
  BY DEF Stream, parser, checks
<1> QED
  BY <1>1 DEF StreamInv, Fresh, Reading

\* A step that only ends the stream, before its end.
LEMMA StreamDropped ==
    ASSUME StreamInv, UNCHANGED <<body, at, parser, checks, events>>,
           phase' \notin {"idle", "reading", "yielded", "OK", "CONTRACT"}
    PROVE  StreamInv'
<1>1. body' = body /\ at' = at /\ data_lines' = data_lines /\ events' = events /\ done_seen' = done_seen
  BY DEF parser, checks
<1>2. Onward
  BY <1>1 DEF Onward, StreamInv
<1> QED
  BY <1>2, StopsReading

\* The invariant holds: whatever the answer, what the parser and the checks keep
\* is what the lines read so far say, and a stream that has ended was judged so.
THEOREM StreamInvariance == StreamSpec => []StreamInv
<1>1. StreamInit => StreamInv
  BY InitStep
<1>2. StreamInv /\ [StreamNext]_streamVars => StreamInv'
  <2> SUFFICES ASSUME StreamInv, [StreamNext]_streamVars
               PROVE  StreamInv'
    OBVIOUS
  <2>1. CASE UNCHANGED streamVars
    <3>1. UNCHANGED Stream
      BY <2>1 DEF streamVars, Stream
    <3> QED
      BY <3>1, StreamKept
  <2>2. ASSUME NEW status \in Statuses, NEW json \in BOOLEAN, RequestAnswered(status, json)
        PROVE  StreamInv'
    BY <2>2, StreamKept DEF RequestAnswered
  <2>3. ASSUME NEW code \in Breaks, RequestBroken(code)
        PROVE  StreamInv'
    BY <2>3, StreamKept DEF RequestBroken
  <2>4. ASSUME NEW status \in Statuses, NEW answer \in Bodies, OpenStream(status, answer)
        PROVE  StreamInv'
    BY <2>4, OpenStep
  <2>5. ASSUME NEW status \in Statuses, StreamRefused(status)
        PROVE  StreamInv'
    BY <2>5, StreamKept DEF StreamRefused
  <2>6. ASSUME NEW code \in Breaks, StreamBreaks(code)
        PROVE  StreamInv'
    <3>1. phase' \notin {"idle", "reading", "yielded", "OK", "CONTRACT"}
      BY <2>6 DEF StreamBreaks, StreamEnds, Breaks
    <3>2. UNCHANGED <<body, at, parser, checks, events>>
      BY <2>6 DEF StreamBreaks
    <3> QED
      BY <3>1, <3>2, StreamDropped
  <2>7. CASE Abandon
    <3>1. phase' = "ABANDONED" /\ UNCHANGED <<body, at, parser, checks, events>>
      BY <2>7 DEF Abandon, StreamEnds
    <3> QED
      BY <3>1, StreamDropped
  <2>8. CASE ReadBlank
    BY <2>8, ReadBlankStep
  <2>9. CASE ReadComment
    BY <2>9, ReadCommentStep
  <2>10. CASE ReadField
    BY <2>10, ReadFieldStep
  <2>11. CASE EndStream
    BY <2>11, EndStreamStep
  <2>12. CASE ReadLast
    BY <2>12, ReadLastStep
  <2> QED
    BY <2>1, <2>2, <2>3, <2>4, <2>5, <2>6, <2>7, <2>8, <2>9, <2>10, <2>11, <2>12 DEF StreamNext
<1> QED
  BY <1>1, <1>2, PTL DEF StreamSpec

\* For any answers, sizes and limits a stream read line by line is judged as if
\* its whole answer had been read at once, and hands over the first of its events.
THEOREM StreamsJudged == StreamSpec => []StreamsAreJudgedWhole
<1>1. StreamInv => StreamsAreJudgedWhole
  <2> SUFFICES ASSUME StreamInv
               PROVE  StreamsAreJudgedWhole
    OBVIOUS
  <2>1. Answer(body) /\ events \in Seq(SaidIn(body)) /\ Len(events) \in Nat
    BY InvBody
  <2>2. Begin(events, body)
    BY DEF StreamInv
  <2>3. IsPrefix(events, Events(body))
    <3>1. Len(events) <= Len(Events(body)) /\ \A k \in 1..Len(events) : events[k] = Events(body)[k]
      BY <2>1, <2>2, EventsDomain DEF Begin
    <3>2. SubSeq(events, 1, Len(events)) = SubSeq(Events(body), 1, Len(events))
      BY <2>1, <3>1
    <3> QED
      BY <3>1, <3>2 DEF IsPrefix
  <2>4. phase = "OK" => Whole(body) /\ events = Events(body)
    BY <2>1, <2>2, AllTaken DEF StreamInv
  <2>5. phase = "CONTRACT" => ~Whole(body)
    BY DEF StreamInv
  <2> QED
    BY <2>3, <2>4, <2>5 DEF StreamsAreJudgedWhole
<1> QED
  BY <1>1, StreamInvariance, PTL

-----------------------------------------------------------------------------
(* What is kept of the calls.                                              *)

Unseen == {"CONTRACT", "HTTP_ERROR", "ABANDONED"}
Outcomes ==
    Unseen \cup Breaks \cup
    {"OK", "AUTHENTICATION_FAILED", "AUTHORIZATION_FAILED", "CONTRACT_OR_RESOURCE_NOT_FOUND",
     "CONFLICT", "RATE_LIMITED", "UPSTREAM_FAILURE", "UPSTREAM_REJECTED", "UPSTREAM_RESPONSE_INVALID"}
Seen(cs) == {k \in DOMAIN cs : cs[k] \notin Unseen}
ToldAs(outcome) == IF outcome = "UPSTREAM_RESPONSE_INVALID" THEN "OK" ELSE outcome
Later(cs, k) == Cardinality({j \in Seen(cs) : j > k})

TellsOf(cs, obs) ==
    /\ cs \in Seq(Outcomes) /\ obs \in Seq(Outcomes)
    /\ IF Cardinality(Seen(cs)) <= Kept THEN Len(obs) = Cardinality(Seen(cs)) ELSE Len(obs) = Kept
    /\ \A k \in Seen(cs) : Later(cs, k) < Len(obs) => obs[Len(obs) - Later(cs, k)] = ToldAs(cs[k])

\* What is kept of obs and one more code.
Newest(obs, code) ==
    LET longer == Append(obs, code)
    IN  SubSeq(longer, Max({1, Len(longer) - Kept + 1}), Len(longer))

\* obs2 ends with the code and, as far as it goes, is obs before.
Continues(obs, code, obs2) ==
    /\ obs2 \in Seq(Outcomes)
    /\ Len(obs2) = IF Len(obs) = Kept THEN Kept ELSE Len(obs) + 1
    /\ obs2[Len(obs2)] = code
    /\ \A d \in Nat : d + 1 < Len(obs2) => obs2[Len(obs2) - (d + 1)] = obs[Len(obs) - d]

LEMMA NewestContinues ==
    ASSUME NEW obs \in Seq(Outcomes), Len(obs) <= Kept, NEW code \in Outcomes
    PROVE  Continues(obs, code, Newest(obs, code))
<1>0. Kept \in Nat \ {0}
  BY StreamAssumption
<1> DEFINE obs2 == Newest(obs, code)
<1> DEFINE longer == Append(obs, code)
           L == Len(obs)
           first == L + 2 - Kept
           from == IF L = Kept THEN 2 ELSE 1
<1>1. /\ L \in Nat /\ longer \in Seq(Outcomes) /\ Len(longer) = L + 1
      /\ longer[L + 1] = code /\ \A k \in 1..L : longer[k] = obs[k]
  BY OneMore
<1>2. Max({1, Len(longer) - Kept + 1}) = from
  <2>1. Len(longer) - Kept + 1 = first /\ first \in Int
    BY <1>0, <1>1
  <2>2. IF L = Kept THEN first = 2 ELSE first <= 1
    BY <1>0, <1>1
  <2>3. from \in {1, first} /\ \A x \in {1, first} : x <= from
    BY <2>1, <2>2
  <2>4. IsGreatest(from, {1, first})
    BY <2>3 DEF IsGreatest
  <2>5. {1, first} \in SUBSET Int
    BY <2>1
  <2> HIDE DEF from, first
  <2>6. Max({1, first}) = from
    BY <2>4, <2>5, MaxIsGreatest
  <2> QED
    BY <2>1, <2>6
<1>3. obs2 = SubSeq(longer, from, L + 1)
  BY <1>1, <1>2 DEF Newest
<1> HIDE DEF obs2, longer, L
<1>4. from \in 1..2 /\ from <= L + 1
  BY <1>0, <1>1 DEF L
<1>5. /\ obs2 \in Seq(Outcomes) /\ Len(obs2) = L + 2 - from
      /\ \A k \in 1..L + 2 - from : obs2[k] = longer[from + k - 1]
  <2> HIDE DEF from
  <2>1. from \in Int /\ L + 1 \in Int /\ from <= L + 1
    BY <1>1, <1>4
  <2>2. \A i \in from..L + 1 : longer[i] \in Outcomes
    <3>1. \A i \in from..L + 1 : i \in 1..Len(longer)
      BY <1>1, <1>4
    <3> QED
      BY <1>1, <3>1
  <2>3. /\ SubSeq(longer, from, L + 1) \in Seq(Outcomes)
        /\ Len(SubSeq(longer, from, L + 1)) = IF from <= L + 1 THEN (L + 1) - from + 1 ELSE 0
        /\ \A i \in 1..((L + 1) - from + 1) : SubSeq(longer, from, L + 1)[i] = longer[from + i - 1]
    BY <2>1, <2>2, SubSeqProperties
  <2>4. (L + 1) - from + 1 = L + 2 - from
    BY <1>1, <2>1
  <2> QED
    BY <1>3, <2>1, <2>3, <2>4
<1>6. Len(obs2) = IF L = Kept THEN Kept ELSE L + 1
  <2>1. CASE L = Kept
    <3>1. L + 2 - 2 = L
      BY <1>1
    <3> QED
      BY <1>5, <2>1, <3>1
  <2>2. CASE L # Kept
    <3>1. L + 2 - 1 = L + 1
      BY <1>1
    <3> QED
      BY <1>5, <2>2, <3>1
  <2> QED
    BY <2>1, <2>2
<1>7. obs2[Len(obs2)] = code
  <2>1. Len(obs2) \in 1..L + 2 - from /\ from + Len(obs2) - 1 = L + 1
    BY <1>1, <1>4, <1>5
  <2> QED
    BY <1>1, <1>5, <2>1
<1>8. ASSUME NEW d \in Nat, d + 1 < Len(obs2)
      PROVE  obs2[Len(obs2) - (d + 1)] = obs[L - d]
  <2>1. /\ Len(obs2) - (d + 1) \in 1..L + 2 - from
        /\ from + (Len(obs2) - (d + 1)) - 1 = L - d /\ L - d \in 1..L
    BY <1>1, <1>4, <1>5, <1>8
  <2> QED
    BY <1>1, <1>5, <2>1
<1> QED
  BY <1>5, <1>6, <1>7, <1>8 DEF Continues, L, obs2

LEMMA SeenFinite ==
    ASSUME NEW cs \in Seq(Outcomes)
    PROVE  /\ Seen(cs) \in SUBSET (1..Len(cs)) /\ IsFiniteSet(Seen(cs))
           /\ Cardinality(Seen(cs)) \in Nat /\ Len(cs) \in Nat
           /\ \A k : Later(cs, k) \in Nat /\ IsFiniteSet({j \in Seen(cs) : j > k})
<1>1. Seen(cs) \in SUBSET (1..Len(cs)) /\ Len(cs) \in Nat
  BY DEF Seen
<1>2. IsFiniteSet(1..Len(cs))
  BY <1>1, FS_Interval
<1>3. IsFiniteSet(Seen(cs))
  BY <1>1, <1>2, FS_Subset
<1>4. ASSUME NEW k
      PROVE  Later(cs, k) \in Nat /\ IsFiniteSet({j \in Seen(cs) : j > k})
  <2>1. {j \in Seen(cs) : j > k} \in SUBSET Seen(cs)
    OBVIOUS
  <2> QED
    BY <1>3, <2>1, FS_Subset, FS_CardinalityType DEF Later
<1> QED
  BY <1>1, <1>3, <1>4, FS_CardinalityType

\* What is seen of cs2, the calls cs and one that ends with the outcome.
OneCallMore(cs, outcome, cs2) ==
    /\ outcome \in Unseen => Seen(cs2) = Seen(cs)
    /\ outcome \notin Unseen =>
         /\ Seen(cs2) = Seen(cs) \cup {Len(cs) + 1}
         /\ Cardinality(Seen(cs2)) = Cardinality(Seen(cs)) + 1
         /\ Later(cs2, Len(cs) + 1) = 0
         /\ \A k \in Seen(cs) : Later(cs2, k) = Later(cs, k) + 1
    /\ cs2 \in Seq(Outcomes)
    /\ cs2[Len(cs) + 1] = outcome
    /\ \A k \in Seen(cs) : cs2[k] = cs[k] /\ k # Len(cs) + 1

LEMMA SeenGrows ==
    ASSUME NEW cs \in Seq(Outcomes), NEW outcome \in Outcomes
    PROVE  OneCallMore(cs, outcome, Append(cs, outcome))
<1> DEFINE cs2 == Append(cs, outcome)
           n == Len(cs)
<1>1. /\ n \in Nat /\ cs2 \in Seq(Outcomes) /\ DOMAIN cs = 1..n /\ DOMAIN cs2 = 1..n + 1
      /\ cs2[n + 1] = outcome /\ \A k \in 1..n : cs2[k] = cs[k]
  BY OneMore
<1> HIDE DEF cs2, n
<1>2. Seen(cs) \in SUBSET (1..n) /\ IsFiniteSet(Seen(cs))
  BY SeenFinite DEF n
<1>3. \A k : k \in 1..n + 1 <=> k \in 1..n \/ k = n + 1
  BY <1>1
<1>4. \A k : k \in Seen(cs2) <=> k \in Seen(cs) \/ (k = n + 1 /\ outcome \notin Unseen)
  BY <1>1, <1>3 DEF Seen
<1>5. \A k \in Seen(cs) : cs2[k] = cs[k] /\ k # n + 1
  BY <1>1, <1>2
<1>6. ASSUME outcome \notin Unseen
      PROVE  /\ Seen(cs2) = Seen(cs) \cup {n + 1}
             /\ Cardinality(Seen(cs2)) = Cardinality(Seen(cs)) + 1
             /\ Later(cs2, n + 1) = 0
             /\ \A k \in Seen(cs) : Later(cs2, k) = Later(cs, k) + 1
  <2>1. Seen(cs2) = Seen(cs) \cup {n + 1}
    BY <1>4, <1>6
  <2>2. n + 1 \notin Seen(cs)
    BY <1>5
  <2>3. Cardinality(Seen(cs2)) = Cardinality(Seen(cs)) + 1
    BY <1>2, <2>1, <2>2, FS_AddElement
  <2>4. {j \in Seen(cs2) : j > n + 1} = {}
    BY <1>1, <1>2, <2>1
  <2>5. Later(cs2, n + 1) = 0
    BY <2>4, FS_EmptySet DEF Later
  <2>6. ASSUME NEW k \in Seen(cs)
        PROVE  Later(cs2, k) = Later(cs, k) + 1
    <3> DEFINE J == {j \in Seen(cs) : j > k}
    <3>1. {j \in Seen(cs2) : j > k} = J \cup {n + 1}
      BY <1>1, <1>2, <2>1
    <3>2. n + 1 \notin J /\ IsFiniteSet(J)
      BY <2>2, SeenFinite
    <3>3. Cardinality(J \cup {n + 1}) = Cardinality(J) + 1
      BY <3>2, FS_AddElement
    <3> QED
      BY <3>1, <3>3 DEF Later
  <2> QED
    BY <2>1, <2>3, <2>5, <2>6
<1>7. outcome \in Unseen => Seen(cs2) = Seen(cs)
  BY <1>4
<1> QED
  BY <1>1, <1>5, <1>6, <1>7 DEF OneCallMore, cs2, n

\* A call that ends unobserved.
LEMMA EndsUnseen ==
    ASSUME TellsOf(calls, observations), NEW outcome \in Unseen, Ends(outcome),
           UNCHANGED observations
    PROVE  TellsOf(calls', observations')
<1>1. outcome \in Outcomes /\ calls' = Append(calls, outcome) /\ observations' = observations
  BY DEF Unseen, Ends, Outcomes
<1>2. calls \in Seq(Outcomes) /\ observations \in Seq(Outcomes)
  BY DEF TellsOf
<1>3. /\ Seen(calls') = Seen(calls) /\ calls' \in Seq(Outcomes)
      /\ \A k \in Seen(calls) : calls'[k] = calls[k]
  <2>1. OneCallMore(calls, outcome, calls')
    BY <1>1, <1>2, SeenGrows
  <2> QED
    BY <2>1 DEF OneCallMore
<1>4. \A k : Later(calls', k) = Later(calls, k)
  BY <1>3, Zenon DEF Later
<1> QED
  BY <1>1, <1>3, <1>4 DEF TellsOf

\* A call that ends observed.
LEMMA EndsSeen ==
    ASSUME TellsOf(calls, observations), NEW outcome \in Outcomes \ Unseen, Ends(outcome),
           Observe(ToldAs(outcome))
    PROVE  TellsOf(calls', observations')
<1> DEFINE code == ToldAs(outcome)
           n == Len(calls)
           L == Len(observations)
           L2 == Len(observations')
           C == Cardinality(Seen(calls))
<1>1. /\ code \in Outcomes /\ calls' = Append(calls, outcome)
      /\ calls \in Seq(Outcomes) /\ observations \in Seq(Outcomes) /\ Kept \in Nat \ {0}
      /\ observations' = Newest(observations, code)
  <2>1. code \in Outcomes
    BY DEF Outcomes, ToldAs
  <2> QED
    BY <2>1, StreamAssumption DEF TellsOf, Ends, Observe, Newest
<1>2. /\ Seen(calls') = Seen(calls) \cup {n + 1}
      /\ Cardinality(Seen(calls')) = C + 1
      /\ Later(calls', n + 1) = 0
      /\ \A k \in Seen(calls) : Later(calls', k) = Later(calls, k) + 1
      /\ calls' \in Seq(Outcomes) /\ calls'[n + 1] = outcome
      /\ \A k \in Seen(calls) : calls'[k] = calls[k]
  <2>1. OneCallMore(calls, outcome, calls')
    BY <1>1, SeenGrows
  <2> QED
    BY <2>1 DEF OneCallMore
<1>3. C \in Nat /\ L \in Nat /\ n \in Nat /\ \A k : Later(calls, k) \in Nat
  BY <1>1, SeenFinite
<1>4. /\ IF C <= Kept THEN L = C ELSE L = Kept
      /\ \A k \in Seen(calls) : Later(calls, k) < L => observations[L - Later(calls, k)] = ToldAs(calls[k])
  BY DEF TellsOf
<1> HIDE DEF code, n, C
<1>5. L <= Kept
  BY <1>1, <1>3, <1>4
<1>9. Continues(observations, code, observations')
  BY <1>1, <1>5, NewestContinues
<1>6. /\ observations' \in Seq(Outcomes)
      /\ L2 = IF L = Kept THEN Kept ELSE L + 1
      /\ observations'[L2] = code
      /\ \A d \in Nat : d + 1 < L2 => observations'[L2 - (d + 1)] = observations[L - d]
  BY <1>9 DEF Continues
<1> HIDE DEF L, L2
<1>7. IF C + 1 <= Kept THEN L2 = C + 1 ELSE L2 = Kept
  BY <1>1, <1>3, <1>4, <1>6
<1>8. ASSUME NEW k \in Seen(calls'), Later(calls', k) < L2
      PROVE  observations'[L2 - Later(calls', k)] = ToldAs(calls'[k])
  <2>1. CASE k = n + 1
    <3>1. L2 - 0 = L2
      BY <1>1, <1>3, <1>6
    <3> QED
      BY <1>2, <1>6, <2>1, <3>1 DEF code
  <2>2. CASE k \in Seen(calls)
    <3>1. PICK d \in Nat : d = Later(calls, k)
      BY <1>3
    <3>2. Later(calls', k) = d + 1 /\ calls'[k] = calls[k]
      BY <1>2, <2>2, <3>1
    <3>3. observations'[L2 - (d + 1)] = observations[L - d]
      BY <1>6, <1>8, <3>2
    <3>4. d < L
      BY <1>3, <1>1, <1>6, <1>8, <3>2
    <3> QED
      BY <1>4, <2>2, <3>1, <3>2, <3>3, <3>4
  <2> QED
    BY <1>2, <2>1, <2>2
<1> QED
  BY <1>2, <1>6, <1>7, <1>8 DEF TellsOf, L2

LEMMA ResultCodeIsAnOutcome ==
    ASSUME NEW status
    PROVE  ResultCode(status) \in Outcomes \ (Unseen \cup {"UPSTREAM_RESPONSE_INVALID"})
BY DEF ResultCode, Unseen, Outcomes

\* The inductive invariant of the observations.
CallsInv == TellsOf(calls, observations)

LEMMA FlushEnds ==
    ASSUME CallsInv, Flush
    PROVE  CallsInv'
<1>1. CASE Rejected
  BY <1>1, EndsUnseen DEF CallsInv, Rejected, StreamEnds, Unseen
<1>2. CASE UNCHANGED <<observations, calls>>
  BY <1>2 DEF CallsInv
<1> QED
  BY <1>1, <1>2 DEF Flush

\* The observations are the newest of the observed ends of calls, in their order.
THEOREM CallsTold == StreamSpec => []CallsInv
<1>1. StreamInit => CallsInv
  <2> SUFFICES ASSUME StreamInit
               PROVE  CallsInv
    OBVIOUS
  <2>1. calls = <<>> /\ observations = <<>>
    BY DEF StreamInit
  <2>2. <<>> \in Seq(Outcomes) /\ Len(<<>>) = 0
    OBVIOUS
  <2>3. Seen(<<>>) = {}
    <3>1. Seen(<<>>) \in SUBSET (1..Len(<<>>))
      BY <2>2, SeenFinite
    <3> QED
      BY <2>2, <3>1
  <2>4. Cardinality(Seen(<<>>)) = 0
    BY <2>3, FS_EmptySet
  <2> QED
    BY <2>1, <2>2, <2>3, <2>4, StreamAssumption DEF CallsInv, TellsOf
<1>2. CallsInv /\ [StreamNext]_streamVars => CallsInv'
  <2> SUFFICES ASSUME CallsInv, [StreamNext]_streamVars
               PROVE  CallsInv'
    OBVIOUS
  <2>1. CASE UNCHANGED <<calls, observations>>
    BY <2>1 DEF CallsInv
  <2>2. ASSUME NEW status \in Statuses, NEW json \in BOOLEAN, RequestAnswered(status, json)
        PROVE  CallsInv'
    <3>1. PICK outcome : outcome = IF ResultCode(status) = "OK" /\ ~json
                                   THEN "UPSTREAM_RESPONSE_INVALID" ELSE ResultCode(status)
      OBVIOUS
    <3>2. outcome \in Outcomes \ Unseen /\ ToldAs(outcome) = ResultCode(status)
      BY <3>1, ResultCodeIsAnOutcome DEF ToldAs, Unseen, Outcomes
    <3>3. Ends(outcome) /\ Observe(ToldAs(outcome))
      BY <2>2, <3>1, <3>2 DEF RequestAnswered
    <3> QED
      BY <3>2, <3>3, EndsSeen DEF CallsInv
  <2>3. ASSUME NEW code \in Breaks, Ends(code), Observe(code)
        PROVE  CallsInv'
    <3>1. code \in Outcomes \ Unseen /\ ToldAs(code) = code
      BY DEF Breaks, ToldAs, Unseen, Outcomes
    <3> QED
      BY <2>3, <3>1, EndsSeen DEF CallsInv
  <2>4. ASSUME NEW status \in Statuses, StreamRefused(status)
        PROVE  CallsInv'
    <3>1. ResultCode(status) \in Outcomes \ Unseen /\ ToldAs(ResultCode(status)) = ResultCode(status)
      BY ResultCodeIsAnOutcome DEF ToldAs
    <3>2. Ends(ResultCode(status)) /\ Observe(ToldAs(ResultCode(status)))
      BY <2>4, <3>1 DEF StreamRefused
    <3> QED
      BY <3>1, <3>2, EndsSeen DEF CallsInv
  <2>5. ASSUME NEW code \in Breaks, StreamBreaks(code)
        PROVE  CallsInv'
    <3>1. CASE code = "UPSTREAM_TRANSPORT_ERROR"
      BY <2>5, <3>1, EndsUnseen DEF CallsInv, StreamBreaks, StreamEnds, Unseen
    <3>2. CASE code # "UPSTREAM_TRANSPORT_ERROR"
      BY <2>3, <2>5, <3>2 DEF StreamBreaks, StreamEnds
    <3> QED
      BY <3>1, <3>2
  <2>6. CASE Abandon
    BY <2>6, EndsUnseen DEF CallsInv, Abandon, StreamEnds, Unseen
  <2>7. CASE ReadBlank
    BY <2>1, <2>7, FlushEnds DEF ReadBlank
  <2>8. CASE ReadField
    <3>1. CASE Rejected
      BY <3>1, EndsUnseen DEF CallsInv, Rejected, StreamEnds, Unseen
    <3>2. CASE ~Rejected
      BY <2>1, <2>8, <3>2 DEF ReadField
    <3> QED
      BY <3>1, <3>2
  <2>9. CASE EndStream
    <3>1. CASE done_seen
      <4>1. Ends("OK") /\ Observe("OK")
        BY <2>9, <3>1 DEF EndStream, StreamEnds
      <4>2. "OK" \in Outcomes \ Unseen /\ ToldAs("OK") = "OK"
        BY DEF Unseen, ToldAs, Outcomes
      <4> QED
        BY <4>1, <4>2, EndsSeen DEF CallsInv
    <3>2. CASE ~done_seen
      BY <2>9, <3>2, EndsUnseen DEF CallsInv, EndStream, Rejected, StreamEnds, Unseen
    <3> QED
      BY <3>1, <3>2
  <2>10. CASE ReadLast
    BY <2>10, FlushEnds DEF ReadLast
  <2>11. CASE ReadComment
    BY <2>1, <2>11 DEF ReadComment
  <2>12. ASSUME NEW status \in Statuses, NEW answer \in Bodies, OpenStream(status, answer)
         PROVE  CallsInv'
    BY <2>1, <2>12 DEF OpenStream
  <2>13. ASSUME NEW code \in Breaks, RequestBroken(code)
         PROVE  CallsInv'
    BY <2>3, <2>13 DEF RequestBroken
  <2>14. CASE UNCHANGED streamVars
    BY <2>1, <2>14 DEF streamVars
  <2> QED
    BY <2>2, <2>4, <2>5, <2>6, <2>7, <2>8, <2>9, <2>10, <2>11, <2>12, <2>13, <2>14 DEF StreamNext
<1> QED
  BY <1>1, <1>2, PTL DEF StreamSpec

\* Every call that ends with an answer or an error of the bridge is observed
\* exactly once, however many calls end and however few observations are kept.
THEOREM CallsObserved == StreamSpec => []ObservedOnce
<1>1. CallsInv => ObservedOnce
  <2> SUFFICES ASSUME CallsInv
               PROVE  ObservedOnce
    OBVIOUS
  <2>1. Kept \in Nat /\ Cardinality(Seen(calls)) \in Nat
    BY StreamAssumption, SeenFinite DEF CallsInv, TellsOf
  <2> DEFINE C == Cardinality(Seen(calls))
             least == IF C <= Kept THEN C ELSE Kept
  <2>2. Min({Kept, C}) = least
    <3>1. IsLeast(least, {Kept, C}) /\ {Kept, C} \in SUBSET Int
      BY <2>1 DEF IsLeast
    <3> HIDE DEF C, least
    <3> QED
      BY <3>1, MinIsLeast
  <2>3. Len(observations) = Min({Kept, C})
    BY <2>2 DEF CallsInv, TellsOf
  <2>4. \A k \in Seen(calls) : Later(calls, k) < Len(observations) =>
          observations[Len(observations) - Later(calls, k)] = ToldAs(calls[k])
    BY DEF CallsInv, TellsOf
  <2> QED
    BY <2>3, <2>4 DEF ObservedOnce, Seen, Later, ToldAs, Unseen
<1> QED
  BY <1>1, CallsTold, PTL

=============================================================================
