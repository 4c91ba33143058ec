----------------------- MODULE SettlementDecisionProofs -----------------------
(***************************************************************************)
(* Proofs about SettlementDecision: sorting the candidates and comparing   *)
(* the first two decides what the policy says on sets, and both engines    *)
(* decide alike, for every settlement and every list of rows.              *)
(***************************************************************************)
EXTENDS SettlementDecision, FiniteSetTheorems, TLAPS

-----------------------------------------------------------------------------
(* The order of the candidates.                                            *)

BeforeIn(ev, rs, found, i) == {j \in found : Before(ev, rs, j, i)}

\* A rank is a number, whatever is compared.
LEMMA RankType ==
  ASSUME NEW ev, NEW row
  PROVE  Rank(ev, row) \in Int
<1>1. \A b \in BOOLEAN : Bit(b) \in 0 .. 1
  BY DEF Bit
<1>2. /\ RefMatch(ev, row) \in BOOLEAN /\ ContractMatch(ev, row) \in BOOLEAN
      /\ MatchMatch(ev, row) \in BOOLEAN /\ (Variance(ev, row) = 0) \in BOOLEAN
  BY DEF RefMatch, ContractMatch, MatchMatch
<1>3. /\ Bit(RefMatch(ev, row)) \in 0 .. 1 /\ Bit(ContractMatch(ev, row)) \in 0 .. 1
      /\ Bit(MatchMatch(ev, row)) \in 0 .. 1 /\ Bit(Variance(ev, row) = 0) \in 0 .. 1
  BY <1>1, <1>2
<1> QED
  BY <1>3 DEF Rank

\* Coming before is a strict total order of positions: equal ranks are told
\* apart by the order in which the rows were read.
LEMMA BeforeOrders ==
  ASSUME NEW ev, NEW rs, NEW i \in Int, NEW j \in Int
  PROVE  /\ ~Before(ev, rs, i, i)
         /\ i = j \/ Before(ev, rs, i, j) \/ Before(ev, rs, j, i)
         /\ ~(Before(ev, rs, i, j) /\ Before(ev, rs, j, i))
         /\ Before(ev, rs, i, j) => Rank(ev, rs[j]) <= Rank(ev, rs[i])
         /\ \A k \in Int : Before(ev, rs, i, j) /\ Before(ev, rs, j, k) => Before(ev, rs, i, k)
<1>1. Rank(ev, rs[i]) \in Int /\ Rank(ev, rs[j]) \in Int /\ \A k \in Int : Rank(ev, rs[k]) \in Int
  BY RankType
<1> QED
  BY <1>1 DEF Before

\* Whatever comes later has more candidates before it.
LEMMA PlaceGrows ==
  ASSUME NEW ev, NEW rs, NEW found \in SUBSET Int, IsFiniteSet(found),
         NEW i \in found, NEW j \in found, Before(ev, rs, i, j)
  PROVE  Cardinality(BeforeIn(ev, rs, found, i)) < Cardinality(BeforeIn(ev, rs, found, j))
<1> DEFINE A == BeforeIn(ev, rs, found, i)
           B == BeforeIn(ev, rs, found, j)
<1>1. A \in SUBSET found /\ B \in SUBSET found
  BY DEF BeforeIn
<1>2. i \notin A /\ A \cup {i} \in SUBSET B
  BY BeforeOrders DEF BeforeIn
<1> HIDE DEF A, B
<1>3. /\ IsFiniteSet(A) /\ IsFiniteSet(B)
      /\ Cardinality(A) \in Nat /\ Cardinality(B) \in Nat
  BY <1>1, FS_Subset, FS_CardinalityType
<1>4. Cardinality(A \cup {i}) = Cardinality(A) + 1
  BY <1>2, <1>3, FS_AddElement
<1>5. Cardinality(A \cup {i}) <= Cardinality(B)
  BY <1>2, <1>3, FS_Subset
<1>6. Cardinality(A) < Cardinality(B)
  BY <1>3, <1>4, <1>5
<1> QED
  BY <1>6 DEF A, B

\* Every place is taken by one candidate: the counts of the candidates before
\* each are all the numbers below theirs.
LEMMA PlacesAreTaken ==
  ASSUME NEW ev, NEW rs, NEW found \in SUBSET Int, IsFiniteSet(found)
  PROVE  /\ Cardinality(found) \in Nat
         /\ \A i \in found :
               Cardinality(BeforeIn(ev, rs, found, i)) \in 0 .. Cardinality(found) - 1
         /\ \A k \in 0 .. Cardinality(found) - 1 :
               \E i \in found : Cardinality(BeforeIn(ev, rs, found, i)) = k
<1>1. Cardinality(found) \in Nat
  BY FS_CardinalityType
<1>2. ASSUME NEW i \in found
      PROVE  Cardinality(BeforeIn(ev, rs, found, i)) \in 0 .. Cardinality(found) - 1
  <2>1. BeforeIn(ev, rs, found, i) \in SUBSET (found \ {i})
    BY BeforeOrders DEF BeforeIn
  <2>2. IsFiniteSet(found \ {i}) /\ Cardinality(found \ {i}) = Cardinality(found) - 1
    BY FS_RemoveElement
  <2>3. /\ IsFiniteSet(BeforeIn(ev, rs, found, i))
        /\ Cardinality(BeforeIn(ev, rs, found, i)) <= Cardinality(found) - 1
    BY <2>1, <2>2, FS_Subset
  <2> QED
    BY <1>1, <2>3, FS_CardinalityType
<1> DEFINE place == [i \in found |-> Cardinality(BeforeIn(ev, rs, found, i))]
           T == 0 .. Cardinality(found) - 1
<1>3. place \in Injection(found, T)
  <2>1. place \in [found -> T]
    BY <1>2
  <2>2. ASSUME NEW i \in found, NEW j \in found, place[i] = place[j]
        PROVE  i = j
    <3>1. /\ Cardinality(BeforeIn(ev, rs, found, i)) = Cardinality(BeforeIn(ev, rs, found, j))
          /\ Cardinality(BeforeIn(ev, rs, found, i)) \in Nat
      BY <1>2, <2>2
    <3>2. ~Before(ev, rs, i, j) /\ ~Before(ev, rs, j, i)
      BY <3>1, PlaceGrows
    <3> QED
      BY <3>2, BeforeOrders
  <2> QED
    BY <2>1, <2>2 DEF Injection, IsInjective
<1>4. IsFiniteSet(T) /\ Cardinality(T) = Cardinality(found)
  BY <1>1, FS_Interval
<1>5. place \in Surjection(found, T)
  <2> HIDE DEF place, T
  <2> QED
    BY <1>3, <1>4, FS_Injection
<1> QED
  BY <1>1, <1>2, <1>5 DEF Surjection

-----------------------------------------------------------------------------
(* The first two of the sorted candidates.                                 *)

\* The sorted list is empty when there is no candidate; its first has the best
\* rank; its second, if any, the best of all the others.
LEMMA FirstTwo ==
  ASSUME NEW ev, NEW rs, NEW found \in SUBSET Int, IsFiniteSet(found)
  PROVE  LET sorted == SortedByRank(ev, rs, found)
         IN  /\ Len(sorted) = Cardinality(found) /\ Len(sorted) \in Nat
             /\ sorted = << >> <=> found = {}
             /\ found # {} =>
                   /\ sorted[1] \in found
                   /\ \A i \in found : Rank(ev, rs[i]) <= Rank(ev, rs[sorted[1]])
             /\ Len(sorted) > 1 =>
                   /\ sorted[2] \in found /\ sorted[2] # sorted[1]
                   /\ \A i \in found \ {sorted[1]} :
                         Rank(ev, rs[i]) <= Rank(ev, rs[sorted[2]])
             /\ Len(sorted) <= 1 => \A i \in found : i = sorted[1]
<1> DEFINE n == Cardinality(found)
           sorted == SortedByRank(ev, rs, found)
<1>1. /\ n \in Nat
      /\ \A i \in found : Cardinality(BeforeIn(ev, rs, found, i)) \in 0 .. n - 1
      /\ \A k \in 0 .. n - 1 : \E i \in found : Cardinality(BeforeIn(ev, rs, found, i)) = k
  BY PlacesAreTaken
<1>2. sorted = [k \in 1 .. n |->
                  CHOOSE i \in found : Cardinality(BeforeIn(ev, rs, found, i)) = k - 1]
  BY DEF SortedByRank, BeforeIn
<1> HIDE DEF sorted, n
<1>3. \A k \in 1 .. n :
         sorted[k] \in found /\ Cardinality(BeforeIn(ev, rs, found, sorted[k])) = k - 1
  <2> TAKE k \in 1 .. n
  <2>1. \E i \in found : Cardinality(BeforeIn(ev, rs, found, i)) = k - 1
    BY <1>1
  <2> QED
    BY <1>2, <2>1
<1>4. sorted \in Seq(found) /\ Len(sorted) = n /\ DOMAIN sorted = 1 .. n
  <2>1. sorted \in [1 .. n -> found]
    BY <1>2, <1>3
  <2> QED
    BY <1>1, <2>1
<1>5. n = 0 <=> found = {}
  BY FS_EmptySet DEF n
<1>6. sorted = << >> <=> found = {}
  BY <1>1, <1>4, <1>5
<1>7. \A k \in 1 .. n : \A i \in found :
         Before(ev, rs, i, sorted[k]) => Cardinality(BeforeIn(ev, rs, found, i)) < k - 1
  <2> TAKE k \in 1 .. n
  <2> TAKE i \in found
  <2>1. sorted[k] \in found /\ Cardinality(BeforeIn(ev, rs, found, sorted[k])) = k - 1
    BY <1>3
  <2> QED
    BY <2>1, PlaceGrows
<1>8. \A i, j \in found : ~Before(ev, rs, i, j) =>
         Rank(ev, rs[i]) <= Rank(ev, rs[j])
  <2> TAKE i, j \in found
  <2>1. Rank(ev, rs[i]) \in Int /\ Rank(ev, rs[j]) \in Int
    BY RankType
  <2> QED
    BY <2>1 DEF Before
<1>9. ASSUME found # {}
      PROVE  /\ sorted[1] \in found
             /\ \A i \in found : ~Before(ev, rs, i, sorted[1])
  <2>1. 1 \in 1 .. n
    <3>1. n \in Nat
      BY <1>1
    <3>2. n # 0
      BY <1>5, <1>9
    <3> QED
      BY <3>1, <3>2
  <2>2. PICK k \in 1 .. n : k = 1
    BY <2>1
  <2>3. ASSUME NEW i \in found
        PROVE  ~Before(ev, rs, i, sorted[k])
    <3>1. Before(ev, rs, i, sorted[k]) => Cardinality(BeforeIn(ev, rs, found, i)) < k - 1
      BY <1>7
    <3>2. Cardinality(BeforeIn(ev, rs, found, i)) \in Nat
      BY <1>1
    <3> QED
      BY <2>2, <3>1, <3>2
  <2> QED
    BY <1>3, <2>2, <2>3
<1>10. ASSUME n > 1
       PROVE  /\ sorted[2] \in found /\ sorted[2] # sorted[1]
              /\ \A i \in found \ {sorted[1]} : ~Before(ev, rs, i, sorted[2])
  <2>1. 1 \in 1 .. n /\ 2 \in 1 .. n /\ found # {}
    BY <1>1, <1>5, <1>10
  <2>0. /\ sorted[1] \in found /\ Cardinality(BeforeIn(ev, rs, found, sorted[1])) = 0
        /\ sorted[2] \in found /\ Cardinality(BeforeIn(ev, rs, found, sorted[2])) = 1
    BY <1>3, <2>1
  <2>2. PICK a \in found, b \in found : a = sorted[1] /\ b = sorted[2]
    BY <2>0
  <2>5. /\ Cardinality(BeforeIn(ev, rs, found, a)) = 0
        /\ Cardinality(BeforeIn(ev, rs, found, b)) = 1
    BY <2>0, <2>2
  <2>3. ASSUME NEW i \in found, i # a
        PROVE  ~Before(ev, rs, i, b)
    <3>1. Before(ev, rs, a, i)
      BY <1>9, <2>1, <2>2, <2>3, BeforeOrders
    <3>2. Cardinality(BeforeIn(ev, rs, found, a)) < Cardinality(BeforeIn(ev, rs, found, i))
      BY <3>1, PlaceGrows
    <3>3. Before(ev, rs, i, b) =>
             Cardinality(BeforeIn(ev, rs, found, i)) < Cardinality(BeforeIn(ev, rs, found, b))
      BY PlaceGrows
    <3>4. Cardinality(BeforeIn(ev, rs, found, i)) \in Int
      BY <1>1
    <3> QED
      BY <2>5, <3>2, <3>3, <3>4
  <2>4. a # b
    BY <2>5
  <2> QED
    BY <2>2, <2>3, <2>4
<1>11. ASSUME n <= 1
       PROVE  \A i \in found : i = sorted[1]
  <2> TAKE i \in found
  <2>1. PICK a \in found : a = sorted[1]
    BY <1>9
  <2>2. i = a \/ Before(ev, rs, a, i) \/ Before(ev, rs, i, a)
    BY BeforeOrders
  <2>3. /\ Cardinality(BeforeIn(ev, rs, found, a)) \in 0 .. n - 1
        /\ Cardinality(BeforeIn(ev, rs, found, i)) \in 0 .. n - 1
    BY <1>1
  <2>4. Cardinality(BeforeIn(ev, rs, found, a)) = Cardinality(BeforeIn(ev, rs, found, i))
    BY <1>1, <1>11, <2>3
  <2>5. ~Before(ev, rs, a, i) /\ ~Before(ev, rs, i, a)
    <3>1. /\ Before(ev, rs, a, i) => Cardinality(BeforeIn(ev, rs, found, a))
                                       < Cardinality(BeforeIn(ev, rs, found, i))
          /\ Before(ev, rs, i, a) => Cardinality(BeforeIn(ev, rs, found, i))
                                       < Cardinality(BeforeIn(ev, rs, found, a))
      BY PlaceGrows
    <3> QED
      BY <2>3, <2>4, <3>1
  <2> QED
    BY <2>1, <2>2, <2>5
<1>12. Len(sorted) = Cardinality(found) /\ Len(sorted) \in Nat
  BY <1>1, <1>4 DEF n
<1>13. found # {} =>
          /\ sorted[1] \in found
          /\ \A i \in found : Rank(ev, rs[i]) <= Rank(ev, rs[sorted[1]])
  BY <1>8, <1>9
<1>14. Len(sorted) > 1 =>
          /\ sorted[2] \in found /\ sorted[2] # sorted[1]
          /\ \A i \in found \ {sorted[1]} : Rank(ev, rs[i]) <= Rank(ev, rs[sorted[2]])
  BY <1>4, <1>8, <1>10
<1>15. Len(sorted) <= 1 => \A i \in found : i = sorted[1]
  BY <1>4, <1>11
<1> QED
  BY <1>6, <1>12, <1>13, <1>14, <1>15 DEF sorted

-----------------------------------------------------------------------------
(* One decision.                                                           *)

Case(ev, rs) == ev \in Settlements /\ rs \in Lists

\* The rows that are filtered are the candidates of the policy.
LEMMA SameCandidates ==
  ASSUME NEW ev, NEW rs, Case(ev, rs)
  PROVE  /\ Identified(ev, rs) = Candidates(ev, rs)
         /\ FoundCandidates(ev, rs) = Candidates(ev, rs)
         /\ Candidates(ev, rs) \in SUBSET DOMAIN rs
         /\ Candidates(ev, rs) \in SUBSET Int
         /\ IsFiniteSet(Candidates(ev, rs))
         /\ 0 \notin DOMAIN rs
<1>1. Len(rs) \in Nat /\ DOMAIN rs = 1 .. Len(rs)
  BY DecisionAssumption DEF Case
<1>2. IsFiniteSet(1 .. Len(rs))
  BY <1>1, FS_Interval
<1>3. Candidates(ev, rs) \in SUBSET DOMAIN rs
  BY DEF Candidates
<1>4. /\ Identified(ev, rs) = Candidates(ev, rs)
      /\ FoundCandidates(ev, rs) = Candidates(ev, rs)
  BY DEF Identified, Locked, FoundCandidates, Candidates
<1>5. IsFiniteSet(Candidates(ev, rs))
  BY <1>1, <1>2, <1>3, FS_Subset
<1> QED
  BY <1>1, <1>3, <1>4, <1>5

\* Variances are numbers that are not negative.
LEMMA VarianceType ==
  ASSUME NEW ev, NEW rs, Case(ev, rs), NEW i \in DOMAIN rs
  PROVE  Variance(ev, rs[i]) \in Nat
<1>1. ev.amount \in Int /\ rs[i].amount \in Int
  BY DecisionAssumption DEF Case
<1> QED
  BY <1>1 DEF Variance

\* The first two after sorting tie exactly when the policy finds the case
\* ambiguous, and the first is the clear winner otherwise.
LEMMA SortingDecides ==
  ASSUME NEW ev, NEW rs, Case(ev, rs), Candidates(ev, rs) # {}
  PROVE  LET sorted == SortedByRank(ev, rs, Candidates(ev, rs))
         IN  /\ sorted # << >> /\ sorted[1] \in Candidates(ev, rs)
             /\ Tie(ev, rs, sorted) <=> Ambiguous(ev, rs)
             /\ \A i \in DOMAIN rs :
                   ClearWinner(ev, rs, i) <=> ~Tie(ev, rs, sorted) /\ i = sorted[1]
<1> DEFINE found == Candidates(ev, rs)
           sorted == SortedByRank(ev, rs, found)
           a == sorted[1]
           b == sorted[2]
           rank == [i \in found |-> Rank(ev, rs[i])]
<1>1. /\ found \in SUBSET Int /\ IsFiniteSet(found) /\ found # {}
  BY SameCandidates
<1>2. /\ Len(sorted) \in Nat
      /\ sorted # << >> /\ a \in found
      /\ \A i \in found : Rank(ev, rs[i]) <= Rank(ev, rs[a])
      /\ Len(sorted) > 1 =>
            /\ b \in found /\ b # a
            /\ \A i \in found \ {a} : Rank(ev, rs[i]) <= Rank(ev, rs[b])
      /\ Len(sorted) <= 1 => \A i \in found : i = a
  BY <1>1, FirstTwo
<1>3. rank \in [found -> Int]
  BY RankType
<1>4. \A i \in found : rank[i] = Rank(ev, rs[i])
  OBVIOUS
<1>5. Tie(ev, rs, sorted) <=> Len(sorted) > 1 /\ Rank(ev, rs[a]) = Rank(ev, rs[b])
  BY DEF Tie
<1> HIDE DEF rank, sorted, found
<1>6. Tie(ev, rs, sorted) <=> Len(sorted) > 1 /\ rank[a] = rank[b]
  BY <1>2, <1>4, <1>5
<1>7. Ambiguous(ev, rs) <=> \E c, d \in found :
         c # d /\ rank[c] = rank[d] /\ \A e \in found : rank[e] <= rank[c]
  BY <1>4 DEF Ambiguous, found
<1>8. \A i \in DOMAIN rs : ClearWinner(ev, rs, i) <=>
         i \in found /\ \A d \in found \ {i} : rank[d] < rank[i]
  BY <1>4 DEF ClearWinner, found
<1>9. /\ \A i \in found : rank[i] <= rank[a]
      /\ Len(sorted) > 1 => \A i \in found \ {a} : rank[i] <= rank[b]
  BY <1>2, <1>4
<1>10. Tie(ev, rs, sorted) => Ambiguous(ev, rs)
  BY <1>2, <1>6, <1>7, <1>9
<1>11. ASSUME ~Tie(ev, rs, sorted)
       PROVE  \A i \in found \ {a} : rank[i] < rank[a]
  <2>1. CASE Len(sorted) > 1
    <3>1. rank[b] < rank[a]
      BY <1>2, <1>3, <1>6, <1>9, <1>11, <2>1
    <3> QED
      BY <1>2, <1>3, <1>9, <2>1, <3>1
  <2>2. CASE ~(Len(sorted) > 1)
    BY <1>2, <2>2
  <2> QED
    BY <2>1, <2>2
<1>12. Ambiguous(ev, rs) => Tie(ev, rs, sorted)
  <2> SUFFICES ASSUME ~Tie(ev, rs, sorted), NEW c \in found, NEW d \in found,
                      c # d, rank[c] = rank[d], \A e \in found : rank[e] <= rank[c]
               PROVE  FALSE
    BY <1>7
  <2>1. PICK e \in {c, d} : e # a
    OBVIOUS
  <2>2. rank[e] < rank[a] /\ rank[a] <= rank[e]
    BY <1>2, <1>11, <2>1
  <2> QED
    BY <1>2, <1>3, <2>1, <2>2
<1>13. ASSUME NEW i \in DOMAIN rs
       PROVE  ClearWinner(ev, rs, i) <=> ~Tie(ev, rs, sorted) /\ i = a
  <2>1. ASSUME ~Tie(ev, rs, sorted), i = a
        PROVE  ClearWinner(ev, rs, i)
    BY <1>2, <1>8, <1>11, <2>1
  <2>2. ASSUME i \in found, \A d \in found \ {i} : rank[d] < rank[i]
        PROVE  ~Tie(ev, rs, sorted) /\ i = a
    <3>1. i = a
      BY <1>2, <1>3, <1>9, <2>2
    <3>2. ~Tie(ev, rs, sorted)
      BY <1>2, <1>3, <1>6, <2>2, <3>1
    <3> QED
      BY <3>1, <3>2
  <2> QED
    BY <1>8, <2>1, <2>2
<1> QED
  BY <1>2, <1>10, <1>12, <1>13 DEF sorted, found

\* The four verdicts of the persistent service, on sets.
LEMMA PersistentDecides ==
  ASSUME NEW ev, NEW rs, Case(ev, rs)
  PROVE  LET decided == DecidePersistent(ev, rs)
         IN  /\ decided.decision = "UNMATCHED" <=> Candidates(ev, rs) = {}
             /\ decided.reason = "AMBIGUOUS_CANDIDATES" <=> Ambiguous(ev, rs)
             /\ \A i \in DOMAIN rs : decided.row = i <=> ClearWinner(ev, rs, i)
             /\ decided.decision = "AUTO_RECONCILED" <=>
                   \E i \in DOMAIN rs : ClearWinner(ev, rs, i) /\ MayAutoReconcile(ev, rs[i])
<1> DEFINE decided == DecidePersistent(ev, rs)
           found == Candidates(ev, rs)
           sorted == SortedByRank(ev, rs, found)
           a == sorted[1]
<1>1. /\ found \in SUBSET DOMAIN rs /\ found \in SUBSET Int /\ IsFiniteSet(found)
      /\ 0 \notin DOMAIN rs /\ Identified(ev, rs) = found
  BY SameCandidates
<1>2. CASE found = {}
  <2>1. sorted = << >>
    BY <1>1, <1>2, FirstTwo
  <2>2. decided = Result("UNMATCHED", "NO_CANDIDATE", 0, None)
    BY <1>1, <2>1 DEF DecidePersistent
  <2>3. ~Ambiguous(ev, rs) /\ \A i \in DOMAIN rs : ~ClearWinner(ev, rs, i)
    BY <1>2 DEF Ambiguous, ClearWinner
  <2> QED
    BY <1>1, <1>2, <2>2, <2>3 DEF Result
<1>3. CASE found # {}
  <2>1. /\ sorted # << >> /\ a \in found
        /\ Tie(ev, rs, sorted) <=> Ambiguous(ev, rs)
        /\ \A i \in DOMAIN rs : ClearWinner(ev, rs, i) <=> ~Tie(ev, rs, sorted) /\ i = a
    BY <1>3, SortingDecides
  <2>2. decided =
          IF Tie(ev, rs, sorted)
          THEN Result("REVIEW_REQUIRED", "AMBIGUOUS_CANDIDATES", 0, rs[a].amount)
          ELSE IF Variance(ev, rs[a]) > Tolerance
          THEN Result("REVIEW_REQUIRED", "AMOUNT_VARIANCE", a, rs[a].amount)
          ELSE IF ~Ready(ev, rs[a])
          THEN Result("REVIEW_REQUIRED", "COMMISSION_NOT_READY", a, rs[a].amount)
          ELSE Result("AUTO_RECONCILED", "EXACT_REFERENCE_AND_AMOUNT", a, rs[a].amount)
    BY <1>1, <2>1 DEF DecidePersistent
  <2>3. a \in DOMAIN rs
    BY <1>1, <2>1
  <2>4. MayAutoReconcile(ev, rs[a]) <=> ~(Variance(ev, rs[a]) > Tolerance) /\ Ready(ev, rs[a])
    <3>1. Variance(ev, rs[a]) \in Nat /\ Tolerance \in Nat
      BY <2>3, VarianceType, DecisionAssumption
    <3>2. Variance(ev, rs[a]) <= Tolerance <=> ~(Variance(ev, rs[a]) > Tolerance)
      BY <3>1
    <3> QED
      BY <3>2 DEF MayAutoReconcile, Ready, Settleable
  <2> HIDE DEF decided, sorted, found
  <2>5. CASE Tie(ev, rs, sorted)
    <3>1. /\ decided.decision = "REVIEW_REQUIRED" /\ decided.reason = "AMBIGUOUS_CANDIDATES"
          /\ decided.row = 0
      BY <2>2, <2>5 DEF Result
    <3> QED
      BY <1>1, <1>3, <2>1, <2>5, <3>1 DEF decided, found
  <2>6. CASE ~Tie(ev, rs, sorted)
    <3>1. /\ decided.decision # "UNMATCHED" /\ decided.reason # "AMBIGUOUS_CANDIDATES"
          /\ decided.row = a
          /\ decided.decision = "AUTO_RECONCILED" <=>
                ~(Variance(ev, rs[a]) > Tolerance) /\ Ready(ev, rs[a])
      BY <2>2, <2>6 DEF Result
    <3>2. decided.decision = "AUTO_RECONCILED" <=> MayAutoReconcile(ev, rs[a])
      BY <2>4, <3>1
    <3>3. \A i \in DOMAIN rs : ClearWinner(ev, rs, i) <=> i = a
      BY <2>1, <2>6
    <3> QED
      BY <1>3, <2>1, <2>3, <2>6, <3>1, <3>2, <3>3 DEF decided, found
  <2> QED
    BY <2>5, <2>6
<1> QED
  BY <1>2, <1>3

\* The engine's extra conditions change nothing: a variance above a tolerance
\* that is not negative is not zero, and what is identified by its contract
\* has one.
LEMMA EnginesDecideAlike ==
  ASSUME NEW ev, NEW rs, Case(ev, rs)
  PROVE  /\ DecidePersistent(ev, rs).decision = DecidePrototype(ev, rs).decision
         /\ DecidePersistent(ev, rs).reason = DecidePrototype(ev, rs).reason
         /\ DecidePersistent(ev, rs).row = DecidePrototype(ev, rs).row
<1> DEFINE found == Candidates(ev, rs)
           sorted == SortedByRank(ev, rs, found)
           best == rs[sorted[1]]
<1>1. Identified(ev, rs) = found /\ FoundCandidates(ev, rs) = found /\ found \in SUBSET DOMAIN rs
  BY SameCandidates
<1>2. CASE found = {}
  <2>1. sorted = << >>
    BY <1>2, SameCandidates, FirstTwo
  <2> QED
    BY <1>1, <2>1 DEF DecidePersistent, DecidePrototype
<1>3. CASE found # {}
  <2>1. sorted # << >> /\ sorted[1] \in DOMAIN rs
    BY <1>1, <1>3, SortingDecides
  <2>2. Variance(ev, best) \in Nat /\ Tolerance \in Nat
    BY <2>1, VarianceType, DecisionAssumption
  <2>3. /\ Variance(ev, best) # 0 /\ Variance(ev, best) > Tolerance
             <=> Variance(ev, best) > Tolerance
        /\ Variance(ev, best) <= Tolerance <=> ~(Variance(ev, best) > Tolerance)
    BY <2>2
  <2>4. ContractMatch(ev, best) => ev.contract # None \/ best.contract # None
    BY DEF ContractMatch
  <2>5. ~(Variance(ev, best) > Tolerance) =>
           (IsReadyForAutoReconcile(ev, best) <=> Ready(ev, best))
    BY <2>3, <2>4 DEF IsReadyForAutoReconcile, Ready
  <2>6. DecidePersistent(ev, rs) =
          IF Tie(ev, rs, sorted)
          THEN Result("REVIEW_REQUIRED", "AMBIGUOUS_CANDIDATES", 0, best.amount)
          ELSE IF Variance(ev, best) > Tolerance
          THEN Result("REVIEW_REQUIRED", "AMOUNT_VARIANCE", sorted[1], best.amount)
          ELSE IF ~Ready(ev, best)
          THEN Result("REVIEW_REQUIRED", "COMMISSION_NOT_READY", sorted[1], best.amount)
          ELSE Result("AUTO_RECONCILED", "EXACT_REFERENCE_AND_AMOUNT", sorted[1], best.amount)
    BY <1>1, <2>1 DEF DecidePersistent
  <2>7. DecidePrototype(ev, rs) =
          IF Tie(ev, rs, sorted)
          THEN Result("REVIEW_REQUIRED", "AMBIGUOUS_CANDIDATES", 0, None)
          ELSE IF Variance(ev, best) > Tolerance
          THEN Result("REVIEW_REQUIRED", "AMOUNT_VARIANCE", sorted[1], None)
          ELSE IF ~Ready(ev, best)
          THEN Result("REVIEW_REQUIRED", "COMMISSION_NOT_READY", sorted[1], None)
          ELSE Result("AUTO_RECONCILED", "EXACT_REFERENCE_AND_AMOUNT", sorted[1], None)
    BY <1>1, <2>1, <2>3, <2>5 DEF DecidePrototype
  <2> HIDE DEF sorted, best
  <2> QED
    BY <2>6, <2>7 DEF Result
<1> QED
  BY <1>2, <1>3

-----------------------------------------------------------------------------
(* The theorems.  What has been decided is what the two engines decide.    *)

IInv ==
    /\ Case(event, rows)
    /\ Decided => /\ persistent = DecidePersistent(event, rows)
                  /\ prototype = DecidePrototype(event, rows)

\* Rows and settlement stay, and so does what was decided on them.
LEMMA Invariance == Spec => []IInv
<1>1. Init => IInv
  BY DEF Init, IInv, Case, Decided
<1>2. IInv /\ [Next]_vars => IInv'
  <2> SUFFICES ASSUME IInv, [Next]_vars
               PROVE  IInv'
    OBVIOUS
  <2>1. event' = event /\ rows' = rows
    BY DEF Next, Decide, vars
  <2>2. CASE UNCHANGED vars
    BY <2>2 DEF vars, IInv, Decided, Case
  <2>3. CASE Next
    <3>1. /\ persistent' = DecidePersistent(event, rows)
          /\ prototype' = DecidePrototype(event, rows)
      BY <2>3 DEF Next, Decide
    <3>2. /\ persistent' = DecidePersistent(event', rows')
          /\ prototype' = DecidePrototype(event', rows')
      BY <2>1, <3>1
    <3> QED
      BY <2>1, <3>2 DEF IInv, Case
  <2> QED
    BY <2>2, <2>3
<1> QED
  BY <1>1, <1>2, PTL DEF Spec

\* Sorting the rows and comparing the first two decides what SettlementPolicy
\* says on the unordered set of candidates, for every list of rows.
THEOREM Policy == Spec => []PersistentFollowsPolicy
<1>1. IInv => PersistentFollowsPolicy
  <2> SUFFICES ASSUME IInv, Decided
               PROVE  PersistentFollowsPolicy
    BY DEF PersistentFollowsPolicy
  <2>1. Case(event, rows) /\ persistent = DecidePersistent(event, rows)
    BY DEF IInv
  <2>2. /\ persistent.decision = "UNMATCHED" <=> Candidates(event, rows) = {}
        /\ persistent.reason = "AMBIGUOUS_CANDIDATES" <=> Ambiguous(event, rows)
        /\ \A i \in DOMAIN rows : persistent.row = i <=> ClearWinner(event, rows, i)
        /\ persistent.decision = "AUTO_RECONCILED" <=>
              \E i \in DOMAIN rows :
                  ClearWinner(event, rows, i) /\ MayAutoReconcile(event, rows[i])
    BY <2>1, PersistentDecides
  <2> QED
    BY <2>2 DEF PersistentFollowsPolicy
<1> QED
  BY <1>1, Invariance, PTL

\* The persistent service decides what the in-memory prototype decides: the
\* same decision, reason and commission, for every settlement and rows in
\* every order.
THEOREM Agreement == Spec => []EnginesAgree
<1>1. IInv => EnginesAgree
  BY EnginesDecideAlike DEF IInv, EnginesAgree
<1> QED
  BY <1>1, Invariance, PTL

=============================================================================
