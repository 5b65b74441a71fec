------------------------- MODULE AddressQueryProofs -------------------------
(***************************************************************************)
(* Proofs about AddressQuery, for any helpers, queries, messages and       *)
(* number of repetitions.                                                  *)
(***************************************************************************)
EXTENDS AddressQuery, FiniteSetTheorems, TLAPS

\* The query has been sent.
Asked(q) == asks \cap ({q} \X Helpers) # {}

-----------------------------------------------------------------------------
(* The inductive invariant.                                                *)

\* TypeOK but for the limit of copies, which needs CopiesPerAttempt.
Types ==
  /\ hasAddr \in BOOLEAN
  /\ failed \in SUBSET Messages
  /\ active \in SUBSET Queries
  /\ answered \in [Queries -> SUBSET Helpers]
  /\ failSeqs \in [Queries -> SUBSET Messages]
  /\ attempts \in [Queries -> 0 .. MaxRetries]
  /\ asks \in SUBSET (Queries \X Helpers)
  /\ answers \in SUBSET [query : Queries, from : Helpers, holds : Contents]
  /\ results \in [Queries -> Nat]
  /\ outcome \in [Queries -> {"none", "found", "notfound"}]
  /\ expired \in SUBSET Queries
  /\ strayed \in SUBSET Queries
  /\ copies \in [Queries -> [Helpers -> Nat]]

\* Only what was asked is answered, and only it is in the map; what an answer about
\* somebody else took out of the map does not come back.
AskedFirst ==
  /\ \A ans \in answers : <<ans.query, ans.from>> \in asks
  /\ \A q \in active : Asked(q) /\ q \notin strayed
  /\ \A q \in strayed : Asked(q)

\* Who is in PendingQuery.answered has answered; while the query goes on, without an
\* address.
AnswersCounted ==
  \A q \in Queries : \A p \in answered[q] :
    /\ \E c \in Contents : [query |-> q, from |-> p, holds |-> c] \in answers
    /\ q \in active => [query |-> q, from |-> p, holds |-> "none"] \in answers

\* Each helper gets one copy at most with each attempt.
CopiesPerAttempt ==
  \A q \in Queries, p \in Helpers :
    /\ copies[q][p] <= attempts[q] + 1
    /\ <<q, p>> \notin asks => copies[q][p] = 0

IInv == Types /\ AskedFirst /\ AnswersCounted /\ CopiesPerAttempt /\ OneResult /\ NotFoundHonest

\* What the handlers do to one query.
LEMMA Effects ==
  ASSUME Types
  PROVE  /\ \A Q, what : Conclude(Q, what) =>
              \A q \in Queries :
                 /\ results'[q] = IF q \in Q THEN results[q] + 1 ELSE results[q]
                 /\ outcome'[q] = IF q \in Q THEN what ELSE outcome[q]
         /\ \A A : Ask(A) =>
              /\ asks' = asks \cup A
              /\ \A q \in Queries, p \in Helpers :
                   copies'[q][p] = IF <<q, p>> \in A THEN copies[q][p] + 1 ELSE copies[q][p]
BY DEF Conclude, Ask

\* The counters are numbers.
LEMMA Numbers ==
  ASSUME Types
  PROVE  /\ active \subseteq Queries
         /\ \A q \in Queries : attempts[q] \in Nat /\ attempts[q] <= MaxRetries
         /\ \A q \in Queries : results[q] \in Nat
         /\ \A q \in Queries, p \in Helpers : copies[q][p] \in Nat
BY QueryAssumption DEF Types

\* Nothing is asked at first.
LEMMA InitIInv == Init => IInv
<1>1. Init => Types
  BY QueryAssumption DEF Init, Types
<1>2. Init => AskedFirst /\ AnswersCounted /\ CopiesPerAttempt
  BY DEF Init, AskedFirst, AnswersCounted, CopiesPerAttempt
<1>3. Init => OneResult /\ NotFoundHonest
  BY DEF Init, OneResult, NotFoundHonest
<1>4. QED
  BY <1>1, <1>2, <1>3 DEF IInv

\* A new query: nobody can have answered it, and nothing was sent for it.
LEMMA FindAddressKeeps ==
  ASSUME IInv, NEW q \in Queries, FindAddress(q)
  PROVE  IInv'
<1> USE DEF IInv
<1>1. /\ ~Asked(q) /\ active' = active \cup {q} /\ asks' = asks \cup ({q} \X Helpers)
      /\ UNCHANGED <<hasAddr, failed, answers, answered, attempts, results, outcome, expired, strayed>>
      /\ failSeqs' = [failSeqs EXCEPT ![q] = failed]
  BY DEF FindAddress, Ask, Asked
<1>2. \A r \in Queries, p \in Helpers :
         copies'[r][p] = IF r = q THEN copies[r][p] + 1 ELSE copies[r][p]
  <2>1. copies' = [r \in Queries |-> [p \in Helpers |->
                     IF <<r, p>> \in {q} \X Helpers THEN copies[r][p] + 1 ELSE copies[r][p]]]
    BY DEF FindAddress, Ask
  <2>2. \A r \in Queries, p \in Helpers : <<r, p>> \in {q} \X Helpers <=> r = q
    OBVIOUS
  <2>3. QED
    BY <2>1, <2>2
<1>3. /\ Asked(q)' /\ q \notin active
      /\ \A r \in Queries \ {q} : Asked(r)' <=> Asked(r)
  <2>1. PICK p \in Helpers : TRUE
    BY QueryAssumption
  <2>2. <<q, p>> \in asks' \cap ({q} \X Helpers)
    BY <1>1
  <2>3. \A r \in Queries \ {q} : asks' \cap ({r} \X Helpers) = asks \cap ({r} \X Helpers)
    BY <1>1
  <2>4. QED
    BY <1>1, <2>2, <2>3 DEF Asked, AskedFirst
<1>4. \A p \in Helpers : <<q, p>> \notin asks /\ p \notin answered[q]
  <2>1. \A p \in Helpers : <<q, p>> \notin asks
    BY <1>1 DEF Asked
  <2>2. ASSUME NEW p \in answered[q]
        PROVE  FALSE
    <3>1. p \in Helpers
      BY DEF Types
    <3>2. PICK c \in Contents : [query |-> q, from |-> p, holds |-> c] \in answers
      BY DEF AnswersCounted
    <3>3. <<q, p>> \in asks
      BY <3>2 DEF AskedFirst
    <3>4. QED
      BY <2>1, <3>1, <3>3
  <2>3. QED
    BY <2>1, <2>2
<1>5. Types'
  <2>1. copies' \in [Queries -> [Helpers -> Nat]]
    BY DEF Types, FindAddress, Ask
  <2>2. QED
    BY <1>1, <2>1 DEF Types
<1>6. AskedFirst'
  BY <1>1, <1>3, Numbers DEF AskedFirst, Types
<1>7. AnswersCounted'
  BY <1>1, <1>4, Numbers DEF AnswersCounted, Types
<1>8. CopiesPerAttempt'
  <2>1. \A r \in Queries, p \in Helpers : <<r, p>> \in asks' <=> <<r, p>> \in asks \/ r = q
    BY <1>1
  <2>2. ASSUME NEW r \in Queries, NEW p \in Helpers
        PROVE  /\ copies'[r][p] <= attempts'[r] + 1
               /\ <<r, p>> \notin asks' => copies'[r][p] = 0
    <3>1. /\ copies[r][p] <= attempts[r] + 1 /\ (<<r, p>> \notin asks => copies[r][p] = 0)
          /\ copies'[r][p] = IF r = q THEN copies[r][p] + 1 ELSE copies[r][p]
          /\ attempts'[r] = attempts[r] /\ attempts[r] \in Nat
          /\ r = q => <<r, p>> \notin asks
      BY <1>1, <1>2, <1>4, Numbers DEF CopiesPerAttempt
    <3>2. CASE r = q
      BY <2>1, <3>1, <3>2
    <3>3. CASE r # q
      BY <2>1, <3>1, <3>3
    <3>4. QED
      BY <3>2, <3>3
  <2>3. QED
    BY <2>2 DEF CopiesPerAttempt
<1>9. OneResult'
  BY <1>1, <1>3 DEF OneResult, Asked
<1>10. NotFoundHonest'
  BY <1>1 DEF NotFoundHonest
<1>11. QED
  BY <1>5, <1>6, <1>7, <1>8, <1>9, <1>10

\* Queries that expire report once, those that go on ask those that have not answered.
LEMMA CheckAndRetryKeeps ==
  ASSUME IInv, NEW E \in SUBSET active, NEW R \in SUBSET active, CheckAndRetry(E, R)
  PROVE  IInv'
<1> USE DEF IInv
<1>1. /\ active' = active \ E /\ expired' = expired \cup E
      /\ asks' = asks \cup {x \in R \X Helpers : x[2] \in Unanswered(x[1])}
      /\ attempts' = [q \in Queries |-> IF q \in R THEN attempts[q] + 1 ELSE attempts[q]]
      /\ UNCHANGED <<hasAddr, failed, answers, answered, failSeqs, strayed>>
      /\ E \subseteq Queries /\ R \subseteq Queries
  BY DEF CheckAndRetry, Ask, Types
<1>2. \A q \in Queries :
         /\ results'[q] = IF q \in E THEN results[q] + 1 ELSE results[q]
         /\ outcome'[q] = IF q \in E THEN "notfound" ELSE outcome[q]
  BY Effects DEF CheckAndRetry, ReportedExpired
<1>3. \A q \in Queries, p \in Helpers :
         copies'[q][p] = IF q \in R /\ p \in Unanswered(q) THEN copies[q][p] + 1 ELSE copies[q][p]
  <2>1. \A q \in Queries, p \in Helpers :
           copies'[q][p] = IF <<q, p>> \in {x \in R \X Helpers : x[2] \in Unanswered(x[1])}
                           THEN copies[q][p] + 1 ELSE copies[q][p]
    BY Effects DEF CheckAndRetry
  <2>2. QED
    BY <2>1
<1>4. /\ \A q \in R : q \notin E /\ attempts[q] < MaxRetries
      /\ \A q \in Queries : Asked(q)' <=> Asked(q)
      /\ \A q \in Queries, p \in Helpers :
            <<q, p>> \in asks' <=> <<q, p>> \in asks \/ (q \in R /\ p \in Unanswered(q))
  <2>1. \A q \in R : q \notin E /\ attempts[q] < MaxRetries
    BY DEF CheckAndRetry, MayRepeat
  <2>2. \A q \in Queries, p \in Helpers :
            <<q, p>> \in asks' <=> <<q, p>> \in asks \/ (q \in R /\ p \in Unanswered(q))
    BY <1>1
  <2>3. \A q \in R : Asked(q)
    BY DEF AskedFirst
  <2>4. \A q \in Queries : Asked(q)' <=> Asked(q)
    BY <1>1, <2>2, <2>3 DEF Asked
  <2>5. QED
    BY <2>1, <2>2, <2>4
<1>5. Types'
  <2>1. copies' \in [Queries -> [Helpers -> Nat]]
    BY DEF Types, CheckAndRetry, Ask
  <2>2. attempts' \in [Queries -> 0 .. MaxRetries]
    BY <1>1, <1>4, QueryAssumption DEF Types
  <2>3. /\ results' \in [Queries -> Nat]
        /\ outcome' \in [Queries -> {"none", "found", "notfound"}]
    BY DEF Types, CheckAndRetry, Conclude
  <2>4. asks' \in SUBSET (Queries \X Helpers)
    BY <1>1 DEF Types
  <2>5. QED
    BY <1>1, <2>1, <2>2, <2>3, <2>4 DEF Types
<1>6. AskedFirst'
  BY <1>1, <1>4 DEF AskedFirst, Types
<1>7. AnswersCounted'
  BY <1>1 DEF AnswersCounted
<1>8. CopiesPerAttempt'
  <2>1. \A q \in Queries : attempts'[q] = IF q \in R THEN attempts[q] + 1 ELSE attempts[q]
    BY <1>1
  <2>2. ASSUME NEW q \in Queries, NEW p \in Helpers
        PROVE  /\ copies'[q][p] <= attempts'[q] + 1
               /\ <<q, p>> \notin asks' => copies'[q][p] = 0
    <3>1. /\ copies[q][p] <= attempts[q] + 1 /\ (<<q, p>> \notin asks => copies[q][p] = 0)
          /\ copies'[q][p] = IF q \in R /\ p \in Unanswered(q)
                            THEN copies[q][p] + 1 ELSE copies[q][p]
          /\ attempts'[q] = IF q \in R THEN attempts[q] + 1 ELSE attempts[q]
          /\ attempts[q] \in Nat /\ copies[q][p] \in Nat
          /\ <<q, p>> \in asks' <=> <<q, p>> \in asks \/ (q \in R /\ p \in Unanswered(q))
      BY <1>3, <1>4, <2>1, Numbers DEF CopiesPerAttempt
    <3>2. CASE q \in R
      <4>1. CASE p \in Unanswered(q)
        BY <3>1, <3>2, <4>1
      <4>2. CASE p \notin Unanswered(q)
        BY <3>1, <3>2, <4>2
      <4>3. QED
        BY <4>1, <4>2
    <3>3. CASE q \notin R
      BY <3>1, <3>3
    <3>4. QED
      BY <3>2, <3>3
  <2>3. QED
    BY <2>2 DEF CopiesPerAttempt
<1>9. OneResult'
  BY <1>1, <1>2, <1>4 DEF OneResult, Asked, AskedFirst, Types
<1>10. NotFoundHonest'
  BY <1>1, <1>2 DEF NotFoundHonest
<1>11. QED
  BY <1>5, <1>6, <1>7, <1>8, <1>9, <1>10

\* An answer with an address ends the query, one without only if it is the last.
LEMMA HandleAnswerKeeps ==
  ASSUME IInv, NEW ans \in answers, NEW changed \in BOOLEAN, HandleAnswer(ans, changed)
  PROVE  IInv'
<1> USE DEF IInv
<1> DEFINE q == ans.query
           A == answered[q] \cup {ans.from}
           hit == ans.holds # "none"
           over == hit \/ AllAnswered(A)
<1>0. /\ q \in Queries /\ ans.from \in Helpers /\ ans.holds \in Contents
      /\ ans = [query |-> q, from |-> ans.from, holds |-> ans.holds]
      /\ answered[q] \subseteq Helpers
  BY DEF Types
<1>1. /\ q \in active /\ active' = IF over THEN active \ {q} ELSE active
      /\ answered' = [answered EXCEPT ![q] = A]
      /\ UNCHANGED <<asks, answers, failSeqs, attempts, expired, strayed, copies>>
      /\ hasAddr' = (hasAddr \/ changed) /\ failed' \subseteq failed
  BY DEF HandleAnswer, PutBack
<1>2. \A r \in Queries :
         /\ results'[r] = IF over /\ r = q THEN results[r] + 1 ELSE results[r]
         /\ outcome'[r] = IF over /\ r = q THEN (IF hit THEN "found" ELSE "notfound")
                          ELSE outcome[r]
  <2>1. \A r \in Queries :
           /\ results'[r] = IF r \in (IF over THEN {q} ELSE {}) THEN results[r] + 1 ELSE results[r]
           /\ outcome'[r] = IF r \in (IF over THEN {q} ELSE {})
                            THEN (IF hit THEN "found" ELSE "notfound") ELSE outcome[r]
    BY Effects DEF HandleAnswer
  <2>2. QED
    BY <2>1
<1>3. ASSUME over, ~hit
      PROVE  A = Helpers
  <2>1. IsFiniteSet(Helpers) /\ A \in SUBSET Helpers
    BY <1>0, QueryAssumption
  <2>2. Cardinality(A) >= Cardinality(Helpers)
    BY <1>3 DEF AllAnswered
  <2>3. /\ Cardinality(A) <= Cardinality(Helpers)
        /\ Cardinality(Helpers) = Cardinality(A) => Helpers = A
    BY <2>1, FS_Subset
  <2>4. Cardinality(A) \in Nat /\ Cardinality(Helpers) \in Nat
    BY <2>1, FS_Subset, FS_CardinalityType
  <2>5. QED
    BY <2>2, <2>3, <2>4
<1>4. \A p \in A : /\ \E c \in Contents : [query |-> q, from |-> p, holds |-> c] \in answers
                   /\ ~hit => [query |-> q, from |-> p, holds |-> "none"] \in answers
  BY <1>0, <1>1 DEF AnswersCounted
<1> HIDE DEF over, hit, A, q
<1>5. Types'
  <2>1. /\ results' \in [Queries -> Nat]
        /\ outcome' \in [Queries -> {"none", "found", "notfound"}]
    BY DEF Types, HandleAnswer, Conclude
  <2>2. answered' \in [Queries -> SUBSET Helpers] /\ active' \in SUBSET Queries
    BY <1>0, <1>1 DEF Types, A
  <2>3. QED
    BY <1>1, <2>1, <2>2 DEF Types
<1>6. AskedFirst'
  BY <1>1 DEF AskedFirst, Asked
<1>7. AnswersCounted'
  BY <1>0, <1>1, <1>4 DEF AnswersCounted, Types, over
<1>8. CopiesPerAttempt'
  BY <1>1 DEF CopiesPerAttempt
<1>9. OneResult'
  BY <1>0, <1>1, <1>2 DEF OneResult, Asked, AskedFirst, Types
<1>10. NotFoundHonest'
  BY <1>0, <1>1, <1>2, <1>3, <1>4 DEF NotFoundHonest
<1>11. QED
  BY <1>5, <1>6, <1>7, <1>8, <1>9, <1>10

\* An answer about somebody else ends a query that has reported nothing.
LEMMA HandleStrayAnswerKeeps ==
  ASSUME IInv, NEW q \in Queries, NEW p \in Helpers, HandleStrayAnswer(q, p)
  PROVE  IInv'
<1> USE DEF IInv
<1>1. /\ q \in active /\ active' = active \ {q} /\ strayed' = strayed \cup {q}
      /\ UNCHANGED <<hasAddr, failed, answered, failSeqs, attempts, asks, answers, results,
                     outcome, expired, copies>>
  BY DEF HandleStrayAnswer
<1>2. Types'
  BY <1>1 DEF Types
<1>3. AskedFirst' /\ AnswersCounted' /\ CopiesPerAttempt'
  BY <1>1 DEF AskedFirst, AnswersCounted, CopiesPerAttempt, Asked
<1>4. OneResult' /\ NotFoundHonest'
  BY <1>1 DEF OneResult, NotFoundHonest
<1>5. QED
  BY <1>2, <1>3, <1>4

\* The other steps.
LEMMA OthersKeep ==
  ASSUME IInv,
         \/ \E q \in Queries, p \in Helpers, c \in Contents : HandleQuery(q, p, c)
         \/ \E m \in Messages : MessageFails(m)
         \/ \E learned \in BOOLEAN : HearTarget(learned)
         \/ UNCHANGED vars
  PROVE  IInv'
<1> USE DEF IInv
<1>1. UNCHANGED <<asks, active, answered, failSeqs, attempts, results, outcome, expired, strayed,
                  copies>>
  BY DEF HandleQuery, MessageFails, HearTarget, vars, queryVars
<1>2. /\ answers \subseteq answers'
      /\ answers' \in SUBSET [query : Queries, from : Helpers, holds : Contents]
      /\ \A ans \in answers' : ans \in answers \/ <<ans.query, ans.from>> \in asks
  <2>1. CASE \E q \in Queries, p \in Helpers, c \in Contents : HandleQuery(q, p, c)
    <3>1. PICK q \in Queries, p \in Helpers, c \in Contents : HandleQuery(q, p, c)
      BY <2>1
    <3>2. /\ answers' = answers \cup {[query |-> q, from |-> p, holds |-> c]}
          /\ <<q, p>> \in asks
      BY <3>1 DEF HandleQuery
    <3> DEFINE new == [query |-> q, from |-> p, holds |-> c]
    <3>3. /\ new \in [query : Queries, from : Helpers, holds : Contents]
          /\ new.query = q /\ new.from = p
      OBVIOUS
    <3>4. answers' = answers \cup {new} /\ <<new.query, new.from>> \in asks
      BY <3>2, <3>3
    <3> HIDE DEF new
    <3>5. QED
      BY <3>3, <3>4 DEF Types
  <2>2. CASE \/ \E m \in Messages : MessageFails(m)
             \/ \E learned \in BOOLEAN : HearTarget(learned)
             \/ UNCHANGED vars
    <3>1. answers' = answers
      BY <2>2 DEF MessageFails, HearTarget, vars
    <3>2. QED
      BY <3>1 DEF Types
  <2>3. QED
    BY <2>1, <2>2
<1>3. Types'
  <2>1. failed' \in SUBSET Messages /\ hasAddr' \in BOOLEAN
    BY DEF HandleQuery, MessageFails, HearTarget, vars, Types
  <2>2. QED
    BY <1>1, <1>2, <2>1 DEF Types
<1>4. AskedFirst' /\ AnswersCounted'
  BY <1>1, <1>2 DEF AskedFirst, AnswersCounted, Asked
<1>5. CopiesPerAttempt' /\ OneResult'
  BY <1>1 DEF CopiesPerAttempt, OneResult
<1>6. NotFoundHonest'
  BY <1>1, <1>2 DEF NotFoundHonest
<1>7. QED
  BY <1>3, <1>4, <1>5, <1>6

\* Every step keeps the invariant.
LEMMA NextKeeps ==
  ASSUME IInv, [Next]_vars
  PROVE  IInv'
<1>1. asks \subseteq Queries \X Helpers
  BY DEF IInv, Types
<1>2. QED
  BY <1>1, FindAddressKeeps, CheckAndRetryKeeps, HandleAnswerKeeps,
     HandleStrayAnswerKeeps, OthersKeep DEF Next

-----------------------------------------------------------------------------
(* What follows.                                                           *)

\* The counters keep to their limits, however often the questions are repeated.
THEOREM TypeCorrect == Spec => []TypeOK
<1>1. IInv => TypeOK
  <2>1. ASSUME IInv
        PROVE  copies \in [Queries -> [Helpers -> 0 .. MaxRetries + 1]]
    <3>1. ASSUME NEW q \in Queries, NEW p \in Helpers
          PROVE  copies[q][p] \in 0 .. MaxRetries + 1
      <4>1. /\ copies[q][p] \in Nat /\ attempts[q] \in Nat /\ MaxRetries \in Nat
            /\ attempts[q] <= MaxRetries /\ copies[q][p] <= attempts[q] + 1
        BY <2>1, Numbers, QueryAssumption DEF IInv, CopiesPerAttempt
      <4>2. QED
        BY <4>1
    <3>2. QED
      BY <2>1, <3>1 DEF IInv, Types
  <2>2. QED
    BY <2>1 DEF IInv, Types, TypeOK
<1>2. QED
  BY <1>1, InitIInv, NextKeeps, PTL DEF Spec

\* Every query that is over has reported exactly one result, but for those that an answer
\* about somebody else took out of the map: they report none.
THEOREM ExactlyOneResult == Spec => []OneResult
<1>1. IInv => OneResult
  BY DEF IInv
<1>2. QED
  BY <1>1, InitIInv, NextKeeps, PTL DEF Spec

\* "Not found" comes after the timeout or when everybody has said so.
THEOREM NotFoundIsHonest == Spec => []NotFoundHonest
<1>1. IInv => NotFoundHonest
  BY DEF IInv
<1>2. QED
  BY <1>1, InitIInv, NextKeeps, PTL DEF Spec

\* Nobody is asked more than MaxRetries + 1 times, or after an answer.
THEOREM QuestionsAreSparing == Spec => AskedSparingly
<1>1. ASSUME IInv, Next, NEW q \in Queries, NEW p \in Helpers, copies'[q][p] # copies[q][p]
      PROVE  /\ q \in active' /\ p \notin answered[q]
             /\ copies'[q][p] <= MaxRetries + 1
  <2>1. /\ copies[q][p] \in Nat /\ attempts[q] \in Nat /\ MaxRetries \in Nat
        /\ copies[q][p] <= attempts[q] + 1 /\ (<<q, p>> \notin asks => copies[q][p] = 0)
    BY <1>1, Numbers, QueryAssumption DEF IInv, CopiesPerAttempt
  <2>2. ASSUME NEW r \in Queries, FindAddress(r)
        PROVE  /\ q \in active' /\ p \notin answered[q]
               /\ copies'[q][p] <= MaxRetries + 1
    <3>1. copies'[q][p] = IF <<q, p>> \in {r} \X Helpers THEN copies[q][p] + 1 ELSE copies[q][p]
      BY <1>1, <2>2, Effects DEF FindAddress, IInv
    <3>2. q = r
      BY <1>1, <3>1
    <3>3. q \in active' /\ <<q, p>> \notin asks
      BY <2>2, <3>2 DEF FindAddress
    <3>4. p \notin answered[q]
      <4>1. SUFFICES ASSUME p \in answered[q] PROVE FALSE
        OBVIOUS
      <4>2. PICK c \in Contents : [query |-> q, from |-> p, holds |-> c] \in answers
        BY <1>1, <4>1 DEF IInv, AnswersCounted
      <4>3. QED
        BY <1>1, <3>3, <4>2 DEF IInv, AskedFirst
    <3>5. copies'[q][p] = 1
      BY <2>1, <3>1, <3>2, <3>3
    <3>6. QED
      BY <2>1, <3>3, <3>4, <3>5
  <2>3. ASSUME NEW E \in SUBSET active, NEW R \in SUBSET active, CheckAndRetry(E, R)
        PROVE  /\ q \in active' /\ p \notin answered[q]
               /\ copies'[q][p] <= MaxRetries + 1
    <3>1. copies'[q][p] = IF <<q, p>> \in {x \in R \X Helpers : x[2] \in Unanswered(x[1])}
                          THEN copies[q][p] + 1 ELSE copies[q][p]
      BY <1>1, <2>3, Effects DEF CheckAndRetry, IInv
    <3>2. q \in R /\ p \in Unanswered(q) /\ copies'[q][p] = copies[q][p] + 1
      BY <1>1, <3>1
    <3>3. q \in active' /\ attempts[q] < MaxRetries
      BY <2>3, <3>2 DEF CheckAndRetry, MayRepeat
    <3>4. p \notin answered[q]
      BY <3>2 DEF Unanswered
    <3>5. QED
      BY <2>1, <3>2, <3>3, <3>4
  <2>4. CASE \/ \E x \in asks, c \in Contents : HandleQuery(x[1], x[2], c)
             \/ \E ans \in answers, changed \in BOOLEAN : HandleAnswer(ans, changed)
             \/ \E x \in asks : HandleStrayAnswer(x[1], x[2])
             \/ \E m \in Messages : MessageFails(m)
             \/ \E learned \in BOOLEAN : HearTarget(learned)
    <3>1. copies' = copies
      BY <2>4 DEF HandleQuery, HandleAnswer, HandleStrayAnswer, MessageFails, HearTarget, queryVars
    <3>2. QED
      BY <1>1, <3>1
  <2>5. QED
    BY <1>1, <2>2, <2>3, <2>4 DEF Next
<1>2. IInv /\ [Next]_vars => [\A q \in Queries, p \in Helpers : copies'[q][p] # copies[q][p] =>
                                 /\ q \in active'
                                 /\ p \notin answered[q]
                                 /\ copies'[q][p] <= MaxRetries + 1]_vars
  BY <1>1
<1>3. QED
  BY <1>2, InitIInv, NextKeeps, PTL DEF Spec, AskedSparingly

\* The messages that had failed when a query started leave as it finds the address: what
\* handle_addr_answer revives does not depend on who else learnt the address before.
THEOREM FoundMeansResent == Spec => FoundResends
<1>1. ASSUME IInv, Next, NEW q \in Queries, outcome[q] = "none", outcome'[q] = "found", hasAddr'
      PROVE  failSeqs[q] \cap failed' = {}
  <2>1. ASSUME NEW E \in SUBSET active, NEW R \in SUBSET active, CheckAndRetry(E, R)
        PROVE  FALSE
    <3>1. outcome'[q] = IF q \in E THEN "notfound" ELSE outcome[q]
      BY <1>1, <2>1, Effects DEF CheckAndRetry, ReportedExpired, IInv
    <3>2. QED
      BY <1>1, <3>1
  <2>2. ASSUME NEW ans \in answers, NEW changed \in BOOLEAN, HandleAnswer(ans, changed)
        PROVE  failSeqs[q] \cap failed' = {}
    <3>1. ans.query = q /\ ans.holds # "none"
      <4> DEFINE hit == ans.holds # "none"
                 over == hit \/ AllAnswered(answered[ans.query] \cup {ans.from})
      <4>1. outcome'[q] = IF q \in (IF over THEN {ans.query} ELSE {})
                          THEN (IF hit THEN "found" ELSE "notfound") ELSE outcome[q]
        BY <1>1, <2>2, Effects DEF HandleAnswer, IInv
      <4>2. QED
        BY <1>1, <4>1
    <3>2. failed' = failed \ Resent(q, changed)
      BY <1>1, <2>2, <3>1 DEF HandleAnswer
    <3>3. QED
      BY <3>2 DEF Resent
  <2>3. CASE \/ \E r \in Queries : FindAddress(r)
             \/ \E x \in asks, c \in Contents : HandleQuery(x[1], x[2], c)
             \/ \E x \in asks : HandleStrayAnswer(x[1], x[2])
             \/ \E m \in Messages : MessageFails(m)
             \/ \E learned \in BOOLEAN : HearTarget(learned)
    <3>1. outcome' = outcome
      BY <2>3 DEF FindAddress, HandleQuery, HandleStrayAnswer, MessageFails, HearTarget, queryVars
    <3>2. QED
      BY <1>1, <3>1
  <2>4. QED
    BY <1>1, <2>1, <2>2, <2>3 DEF Next
<1>2. IInv /\ [Next]_vars => [\A q \in Queries :
        outcome[q] = "none" /\ outcome'[q] = "found" /\ hasAddr' => failSeqs[q] \cap failed' = {}]_vars
  BY <1>1
<1>3. QED
  BY <1>2, InitIInv, NextKeeps, PTL DEF Spec, FoundResends
=============================================================================
