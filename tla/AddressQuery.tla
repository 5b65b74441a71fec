---------------------------- MODULE AddressQuery ----------------------------
(***************************************************************************)
(* Passive addressing (net/mod.rs): this node asks its other friends, the  *)
(* helpers, for the address of a friend it cannot reach, the target, and   *)
(* sends the failed messages again when one of them knows it.  Several     *)
(* queries for the same target may be under way: each failure starts one   *)
(* when automatic addressing is on.                                        *)
(*                                                                         *)
(* Packets are not consumed: one may be received twice, late or never.     *)
(***************************************************************************)
EXTENDS Naturals, FiniteSets

CONSTANTS
  Helpers,     \* friends other than the target
  Queries,     \* query nonces
  Messages,    \* messages to the target
  MaxRetries   \* ADDR_QUERY_MAX_RETRIES

ASSUME QueryAssumption ==
  /\ IsFiniteSet(Helpers) /\ Helpers # {}
  /\ MaxRetries \in Nat

\* What a helper's answer holds: no address, or some.
Contents == {"none", "some"}

VARIABLES
  hasAddr,    \* the store knows an address of the target
  failed,     \* messages in Network.failed_sends
  active,     \* keys of Network.addr_queries
  answered,   \* PendingQuery.answered
  failSeqs,   \* PendingQuery.fail_seqs
  attempts,   \* PendingQuery.attempts
  asks,       \* AddrQuery packets that were sent: (query, helper)
  answers,    \* AddrAnswer packets that were sent
  results,    \* number of AddrResult events of each query
  outcome,    \* what they said: "none" before the first, "found" or "notfound"
  expired,    \* queries that ended by their timeout
  strayed,    \* queries that ended by an answer about somebody else
  copies      \* number of packets sent to each helper for each query

queryVars == <<active, answered, failSeqs, attempts, results, outcome, expired, strayed,
               copies>>
vars == <<hasAddr, failed, asks, answers, queryVars>>

TypeOK ==
  /\ hasAddr \in BOOLEAN
  /\ failed \in SUBSET Messages
  /\ active \in SUBSET Queries
  /\ answered \in [Queries -> SUBSET Helpers]
  /\ failSeqs \in [Queries -> SUBSET Messages]
  /\ attempts \in [Queries -> 0 .. MaxRetries]
  /\ asks \in SUBSET (Queries \X Helpers)
  /\ answers \in SUBSET [query : Queries, from : Helpers, holds : Contents]
  /\ results \in [Queries -> Nat]
  /\ outcome \in [Queries -> {"none", "found", "notfound"}]
  /\ expired \in SUBSET Queries
  /\ strayed \in SUBSET Queries
  /\ copies \in [Queries -> [Helpers -> 0 .. MaxRetries + 1]]

Init ==
  /\ hasAddr \in BOOLEAN
  /\ failed = {}
  /\ active = {}
  /\ answered = [q \in Queries |-> {}]
  /\ failSeqs = [q \in Queries |-> {}]
  /\ attempts = [q \in Queries |-> 0]
  /\ asks = {}
  /\ answers = {}
  /\ results = [q \in Queries |-> 0]
  /\ outcome = [q \in Queries |-> "none"]
  /\ expired = {}
  /\ strayed = {}
  /\ copies = [q \in Queries |-> [p \in Helpers |-> 0]]

\* An AddrResult event for each of the queries Q.
Conclude(Q, what) ==
  /\ results' = [q \in Queries |-> IF q \in Q THEN results[q] + 1 ELSE results[q]]
  /\ outcome' = [q \in Queries |-> IF q \in Q THEN what ELSE outcome[q]]

\* A packet for each of the pairs A of a query and a helper.
Ask(A) ==
  /\ asks' = asks \cup A
  /\ copies' = [q \in Queries |-> [p \in Helpers |->
                  IF <<q, p>> \in A THEN copies[q][p] + 1 ELSE copies[q][p]]]

-----------------------------------------------------------------------------
\* handle_find_address, with a fresh nonce.
FindAddress(q) ==
  /\ asks \cap ({q} \X Helpers) = {}
  /\ active' = active \cup {q}
  /\ failSeqs' = [failSeqs EXCEPT ![q] = failed]
  /\ Ask({q} \X Helpers)
  /\ UNCHANGED <<hasAddr, failed, answers, answered, attempts, results, outcome, expired,
                 strayed>>

\* The helpers a repeated question goes to.
UnansweredAll(q) == Helpers
Unanswered(q) == Helpers \ answered[q]

MayRepeatOnceMore(q) == attempts[q] <= MaxRetries
MayRepeat(q) == attempts[q] < MaxRetries

\* The result of check_addr_queries for the queries E that are too old.
SilentlyExpired(E) == {}
ReportedExpired(E) == E

\* check_addr_queries, then retry_addr_queries: of the queries that are left, the
\* questions R that are due are repeated.
CheckAndRetry(E, R) ==
  /\ E \cup R # {}
  /\ E \subseteq active
  /\ R \subseteq {q \in active \ E : MayRepeat(q)}
  /\ active' = active \ E
  /\ expired' = expired \cup E
  /\ Conclude(ReportedExpired(E), "notfound")
  /\ attempts' = [q \in Queries |-> IF q \in R THEN attempts[q] + 1 ELSE attempts[q]]
  /\ Ask({x \in R \X Helpers : x[2] \in Unanswered(x[1])})
  /\ UNCHANGED <<hasAddr, failed, answers, answered, failSeqs, strayed>>

\* handle_addr_query at a helper: what it knows is between it and the target.
HandleQuery(q, p, c) ==
  /\ <<q, p>> \in asks
  /\ answers' = answers \cup {[query |-> q, from |-> p, holds |-> c]}
  /\ UNCHANGED <<hasAddr, failed, asks, queryVars>>

\* A query is over when it is answered with an address, or by everybody.
AllAnsweredOneLess(A) == Cardinality(A) + 1 >= Cardinality(Helpers)
AllAnswered(A) == Cardinality(A) >= Cardinality(Helpers)

\* The query is taken out of the map to be handled, and put back if it goes on.
PutBack(q, over) == IF over THEN {} ELSE {q}

\* The failed messages sent again: those of the query, and all of them if the answer
\* changed the addresses of the target.
ResentIfChanged(q, changed) == IF changed THEN failed ELSE {}
Resent(q, changed) == IF changed THEN failed ELSE failed \cap failSeqs[q]

\* handle_addr_answer takes the query out of the map first, so an answer to one that is
\* over is ignored.  `changed` is the result of merge_ips, which keeps of the addresses
\* only the reachable ones: there may be none, even if the target has no other.
HandleAnswer(ans, changed) ==
  LET q     == ans.query
      hit   == ans.holds # "none"
      A     == answered[q] \cup {ans.from}
      over  == hit \/ AllAnswered(A)
      known == hasAddr \/ changed
  IN
  /\ ans \in answers
  /\ q \in active
  /\ changed => hit
  /\ hasAddr' = known
  /\ failed' = IF hit /\ known THEN failed \ Resent(q, changed) ELSE failed
  /\ active' = (active \ {q}) \cup PutBack(q, over)
  /\ answered' = [answered EXCEPT ![q] = A]
  /\ Conclude(IF over THEN {q} ELSE {}, IF hit THEN "found" ELSE "notfound")
  /\ UNCHANGED <<asks, answers, failSeqs, attempts, expired, strayed, copies>>

\* The same handler for an answer whose target is not the query's: it returns, and the
\* query is neither put back nor reported.  handle_addr_query sends none; a friend with
\* another program may, at any time after the question.
HandleStrayAnswer(q, p) ==
  /\ <<q, p>> \in asks
  /\ q \in active
  /\ active' = active \ {q}
  /\ strayed' = strayed \cup {q}
  /\ UNCHANGED <<hasAddr, failed, answered, failSeqs, attempts, asks, answers, results,
                 outcome, expired, copies>>

\* A message to the target fails: it ran out of retries, or there was no address.
MessageFails(m) ==
  /\ failed' = failed \cup {m}
  /\ UNCHANGED <<hasAddr, asks, answers, queryVars>>

\* A packet from the target, or a change of its addresses learnt elsewhere.
HearTarget(learned) ==
  /\ hasAddr' = (hasAddr \/ learned)
  /\ failed' = IF hasAddr' THEN {} ELSE failed
  /\ UNCHANGED <<asks, answers, queryVars>>

Next ==
  \/ \E q \in Queries : FindAddress(q)
  \/ \E E, R \in SUBSET active : CheckAndRetry(E, R)
  \/ \E x \in asks, c \in Contents : HandleQuery(x[1], x[2], c)
  \/ \E ans \in answers, changed \in BOOLEAN : HandleAnswer(ans, changed)
  \/ \E x \in asks : HandleStrayAnswer(x[1], x[2])
  \/ \E m \in Messages : MessageFails(m)
  \/ \E learned \in BOOLEAN : HearTarget(learned)

Spec == Init /\ [][Next]_vars

-----------------------------------------------------------------------------
(* Properties.                                                             *)

\* However answers, repeated questions and the timeout race, a query reports exactly one
\* result, at the moment it leaves the map.  One exit of the program reports nothing: an
\* answer about somebody else removes the query, and the user waits for a result that
\* does not come.
OneResult ==
  \A q \in Queries :
    results[q] = IF asks \cap ({q} \X Helpers) # {} /\ q \notin active \cup strayed
                 THEN 1 ELSE 0

\* "Not found" is said only after the timeout, or when every helper has answered that
\* it knows nothing.
NotFoundHonest ==
  \A q \in Queries : outcome[q] = "notfound" /\ q \notin expired =>
    \A p \in Helpers : [query |-> q, from |-> p, holds |-> "none"] \in answers

\* A helper gets at most MaxRetries + 1 copies of a question, and none after its answer
\* or after the end of the query.
AskedSparingly ==
  [][\A q \in Queries, p \in Helpers : copies'[q][p] # copies[q][p] =>
       /\ q \in active'
       /\ p \notin answered[q]
       /\ copies'[q][p] <= MaxRetries + 1]_vars

\* When a query finds the address of the target, the messages that had failed when it
\* started leave as the result is reported, even if another query or the target itself
\* got there first.
FoundResends ==
  [][\A q \in Queries :
       outcome[q] = "none" /\ outcome'[q] = "found" /\ hasAddr' =>
         failSeqs[q] \cap failed' = {}]_vars
=============================================================================
