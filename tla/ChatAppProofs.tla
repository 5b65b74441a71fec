--------------------------- MODULE ChatAppProofs ---------------------------
(***************************************************************************)
(* What ChatApp promises, for any friends, numbers, queues and settings:   *)
(* the list on the screen is the network task's view, late by the events   *)
(* in the queue only, and a check mark is true and stays.                  *)
(***************************************************************************)
EXTENDS ChatApp, ListLemmas

Statuses == {"absent", "sending", "sent", "failed"}
Views == [Keys -> Statuses]

-----------------------------------------------------------------------------
(* A batch of events.                                                      *)

About(e, k) == e.what # "received" /\ e.key = k

\* f[i] is the screen after the first i events.
ViewUpto(f, u, b) ==
  /\ f \in [0 .. Len(b) -> Views]
  /\ f[0] = u
  /\ \A i \in 1 .. Len(b) : f[i] = Handled(f[i - 1], b[i])

\* An event is of a message or of a friend, and is handled to another screen.
LEMMA EventFacts ==
  ASSUME NEW e \in Events
  PROVE  /\ e.what \in {"acked", "failed", "received"}
         /\ e.what # "received" => e.key \in Keys
         /\ e.what = "received" => e.from \in Friends
         /\ \A u \in Views : Handled(u, e) \in Views
         /\ \A u \in Views, k \in Keys :
              Handled(u, e)[k] = IF About(e, k) /\ u[k] # "absent"
                                 THEN IF e.what = "acked" THEN "sent" ELSE "failed"
                                 ELSE u[k]
<1>1. CASE e \in [what : {"acked", "failed"}, key : Keys]
  <2>1. e.what \in {"acked", "failed"} /\ e.key \in Keys
    BY <1>1
  <2>2. QED
    BY <2>1 DEF Handled, About, Views, Statuses
<1>2. CASE e \in [what : {"received"}, from : Friends]
  <2>1. e.what = "received" /\ e.from \in Friends
    BY <1>2
  <2>2. QED
    BY <2>1 DEF Handled, About, Views, Statuses
<1>3. QED
  BY <1>1, <1>2 DEF Events

\* HandledAll is what the loop makes of the screen, event by event.
LEMMA HandledLoop ==
  ASSUME NEW u \in Views, NEW b \in Seq(Events)
  PROVE  \E f : ViewUpto(f, u, b) /\ HandledAll(u, b) = f[Len(b)]
<1> DEFINE n == Len(b)
           Step(v, i) == Handled(v, b[i])
           G == [i \in 1 .. n |-> [v \in Views |-> Step(v, i)]]
           Body(g) == [i \in 0 .. n |-> IF i = 0 THEN u ELSE Step(g[i - 1], i)]
<1>1. n \in Nat /\ \A i \in 1 .. n : b[i] \in Events
  OBVIOUS
<1>2. G \in [1 .. n -> [Views -> Views]]
  BY <1>1, EventFacts
<1> HIDE DEF G
<1>3. PICK h : Computed(h, u, n, Views, G)
  BY <1>1, <1>2, RecursionExists
<1>4. /\ h \in [0 .. n -> Views]
      /\ h[0] = u
      /\ \A i \in 1 .. n : h[i] = G[i][h[i - 1]]
  BY <1>3 DEF Computed
<1>5. \A i \in 1 .. n : h[i - 1] \in Views
  BY <1>1, <1>4
<1>6. \A i \in 1 .. n : h[i] = Step(h[i - 1], i)
  BY <1>4, <1>5 DEF G
<1> HIDE DEF Step
<1>7. h = Body(h)
  BY <1>1, <1>4, <1>6
<1> DEFINE f == CHOOSE g : g = Body(g)
<1>8. f = Body(f)
  BY <1>7
<1>9. HandledAll(u, b) = f[n]
  BY DEF HandledAll, Step
<1> HIDE DEF f
<1>10. f[0] = u /\ \A i \in 1 .. n : f[i] = Step(f[i - 1], i)
  BY <1>1, <1>8
<1> DEFINE T == {i \in 0 .. n : f[i] = h[i]}
<1>11. 0 \in T /\ \A i \in 1 .. n : i - 1 \in T => i \in T
  BY <1>1, <1>4, <1>6, <1>10
<1> HIDE DEF T
<1>12. \A i \in 0 .. n : i \in T
  BY <1>1, <1>11, IndexInduction
<1>13. f[n] = h[n]
  BY <1>1, <1>12 DEF T
<1>14. QED
  BY <1>1, <1>4, <1>6, <1>9, <1>13 DEF Step, ViewUpto

\* The screen after a batch depends on the screen before and the batch only.
LEMMA HandledUnique ==
  ASSUME NEW u \in Views, NEW b \in Seq(Events), NEW f, ViewUpto(f, u, b)
  PROVE  HandledAll(u, b) = f[Len(b)]
<1>1. PICK h : ViewUpto(h, u, b) /\ HandledAll(u, b) = h[Len(b)]
  BY HandledLoop
<1> DEFINE T == {i \in 0 .. Len(b) : f[i] = h[i]}
<1>2. 0 \in T /\ \A i \in 1 .. Len(b) : i - 1 \in T => i \in T
  BY <1>1 DEF ViewUpto
<1>3. Len(b) \in Nat
  OBVIOUS
<1> HIDE DEF T
<1>4. \A i \in 0 .. Len(b) : i \in T
  BY <1>2, <1>3, IndexInduction
<1>5. QED
  BY <1>1, <1>3, <1>4 DEF T

\* An event more, and a batch cut in two.
LEMMA HandledAppend ==
  ASSUME NEW u \in Views, NEW b \in Seq(Events), NEW e \in Events
  PROVE  HandledAll(u, Append(b, e)) = Handled(HandledAll(u, b), e)
<1> DEFINE n == Len(b)
           c == Append(b, e)
<1>1. /\ c \in Seq(Events) /\ Len(c) = n + 1 /\ n \in Nat
      /\ c[n + 1] = e /\ \A i \in 1 .. n : c[i] = b[i]
  OBVIOUS
<1> HIDE DEF c
<1>2. PICK f : ViewUpto(f, u, c) /\ HandledAll(u, c) = f[n + 1]
  BY <1>1, HandledLoop
<1>3. /\ f \in [0 .. n + 1 -> Views]
      /\ f[0] = u
      /\ \A i \in 1 .. n + 1 : f[i] = Handled(f[i - 1], c[i])
  BY <1>1, <1>2 DEF ViewUpto
<1> DEFINE g == [i \in 0 .. n |-> f[i]]
<1>4. g \in [0 .. n -> Views] /\ g[0] = u /\ g[n] = f[n]
  BY <1>1, <1>3
<1>5. ASSUME NEW i \in 1 .. n PROVE g[i] = Handled(g[i - 1], b[i])
  <2>1. g[i] = f[i] /\ g[i - 1] = f[i - 1] /\ c[i] = b[i] /\ i \in 1 .. n + 1
    BY <1>1
  <2>2. QED
    BY <1>3, <2>1
<1> HIDE DEF g
<1>6. ViewUpto(g, u, b)
  BY <1>4, <1>5 DEF ViewUpto
<1>7. HandledAll(u, b) = f[n]
  BY <1>4, <1>6, HandledUnique
<1>8. f[n + 1] = Handled(f[n], e)
  BY <1>1, <1>3
<1>9. QED
  BY <1>2, <1>7, <1>8 DEF c

LEMMA HandledSplit ==
  ASSUME NEW u \in Views, NEW b \in Seq(Events), NEW n \in 0 .. Len(b)
  PROVE  HandledAll(HandledAll(u, SubSeq(b, 1, n)), SubSeq(b, n + 1, Len(b))) = HandledAll(u, b)
<1> DEFINE m == Len(b) - n
           b1 == SubSeq(b, 1, n)
           b2 == SubSeq(b, n + 1, Len(b))
<1>1. n \in Nat /\ m \in Nat /\ n + m = Len(b)
  OBVIOUS
<1>2. /\ b1 \in Seq(Events) /\ Len(b1) = n /\ \A i \in 1 .. n : b1[i] = b[i]
      /\ b2 \in Seq(Events) /\ Len(b2) = m /\ \A i \in 1 .. m : b2[i] = b[n + i]
  OBVIOUS
<1> HIDE DEF m, b1, b2
<1>3. PICK f : ViewUpto(f, u, b) /\ HandledAll(u, b) = f[n + m]
  BY <1>1, HandledLoop
<1>4. /\ f \in [0 .. n + m -> Views]
      /\ f[0] = u
      /\ \A i \in 1 .. n + m : f[i] = Handled(f[i - 1], b[i])
  BY <1>1, <1>3 DEF ViewUpto
<1> DEFINE g == [i \in 0 .. n |-> f[i]]
           h == [i \in 0 .. m |-> f[n + i]]
<1>5. /\ g \in [0 .. n -> Views] /\ g[0] = u /\ g[n] = f[n]
      /\ h \in [0 .. m -> Views] /\ h[0] = f[n] /\ h[m] = f[n + m] /\ f[n] \in Views
  BY <1>1, <1>4
<1>6. ASSUME NEW i \in 1 .. n PROVE g[i] = Handled(g[i - 1], b1[i])
  <2>1. g[i] = f[i] /\ g[i - 1] = f[i - 1] /\ b1[i] = b[i] /\ i \in 1 .. n + m
    BY <1>1, <1>2
  <2>2. QED
    BY <1>4, <2>1
<1>7. ASSUME NEW i \in 1 .. m PROVE h[i] = Handled(h[i - 1], b2[i])
  <2>1. /\ h[i] = f[n + i] /\ h[i - 1] = f[n + i - 1]
        /\ b2[i] = b[n + i] /\ n + i \in 1 .. n + m
    BY <1>1, <1>2
  <2>2. QED
    BY <1>4, <2>1
<1> HIDE DEF g, h
<1>8. ViewUpto(g, u, b1) /\ ViewUpto(h, f[n], b2)
  BY <1>2, <1>5, <1>6, <1>7 DEF ViewUpto
<1>9. HandledAll(u, b1) = f[n]
  BY <1>2, <1>5, <1>8, HandledUnique
<1>10. HandledAll(f[n], b2) = f[n + m]
  BY <1>2, <1>5, <1>8, HandledUnique
<1>11. QED
  BY <1>3, <1>9, <1>10 DEF b1, b2

\* What a batch does to the line of message k: nothing if no event is about it; a check mark
\* comes of an event only; and the lines of other messages play no part.
LEMMA HandledLine ==
  ASSUME NEW u \in Views, NEW b \in Seq(Events), NEW k \in Keys
  PROVE  /\ HandledAll(u, b) \in Views
         /\ (HandledAll(u, b)[k] = "absent") <=> (u[k] = "absent")
         /\ (\A i \in 1 .. Len(b) : ~About(b[i], k)) => HandledAll(u, b)[k] = u[k]
         /\ HandledAll(u, b)[k] = "sent" =>
              u[k] = "sent" \/ \E i \in 1 .. Len(b) : About(b[i], k) /\ b[i].what = "acked"
         /\ \A v \in Views : v[k] = u[k] => HandledAll(v, b)[k] = HandledAll(u, b)[k]
<1> DEFINE n == Len(b)
<1>1. n \in Nat /\ \A i \in 1 .. n : b[i] \in Events
  OBVIOUS
<1>2. PICK f : ViewUpto(f, u, b) /\ HandledAll(u, b) = f[n]
  BY HandledLoop
<1>3. /\ f \in [0 .. n -> Views]
      /\ f[0] = u
      /\ \A i \in 1 .. n : f[i] = Handled(f[i - 1], b[i])
  BY <1>2 DEF ViewUpto
<1>4. \A i \in 1 .. n : f[i - 1] \in Views
  BY <1>1, <1>3
<1>5. \A i \in 1 .. n :
        f[i][k] = IF About(b[i], k) /\ f[i - 1][k] # "absent"
                  THEN IF b[i].what = "acked" THEN "sent" ELSE "failed"
                  ELSE f[i - 1][k]
  BY <1>1, <1>3, <1>4, EventFacts
<1> DEFINE Quiet(i) == \A j \in 1 .. i : ~About(b[j], k)
           Checked(i) == \E j \in 1 .. i : About(b[j], k) /\ b[j].what = "acked"
           Good(i) == /\ (f[i][k] = "absent") <=> (u[k] = "absent")
                      /\ Quiet(i) => f[i][k] = u[k]
                      /\ f[i][k] = "sent" => u[k] = "sent" \/ Checked(i)
<1>6. Good(0)
  BY <1>3
<1>7. ASSUME NEW i \in 1 .. n, Good(i - 1) PROVE Good(i)
  <2>1. i \in 1 .. i /\ Quiet(i) => Quiet(i - 1) /\ ~About(b[i], k)
    OBVIOUS
  <2>2. Checked(i - 1) => Checked(i)
    OBVIOUS
  <2>3. About(b[i], k) /\ b[i].what = "acked" => Checked(i)
    OBVIOUS
  <2> HIDE DEF Quiet, Checked
  <2>4. QED
    BY <1>5, <1>7, <2>1, <2>2, <2>3
<1> HIDE DEF Good
<1> DEFINE T == {i \in 0 .. n : Good(i)}
<1>8. 0 \in T /\ \A i \in 1 .. n : i - 1 \in T => i \in T
  BY <1>1, <1>6, <1>7
<1> HIDE DEF T
<1>9. \A i \in 0 .. n : i \in T
  BY <1>1, <1>8, IndexInduction
<1>10. Good(n) /\ f[n] \in Views
  BY <1>1, <1>3, <1>9 DEF T
<1>11. ASSUME NEW v \in Views, v[k] = u[k] PROVE HandledAll(v, b)[k] = f[n][k]
  <2>1. PICK g : ViewUpto(g, v, b) /\ HandledAll(v, b) = g[n]
    BY HandledLoop
  <2>2. /\ g \in [0 .. n -> Views]
        /\ g[0] = v
        /\ \A i \in 1 .. n : g[i] = Handled(g[i - 1], b[i])
    BY <2>1 DEF ViewUpto
  <2>3. \A i \in 1 .. n : g[i - 1] \in Views
    BY <1>1, <2>2
  <2>4. \A i \in 1 .. n :
          g[i][k] = IF About(b[i], k) /\ g[i - 1][k] # "absent"
                    THEN IF b[i].what = "acked" THEN "sent" ELSE "failed"
                    ELSE g[i - 1][k]
    BY <1>1, <2>2, <2>3, EventFacts
  <2> DEFINE W == {i \in 0 .. n : g[i][k] = f[i][k]}
  <2>5. 0 \in W /\ \A i \in 1 .. n : i - 1 \in W => i \in W
    BY <1>1, <1>3, <1>5, <1>11, <2>2, <2>4
  <2> HIDE DEF W
  <2>6. \A i \in 0 .. n : i \in W
    BY <1>1, <2>5, IndexInduction
  <2>7. QED
    BY <1>1, <2>1, <2>6 DEF W
<1>12. QED
  BY <1>2, <1>10, <1>11 DEF Good

-----------------------------------------------------------------------------
(* The command queue.                                                      *)

\* try_send takes what fits.
LEMMA TakesFacts ==
  ASSUME NEW q, Len(q) \in Nat, Len(q) <= QueueCap, NEW n \in Nat
  PROVE  Takes(q, n) \in 0 .. n /\ Len(q) + Takes(q, n) <= QueueCap
BY ChatAssumption DEF Takes

\* Queues that hold no commands but those of q and queries for an address.
Queues(q) ==
  {x \in Seq(Commands) : /\ Len(x) <= QueueCap
                         /\ \A i \in 1 .. Len(x) : x[i].what # "find" =>
                              \E j \in 1 .. Len(q) : x[i] = q[j]}

\* An event adds a query to the queue at most.
LEMMA AskedStep ==
  ASSUME TypeOK, NEW q, NEW x \in Queues(q), NEW e \in Events
  PROVE  Asked(x, e) \in Queues(q)
<1>1. CASE e.what = "failed" /\ Takes(x, 1) = 1
  <2> DEFINE c == [what |-> "find", to |-> e.key.to]
  <2>1. x \in Seq(Commands) /\ Len(x) \in Nat /\ Len(x) <= QueueCap
    BY DEF Queues
  <2>2. Len(x) + 1 <= QueueCap
    BY <1>1, <2>1, TakesFacts
  <2>3. e.key.to \in Friends
    BY <1>1, EventFacts DEF Keys
  <2>4. c \in Commands /\ c.what = "find"
    BY <2>3 DEF Commands
  <2> HIDE DEF c
  <2>5. /\ Append(x, c) \in Seq(Commands) /\ Len(Append(x, c)) = Len(x) + 1
        /\ \A i \in 1 .. Len(x) + 1 : Append(x, c)[i] = IF i = Len(x) + 1 THEN c ELSE x[i]
    BY <2>1, <2>4
  <2>6. \A i \in 1 .. Len(x) + 1 : Append(x, c)[i].what # "find" =>
          \E j \in 1 .. Len(q) : Append(x, c)[i] = q[j]
    <3>1. SUFFICES ASSUME NEW i \in 1 .. Len(x) + 1, Append(x, c)[i].what # "find"
                   PROVE  \E j \in 1 .. Len(q) : Append(x, c)[i] = q[j]
      OBVIOUS
    <3>2. i \in 1 .. Len(x) /\ Append(x, c)[i] = x[i]
      BY <2>1, <2>4, <2>5, <3>1
    <3>3. QED
      BY <3>1, <3>2 DEF Queues
  <2>7. Append(x, c) \in Queues(q)
    BY <2>2, <2>5, <2>6 DEF Queues
  <2>8. QED
    BY <2>7 DEF Asked, c
<1>2. CASE ~(e.what = "failed" /\ Takes(x, 1) = 1)
  BY <1>2 DEF Asked
<1>3. QED
  BY <1>1, <1>2

\* A batch of events adds queries to the queue, as far as there is room.
LEMMA AskedFacts ==
  ASSUME TypeOK, NEW q \in Seq(Commands), Len(q) <= QueueCap, NEW b \in Seq(Events)
  PROVE  AskedAll(q, b) \in Queues(q)
<1> DEFINE n == Len(b)
           Step(x, i) == Asked(x, b[i])
           G == [i \in 1 .. n |-> [x \in Queues(q) |-> Step(x, i)]]
           Body(g) == [i \in 0 .. n |-> IF i = 0 THEN q ELSE Step(g[i - 1], i)]
<1>1. n \in Nat /\ \A i \in 1 .. n : b[i] \in Events
  OBVIOUS
<1>2. \A i \in 1 .. n, x \in Queues(q) : Step(x, i) \in Queues(q)
  BY <1>1, AskedStep
<1>3. q \in Queues(q)
  BY DEF Queues
<1> HIDE DEF Step
<1>4. G \in [1 .. n -> [Queues(q) -> Queues(q)]]
  BY <1>2
<1> HIDE DEF G
<1>5. PICK h : Computed(h, q, n, Queues(q), G)
  BY <1>1, <1>3, <1>4, RecursionExists
<1>6. /\ h \in [0 .. n -> Queues(q)]
      /\ h[0] = q
      /\ \A i \in 1 .. n : h[i] = G[i][h[i - 1]]
  BY <1>5 DEF Computed
<1>7. \A i \in 1 .. n : h[i - 1] \in Queues(q)
  BY <1>1, <1>6
<1>8. \A i \in 1 .. n : h[i] = Step(h[i - 1], i)
  BY <1>6, <1>7 DEF G
<1>9. h = Body(h)
  BY <1>1, <1>6, <1>8
<1> DEFINE f == CHOOSE g : g = Body(g)
<1>10. f = Body(f)
  BY <1>9
<1>11. AskedAll(q, b) = f[n]
  BY DEF AskedAll, Step
<1> HIDE DEF f
<1>12. f[0] = q /\ \A i \in 1 .. n : f[i] = Step(f[i - 1], i)
  BY <1>1, <1>10
<1> DEFINE T == {i \in 0 .. n : f[i] \in Queues(q)}
<1>13. 0 \in T /\ \A i \in 1 .. n : i - 1 \in T => i \in T
  BY <1>1, <1>2, <1>3, <1>12
<1> HIDE DEF T
<1>14. \A i \in 0 .. n : i \in T
  BY <1>1, <1>13, IndexInduction
<1>15. QED
  BY <1>1, <1>11, <1>14 DEF T

-----------------------------------------------------------------------------
(* The inductive invariant.                                                *)

Queued == 1 .. Len(evts)

\* A number not yet given out is of no message.
FreshNumbers == \A k \in Keys : ui[k] # "absent" => k.seq < nextSeq[k.to]

\* A command in the queue is for a message on the screen.
CommandsPosted ==
  \A i \in 1 .. Len(cmds) : cmds[i].what # "find" => ui[cmds[i].key] # "absent"

\* An event in the queue is of a message the network task has, and "acked" is what it is.
EventsTrue ==
  \A i \in Queued : evts[i].what # "received" =>
    /\ net[evts[i].key] # "none"
    /\ evts[i].what = "acked" => net[evts[i].key] = "acked"

\* After the acknowledgement of a message no event of it follows.
AckedLast ==
  \A i, j \in Queued : i < j /\ evts[i].what = "acked" => ~About(evts[j], evts[i].key)

\* Nor one after a check mark.
CheckedDone ==
  \A k \in Keys : ui[k] = "sent" => net[k] = "acked" /\ \A i \in Queued : ~About(evts[i], k)

\* What the network task calls acknowledged has reached the friend.
AckedArrived == \A k \in Keys : net[k] = "acked" => k \in arrived

IInv ==
  /\ TypeOK
  /\ FreshNumbers
  /\ CommandsPosted
  /\ EventsTrue
  /\ AckedLast
  /\ CheckedDone
  /\ AckedArrived
  /\ UiCatchesUp

\* No check mark is taken back: what CheckMarkStays says of a step.
MarksStay == \A k \in Keys : ui[k] = "sent" => ui'[k] = "sent"

-----------------------------------------------------------------------------
(* Each action keeps it.                                                   *)

\* What the invariant says of one message, its line and its events.
LEMMA LineFacts ==
  ASSUME IInv, NEW k \in Keys
  PROVE  /\ ui \in Views /\ evts \in Seq(Events) /\ HandledAll(ui, evts) \in Views
         /\ ui[k] = "absent" => net[k] = "none"
         /\ ui[k] # "absent" => HandledAll(ui, evts)[k] = Shown(net[k])
         /\ net[k] = "none" => \A i \in Queued : ~About(evts[i], k)
<1>1. ui \in Views /\ evts \in Seq(Events)
  BY DEF IInv, TypeOK, Views, Statuses
<1>2. HandledAll(ui, evts) \in Views
  BY <1>1, HandledLine
<1>3. /\ ui[k] = "absent" => net[k] = "none"
      /\ ui[k] # "absent" => HandledAll(ui, evts)[k] = Shown(net[k])
  BY DEF IInv, UiCatchesUp
<1>4. net[k] = "none" => \A i \in Queued : ~About(evts[i], k)
  BY DEF IInv, EventsTrue, About
<1>5. QED
  BY <1>1, <1>2, <1>3, <1>4

\* New messages start with a line each, at numbers no event is about.
LEMMA PostKeeps ==
  ASSUME IInv, NEW p \in Friends, NEW ks \in Seq(Keys), NEW c \in {"text", "attach"},
         \A i \in 1 .. Len(ks) : /\ ks[i].to = p
                                 /\ nextSeq[p] <= ks[i].seq
                                 /\ ks[i].seq < nextSeq[p] + Len(ks),
         nextSeq[p] + Len(ks) <= MaxSeq + 1,
         Post(p, ks, c),
         UNCHANGED <<store, friends, known, crashed, evts, netUp, netVars>>
  PROVE  IInv' /\ MarksStay
<1> DEFINE m == Len(ks)
           batch == [i \in DOMAIN ks |-> [what |-> IF c = "text" THEN "send" ELSE "attach",
                                          key  |-> ks[i]]]
           n == Takes(cmds, m)
           sent == SubSeq(batch, 1, n)
           new == ToSet(ks)
<1>1. /\ TypeOK /\ m \in Nat /\ DOMAIN ks = 1 .. m
      /\ nextSeq[p] \in 0 .. MaxSeq + 1
      /\ cmds \in Seq(Commands) /\ Len(cmds) \in Nat /\ Len(cmds) <= QueueCap
  BY DEF IInv, TypeOK
<1>2. \A k \in new : /\ k \in Keys
                     /\ k.to = p /\ nextSeq[p] <= k.seq /\ k.seq < nextSeq[p] + m
  BY <1>1 DEF ToSet
<1>3. \A k \in Keys : k.seq \in 0 .. MaxSeq /\ k.to \in Friends
  BY DEF Keys
<1>4. \A k \in new : ui[k] = "absent"
  BY <1>1, <1>2, <1>3 DEF IInv, FreshNumbers
<1>5. \A k \in new : net[k] = "none" /\ \A i \in Queued : ~About(evts[i], k)
  BY <1>2, <1>4, LineFacts
<1>6. /\ nextSeq' = [nextSeq EXCEPT ![p] = @ + m]
      /\ ui' = [k \in Keys |-> IF k \in new THEN "sending" ELSE ui[k]]
      /\ kind' = [k \in Keys |-> IF k \in new THEN c ELSE kind[k]]
      /\ cmds' = cmds \o sent
      /\ dropped' = dropped \cup ToSet(SubSeq(ks, n + 1, m))
  BY DEF Post
<1>7. n \in 0 .. m /\ Len(cmds) + n <= QueueCap
  BY <1>1, TakesFacts
<1>8. batch \in Seq(Commands) /\ Len(batch) = m
  <2>1. \A i \in 1 .. m : batch[i] \in Commands
    BY <1>1 DEF Commands
  <2>2. QED
    BY <1>1, <2>1
<1>9. /\ sent \in Seq(Commands) /\ Len(sent) = n
      /\ \A i \in 1 .. n : sent[i].what # "find" /\ sent[i].key \in new
  <2>1. \A i \in 1 .. m : batch[i].what # "find" /\ batch[i].key \in new
    BY <1>1 DEF ToSet
  <2> HIDE DEF batch, new
  <2>2. sent \in Seq(Commands) /\ Len(sent) = n /\ \A i \in 1 .. n : sent[i] = batch[i]
    BY <1>1, <1>7, <1>8
  <2>3. QED
    BY <1>1, <1>7, <2>1, <2>2
<1>10. ToSet(SubSeq(ks, n + 1, m)) \subseteq Keys
  <2>1. SubSeq(ks, n + 1, m) \in Seq(Keys)
    BY <1>1, <1>7
  <2>2. QED
    BY <2>1 DEF ToSet
<1> HIDE DEF sent, n, batch, new
<1>11. \A q \in Friends : nextSeq'[q] = IF q = p THEN nextSeq[p] + m ELSE nextSeq[q]
  BY <1>1, <1>6 DEF TypeOK
<1>12. ui' \in Views /\ \A k \in Keys : ui'[k] = IF k \in new THEN "sending" ELSE ui[k]
  BY <1>1, <1>6 DEF Views, Statuses, TypeOK
<1>13. TypeOK'
  <2>1. nextSeq' \in [Friends -> 0 .. MaxSeq + 1]
    BY <1>1, <1>6, <1>11, ChatAssumption DEF TypeOK
  <2>2. kind' \in [Keys -> {"text", "attach"}]
    BY <1>1, <1>6 DEF TypeOK
  <2>3. cmds' \in Seq(Commands) /\ Len(cmds') <= QueueCap
    <3>1. cmds \o sent \in Seq(Commands) /\ Len(cmds \o sent) = Len(cmds) + Len(sent)
      BY <1>1, <1>9, ConcatFacts
    <3>2. QED
      BY <1>6, <1>7, <1>9, <3>1
  <2>4. dropped' \in SUBSET Keys
    BY <1>1, <1>6, <1>10 DEF TypeOK
  <2>5. QED
    BY <1>1, <1>12, <2>1, <2>2, <2>3, <2>4 DEF TypeOK, Views, Statuses, netVars
<1>14. FreshNumbers'
  BY <1>1, <1>2, <1>3, <1>11, <1>12 DEF IInv, FreshNumbers, TypeOK
<1>15. CommandsPosted'
  <2>1. SUFFICES ASSUME NEW i \in 1 .. Len(cmds'), cmds'[i].what # "find"
                 PROVE  ui'[cmds'[i].key] # "absent"
    BY DEF CommandsPosted
  <2>2. CASE i <= Len(cmds)
    <3>1. cmds'[i] = cmds[i] /\ i \in 1 .. Len(cmds)
      BY <1>1, <1>6, <1>9, <2>2
    <3>2. ui[cmds[i].key] # "absent" /\ cmds[i] \in Commands
      BY <1>1, <2>1, <3>1 DEF IInv, CommandsPosted
    <3>3. cmds[i].key \in Keys
      BY <2>1, <3>1, <3>2 DEF Commands
    <3>4. QED
      BY <1>12, <3>1, <3>2, <3>3
  <2>3. CASE i > Len(cmds)
    <3>1. cmds'[i] = sent[i - Len(cmds)] /\ i - Len(cmds) \in 1 .. n
      BY <1>1, <1>6, <1>7, <1>9, <2>3
    <3>2. QED
      BY <1>2, <1>9, <1>12, <3>1
  <2>4. QED
    BY <1>1, <2>2, <2>3
<1>16. EventsTrue' /\ AckedLast' /\ AckedArrived'
  BY DEF IInv, EventsTrue, AckedLast, AckedArrived, Queued, netVars
<1>17. CheckedDone'
  BY <1>12 DEF IInv, CheckedDone, Queued, netVars
<1>18. UiCatchesUp'
  <2>1. SUFFICES ASSUME NEW k \in Keys
                 PROVE  IF ui'[k] = "absent" THEN net[k] = "none"
                        ELSE HandledAll(ui', evts)[k] = Shown(net[k])
    BY DEF UiCatchesUp, netVars
  <2>2. evts \in Seq(Events) /\ ui \in Views
    BY LineFacts
  <2>3. CASE k \in new
    <3>1. HandledAll(ui', evts)[k] = ui'[k]
      BY <1>5, <1>12, <2>2, <2>3, HandledLine DEF Queued
    <3>2. QED
      BY <1>5, <1>12, <2>3, <3>1 DEF Shown
  <2>4. CASE k \notin new
    <3>1. ui'[k] = ui[k]
      BY <1>12, <2>4
    <3>2. HandledAll(ui', evts)[k] = HandledAll(ui, evts)[k]
      BY <1>12, <2>2, <3>1, HandledLine
    <3>3. QED
      BY <3>1, <3>2, LineFacts
  <2>5. QED
    BY <2>3, <2>4
<1>19. MarksStay
  BY <1>4, <1>12 DEF MarksStay
<1>20. QED
  BY <1>13, <1>14, <1>15, <1>16, <1>17, <1>18, <1>19 DEF IInv

\* A key is the record of its friend and its number.
LEMMA KeyFacts ==
  ASSUME NEW p \in Friends, NEW s \in 0 .. MaxSeq
  PROVE  Key(p, s) \in Keys /\ Key(p, s).to = p /\ Key(p, s).seq = s
BY DEF Key, Keys

LEMMA SendKeeps ==
  ASSUME IInv, NEW p \in Friends, NEW c \in {"text", "attach"}, SendCurrent(p, c)
  PROVE  IInv' /\ MarksStay
<1> DEFINE k == Key(p, nextSeq[p])
           ks == <<k>>
<1>1. nextSeq[p] \in 0 .. MaxSeq
  BY ChatAssumption DEF SendCurrent, IInv, TypeOK
<1>2. k \in Keys /\ k.to = p /\ k.seq = nextSeq[p]
  BY <1>1, KeyFacts
<1> HIDE DEF k
<1>3. ks \in Seq(Keys) /\ Len(ks) = 1 /\ \A i \in 1 .. Len(ks) : ks[i] = k
  BY <1>2
<1>4. /\ Post(p, ks, c)
      /\ UNCHANGED <<store, friends, known, crashed, evts, netUp, netVars>>
  BY DEF SendCurrent, k
<1> HIDE DEF ks
<1>5. \A i \in 1 .. Len(ks) :
        ks[i].to = p /\ nextSeq[p] <= ks[i].seq /\ ks[i].seq < nextSeq[p] + Len(ks)
  BY <1>1, <1>2, <1>3
<1>6. nextSeq[p] + Len(ks) <= MaxSeq + 1
  BY <1>1, <1>3, ChatAssumption
<1>7. QED
  BY <1>3, <1>4, <1>5, <1>6, PostKeeps

\* There are finitely many failed messages to a friend: one for a number at most.
LEMMA FailedCount ==
  ASSUME NEW p \in Friends
  PROVE  IsFiniteSet(FailedOf(p)) /\ Cardinality(FailedOf(p)) \in Nat
<1> DEFINE f == [s \in 0 .. MaxSeq |-> Key(p, s)]
           all == {Key(p, s) : s \in 0 .. MaxSeq}
<1>1. IsFiniteSet(0 .. MaxSeq)
  BY FS_Interval, ChatAssumption
<1>2. f \in Surjection(0 .. MaxSeq, all)
  BY DEF Surjection
<1>3. IsFiniteSet(all)
  BY <1>1, <1>2, FS_Surjection
<1>4. FailedOf(p) \subseteq all
  <2>1. ASSUME NEW k \in Keys, k.to = p PROVE k = Key(p, k.seq) /\ k.seq \in 0 .. MaxSeq
    BY <2>1 DEF Keys, Key
  <2>2. QED
    BY <2>1 DEF FailedOf
<1>5. QED
  BY <1>3, <1>4, FS_Subset, FS_CardinalityType

LEMMA RetryKeeps ==
  ASSUME IInv, NEW p \in Friends, RetryFailed(p)
  PROVE  IInv' /\ MarksStay
<1> DEFINE n == Cardinality(FailedOf(p))
           ks == [i \in 1 .. n |-> Key(p, nextSeq[p] + i - 1)]
<1>1. nextSeq[p] \in 0 .. MaxSeq + 1 /\ n \in Nat /\ nextSeq[p] + n <= MaxSeq + 1
  BY FailedCount DEF RetryFailed, IInv, TypeOK
<1>2. /\ Post(p, ks, "text")
      /\ UNCHANGED <<store, friends, known, crashed, evts, netUp, netVars>>
  BY DEF RetryFailed
<1> HIDE DEF n
<1>3. \A i \in 1 .. n : nextSeq[p] + i - 1 \in 0 .. MaxSeq
  BY <1>1, ChatAssumption
<1>4. \A i \in 1 .. n : /\ ks[i] \in Keys
                        /\ ks[i].to = p
                        /\ ks[i].seq = nextSeq[p] + i - 1
  BY <1>3, KeyFacts
<1>5. ks \in Seq(Keys) /\ Len(ks) = n
  BY <1>1, <1>4
<1> HIDE DEF ks
<1>6. \A i \in 1 .. Len(ks) :
        ks[i].to = p /\ nextSeq[p] <= ks[i].seq /\ ks[i].seq < nextSeq[p] + Len(ks)
  BY <1>1, <1>4, <1>5
<1>7. QED
  BY <1>1, <1>2, <1>5, <1>6, PostKeeps

\* The conjuncts that do not speak of the queues' lengths, the friends and the program's end
\* depend on the messages only.
LEMMA MessagesUntouched ==
  ASSUME IInv, UNCHANGED <<nextSeq, ui, kind, evts, netVars>>
  PROVE  EventsTrue' /\ AckedLast' /\ CheckedDone' /\ AckedArrived' /\ UiCatchesUp'
BY DEF IInv, EventsTrue, AckedLast, CheckedDone, AckedArrived, UiCatchesUp, Queued, netVars

LEMMA PanicKeeps ==
  ASSUME IInv, NEW p \in Friends, SendPanics(p)
  PROVE  IInv'
<1>1. /\ nextSeq' = [nextSeq EXCEPT ![p] = @ + 1] /\ nextSeq[p] <= MaxSeq /\ crashed' = TRUE
      /\ UNCHANGED <<store, friends, known, ui, kind, dropped, cmds, evts, netUp, netVars>>
  BY DEF SendPanics
<1>2. nextSeq \in [Friends -> 0 .. MaxSeq + 1]
  BY DEF IInv, TypeOK
<1>3. \A q \in Friends : nextSeq'[q] = IF q = p THEN nextSeq[p] + 1 ELSE nextSeq[q]
  BY <1>1, <1>2
<1>4. nextSeq' \in [Friends -> 0 .. MaxSeq + 1]
  BY <1>1, <1>2, <1>3, ChatAssumption
<1>5. TypeOK'
  BY <1>1, <1>4 DEF IInv, TypeOK, netVars
<1>6. FreshNumbers'
  <2>1. \A k \in Keys : k.seq \in 0 .. MaxSeq /\ k.to \in Friends
    BY DEF Keys
  <2>2. QED
    BY <1>1, <1>2, <1>3, <2>1 DEF IInv, FreshNumbers
<1>7. CommandsPosted'
  BY <1>1 DEF IInv, CommandsPosted
<1>8. EventsTrue' /\ AckedLast' /\ CheckedDone' /\ AckedArrived' /\ UiCatchesUp'
  BY <1>1 DEF IInv, EventsTrue, AckedLast, CheckedDone, AckedArrived, UiCatchesUp, Queued, netVars
<1>9. QED
  BY <1>5, <1>6, <1>7, <1>8 DEF IInv

LEMMA FindKeeps ==
  ASSUME IInv, NEW p \in Friends, FindAddress(p)
  PROVE  IInv'
<1> DEFINE c == [what |-> "find", to |-> p]
<1>1. cmds \in Seq(Commands) /\ Len(cmds) \in Nat /\ Len(cmds) <= QueueCap
  BY DEF IInv, TypeOK
<1>2. Takes(cmds, 1) = 1 /\ cmds' = Append(cmds, c)
      /\ UNCHANGED <<store, appVars, evts, netUp, netVars>>
  BY DEF FindAddress
<1>3. c \in Commands /\ c.what = "find"
  BY DEF Commands
<1> HIDE DEF c
<1>4. Len(cmds) + 1 <= QueueCap
  BY <1>1, <1>2, TakesFacts
<1>5. cmds' \in Seq(Commands) /\ Len(cmds') = Len(cmds) + 1
      /\ \A i \in 1 .. Len(cmds) + 1 : cmds'[i] = IF i = Len(cmds) + 1 THEN c ELSE cmds[i]
  BY <1>1, <1>2, <1>3
<1>6. TypeOK'
  BY <1>2, <1>4, <1>5 DEF IInv, TypeOK, appVars, netVars
<1>7. CommandsPosted'
  <2>1. SUFFICES ASSUME NEW i \in 1 .. Len(cmds) + 1, cmds'[i].what # "find"
                 PROVE  ui[cmds'[i].key] # "absent"
    BY <1>2, <1>5 DEF CommandsPosted, appVars
  <2>2. i \in 1 .. Len(cmds) /\ cmds'[i] = cmds[i]
    BY <1>1, <1>3, <1>5, <2>1
  <2>3. QED
    BY <2>1, <2>2 DEF IInv, CommandsPosted
<1>8. FreshNumbers'
  BY <1>2 DEF IInv, FreshNumbers, appVars
<1>9. EventsTrue' /\ AckedLast' /\ CheckedDone' /\ AckedArrived' /\ UiCatchesUp'
  BY <1>2, MessagesUntouched DEF appVars
<1>10. QED
  BY <1>6, <1>7, <1>8, <1>9 DEF IInv


\* Handling the first n events leaves the others, which make the screen what it would have
\* become; a check mark stays, for no event in the queue is of its message.
LEMMA DrainKeeps ==
  ASSUME IInv, NEW n \in 0 .. Len(evts), DrainEvents(n)
  PROVE  IInv' /\ MarksStay
<1> DEFINE batch == SubSeq(evts, 1, n)
           m == Len(evts) - n
           from == {e.from : e \in {x \in ToSet(batch) : x.what = "received"}}
<1>1. /\ TypeOK /\ evts \in Seq(Events) /\ ui \in Views
      /\ Len(evts) \in Nat /\ n \in Nat /\ m \in Nat
      /\ m <= Len(evts) /\ Len(evts) <= MaxEvents
      /\ cmds \in Seq(Commands) /\ Len(cmds) <= QueueCap
  BY DEF IInv, TypeOK, Views, Statuses
<1>2. /\ ui' = HandledAll(ui, batch) /\ known' = known \cup from
      /\ cmds' = AskedAll(cmds, batch)
      /\ evts' = SubSeq(evts, n + 1, Len(evts))
      /\ friends' = store
      /\ UNCHANGED <<store, nextSeq, kind, crashed, dropped, netUp, netVars>>
  BY DEF DrainEvents
<1>3. batch \in Seq(Events) /\ Len(batch) = n /\ \A i \in 1 .. n : batch[i] = evts[i]
  BY <1>1
<1>4. evts' \in Seq(Events) /\ Len(evts') = m /\ \A i \in 1 .. m : evts'[i] = evts[n + i]
  BY <1>1, <1>2
<1>5. from \subseteq Friends
  <2>1. \A e \in ToSet(batch) : e \in Events
    BY <1>3 DEF ToSet
  <2> HIDE DEF batch
  <2>2. QED
    BY <2>1, EventFacts
<1> HIDE DEF batch, from, m
<1>6. ui' \in Views /\ \A k \in Keys : (ui'[k] = "absent") <=> (ui[k] = "absent")
  <2>1. PICK f : ViewUpto(f, ui, batch) /\ HandledAll(ui, batch) = f[n]
    BY <1>1, <1>3, HandledLoop
  <2>2. ui' \in Views
    BY <1>1, <1>2, <1>3, <2>1 DEF ViewUpto
  <2>3. QED
    BY <1>1, <1>2, <1>3, <2>2, HandledLine
<1>7. cmds' \in Queues(cmds)
  BY <1>1, <1>2, <1>3, AskedFacts
<1>8. /\ cmds' \in Seq(Commands) /\ Len(cmds') <= QueueCap
      /\ \A i \in 1 .. Len(cmds') : cmds'[i].what # "find" =>
           \E j \in 1 .. Len(cmds) : cmds'[i] = cmds[j]
  BY <1>7 DEF Queues
<1>9. TypeOK'
  <2>1. known' \in SUBSET Friends /\ friends' \in SUBSET Friends
    BY <1>1, <1>2, <1>5 DEF TypeOK
  <2>2. Len(evts') <= MaxEvents
    BY <1>1, <1>4, ChatAssumption
  <2>3. QED
    BY <1>1, <1>2, <1>4, <1>6, <1>8, <2>1, <2>2 DEF TypeOK, Views, Statuses, netVars
<1>10. FreshNumbers'
  BY <1>2, <1>6 DEF IInv, FreshNumbers
<1>11. CommandsPosted'
  <2>1. SUFFICES ASSUME NEW i \in 1 .. Len(cmds'), cmds'[i].what # "find"
                 PROVE  ui'[cmds'[i].key] # "absent"
    BY DEF CommandsPosted
  <2>2. PICK j \in 1 .. Len(cmds) : cmds'[i] = cmds[j]
    BY <1>8, <2>1
  <2>3. cmds[j] \in Commands /\ cmds[j].what # "find" /\ ui[cmds[j].key] # "absent"
    BY <1>1, <2>1, <2>2 DEF IInv, CommandsPosted
  <2>4. cmds[j].key \in Keys
    BY <2>3 DEF Commands
  <2>5. QED
    BY <1>6, <2>2, <2>3, <2>4
<1>12. \A i \in 1 .. m : n + i \in Queued /\ evts'[i] = evts[n + i]
  BY <1>1, <1>4 DEF Queued, m
<1>13. Queued' = 1 .. m
  BY <1>4 DEF Queued
<1>14. EventsTrue'
  BY <1>2, <1>12, <1>13 DEF IInv, EventsTrue, netVars
<1>15. AckedLast'
  <2>1. SUFFICES ASSUME NEW i \in 1 .. m, NEW j \in 1 .. m, i < j, evts'[i].what = "acked"
                 PROVE  ~About(evts'[j], evts'[i].key)
    BY <1>13 DEF AckedLast, About
  <2>2. n + i \in Queued /\ n + j \in Queued /\ n + i < n + j
    <3>1. n + i < n + j
      BY <1>1, <2>1
    <3>2. QED
      BY <1>12, <3>1
  <2>3. QED
    BY <1>12, <2>1, <2>2 DEF IInv, AckedLast
<1>16. AckedArrived'
  BY <1>2 DEF IInv, AckedArrived, netVars
<1>17. CheckedDone'
  <2>1. SUFFICES ASSUME NEW k \in Keys, ui'[k] = "sent"
                 PROVE  net[k] = "acked" /\ \A i \in 1 .. m : ~About(evts'[i], k)
    BY <1>2, <1>13 DEF CheckedDone, About, netVars
  <2>2. ui[k] = "sent" \/ \E i \in 1 .. n : About(batch[i], k) /\ batch[i].what = "acked"
    <3>1. HandledAll(ui, batch)[k] = "sent" =>
            ui[k] = "sent" \/ \E i \in 1 .. Len(batch) : About(batch[i], k) /\ batch[i].what = "acked"
      BY <1>1, <1>3, HandledLine
    <3>2. QED
      BY <1>2, <1>3, <2>1, <3>1
  <2>3. CASE ui[k] = "sent"
    BY <1>12, <2>3 DEF IInv, CheckedDone
  <2>4. CASE \E i \in 1 .. n : About(batch[i], k) /\ batch[i].what = "acked"
    <3>1. PICK i \in 1 .. n : About(evts[i], k) /\ evts[i].what = "acked"
      BY <1>3, <2>4
    <3>2. i \in Queued /\ evts[i].key = k
      BY <1>1, <3>1 DEF Queued, About
    <3>3. net[k] = "acked"
      BY <3>1, <3>2 DEF IInv, EventsTrue
    <3>4. ASSUME NEW j \in 1 .. m PROVE ~About(evts'[j], k)
      <4>1. n + j \in Queued /\ evts'[j] = evts[n + j] /\ i < n + j
        BY <1>1, <1>12, <3>1
      <4>2. QED
        BY <3>1, <3>2, <4>1 DEF IInv, AckedLast
    <3>5. QED
      BY <3>3, <3>4
  <2>5. QED
    BY <2>2, <2>3, <2>4
<1>18. UiCatchesUp'
  <2>1. HandledAll(ui', evts') = HandledAll(ui, evts)
    BY <1>1, <1>2, HandledSplit DEF batch
  <2>2. QED
    BY <1>2, <1>6, <2>1 DEF IInv, UiCatchesUp, netVars
<1>19. MarksStay
  <2>1. SUFFICES ASSUME NEW k \in Keys, ui[k] = "sent" PROVE ui'[k] = "sent"
    BY DEF MarksStay
  <2>2. \A i \in 1 .. n : ~About(batch[i], k)
    BY <1>1, <1>3, <2>1 DEF IInv, CheckedDone, Queued
  <2>3. QED
    BY <1>1, <1>2, <1>3, <2>1, <2>2, HandledLine
<1>20. QED
  BY <1>9, <1>10, <1>11, <1>14, <1>15, <1>16, <1>17, <1>18, <1>19 DEF IInv

\* A verdict for a message that is on the screen and has none that is final, with the event
\* that goes with it.
LEMMA ReportKeeps ==
  ASSUME IInv, NEW k \in Keys, NEW s \in {"sending", "failed", "refused", "acked"},
         ui[k] # "absent", net[k] # "acked",
         s = "sending" => net[k] = "none",
         s = "acked" => k \in arrived,
         net' = [net EXCEPT ![k] = s],
         Len(evts) < MaxEvents, evts' = evts \o Report(k, s),
         cmds' \in Seq(Commands), Len(cmds') <= QueueCap,
         \A i \in 1 .. Len(cmds') : \E j \in 1 .. Len(cmds) : cmds'[i] = cmds[j],
         UNCHANGED <<store, appVars, netUp, arrived>>
  PROVE  IInv'
<1> DEFINE n == Len(evts)
           e == [what |-> IF s = "acked" THEN "acked" ELSE "failed", key |-> k]
<1>1. TypeOK /\ evts \in Seq(Events) /\ n \in Nat /\ ui \in Views /\ ui' = ui
  BY DEF IInv, TypeOK, Views, Statuses, appVars
<1>2. \A j \in Keys : net'[j] = IF j = k THEN s ELSE net[j]
  BY <1>1 DEF TypeOK
<1>3. e \in Events /\ About(e, k) /\ (e.what = "acked" <=> s = "acked")
      /\ \A j \in Keys : j # k => ~About(e, j)
  BY DEF Events, About
<1>4. evts' = IF s = "sending" THEN evts ELSE Append(evts, e)
  BY <1>1 DEF Report
<1> HIDE DEF e
<1>5. Append(evts, e) \in Seq(Events) /\ Len(Append(evts, e)) = n + 1
      /\ \A i \in 1 .. n + 1 : Append(evts, e)[i] = IF i = n + 1 THEN e ELSE evts[i]
  BY <1>1, <1>3
<1>6. evts' \in Seq(Events) /\ Len(evts') <= MaxEvents
  BY <1>1, <1>4, <1>5, ChatAssumption
<1>7. TypeOK'
  <2>1. net' \in [Keys -> {"none", "sending", "failed", "acked", "refused"}]
    BY <1>1 DEF TypeOK
  <2>2. QED
    BY <1>1, <1>6, <2>1 DEF TypeOK, appVars
<1>8. FreshNumbers'
  BY DEF IInv, FreshNumbers, appVars
<1>9. CommandsPosted'
  BY <1>1 DEF IInv, CommandsPosted
\* Every event that waits is an old one, or the new one at the end.
<1>10. \A i \in Queued' : (i \in Queued /\ evts'[i] = evts[i])
                          \/ (i = n + 1 /\ evts'[i] = e /\ s # "sending")
  BY <1>1, <1>4, <1>5 DEF Queued
<1>11. \A i \in Queued : About(evts[i], k) => evts[i].what # "acked"
  BY DEF IInv, EventsTrue, About
<1>12. EventsTrue'
  <2>1. SUFFICES ASSUME NEW i \in Queued', evts'[i].what # "received"
                 PROVE  /\ net'[evts'[i].key] # "none"
                        /\ evts'[i].what = "acked" => net'[evts'[i].key] = "acked"
    BY DEF EventsTrue
  <2>2. CASE i \in Queued /\ evts'[i] = evts[i]
    <3>1. evts[i] \in Events
      BY <1>1, <2>2 DEF Queued
    <3>2. evts[i].key \in Keys
      BY <2>1, <2>2, <3>1, EventFacts
    <3>3. QED
      BY <1>2, <1>11, <2>1, <2>2, <3>2 DEF IInv, EventsTrue, About
  <2>3. CASE i = n + 1 /\ evts'[i] = e /\ s # "sending"
    BY <1>2, <1>3, <2>3 DEF About
  <2>4. QED
    BY <1>10, <2>2, <2>3
<1>13. AckedLast'
  <2>1. SUFFICES ASSUME NEW i \in Queued', NEW j \in Queued', i < j, evts'[i].what = "acked"
                 PROVE  ~About(evts'[j], evts'[i].key)
    BY DEF AckedLast, About
  <2>2. i \in Queued /\ evts'[i] = evts[i]
    BY <1>1, <1>10, <2>1 DEF Queued
  <2>3. CASE j \in Queued /\ evts'[j] = evts[j]
    BY <2>1, <2>2, <2>3 DEF IInv, AckedLast
  <2>4. CASE evts'[j] = e
    <3>1. evts[i].key \in Keys /\ evts[i].what # "received"
      BY <1>1, <2>1, <2>2, EventFacts DEF Queued
    <3>2. evts[i].key # k
      BY <1>11, <2>1, <2>2, <3>1 DEF About
    <3>3. QED
      BY <1>3, <2>2, <2>4, <3>1, <3>2
  <2>5. QED
    BY <1>10, <2>1, <2>3, <2>4
<1>14. CheckedDone'
  <2>1. SUFFICES ASSUME NEW j \in Keys, ui[j] = "sent"
                 PROVE  net'[j] = "acked" /\ \A i \in Queued' : ~About(evts'[i], j)
    BY <1>1 DEF CheckedDone, About
  <2>2. j # k /\ net[j] = "acked" /\ \A i \in Queued : ~About(evts[i], j)
    BY <2>1 DEF IInv, CheckedDone
  <2>3. QED
    BY <1>2, <1>3, <1>10, <2>2
<1>15. AckedArrived'
  BY <1>2 DEF IInv, AckedArrived
<1>16. UiCatchesUp'
  <2>1. SUFFICES ASSUME NEW j \in Keys
                 PROVE  IF ui[j] = "absent" THEN net'[j] = "none"
                        ELSE HandledAll(ui, evts')[j] = Shown(net'[j])
    BY <1>1 DEF UiCatchesUp
  <2>2. /\ ui[j] = "absent" => net[j] = "none"
        /\ ui[j] # "absent" => HandledAll(ui, evts)[j] = Shown(net[j])
        /\ HandledAll(ui, evts) \in Views
        /\ (HandledAll(ui, evts)[j] = "absent") <=> (ui[j] = "absent")
    BY <1>1, LineFacts, HandledLine
  <2>3. CASE s = "sending"
    BY <1>2, <1>4, <2>2, <2>3 DEF Shown
  <2>4. CASE s # "sending"
    <3>1. HandledAll(ui, evts') = Handled(HandledAll(ui, evts), e)
      BY <1>1, <1>3, <1>4, <2>4, HandledAppend
    <3>2. HandledAll(ui, evts')[j] = IF About(e, j) /\ HandledAll(ui, evts)[j] # "absent"
                                     THEN IF e.what = "acked" THEN "sent" ELSE "failed"
                                     ELSE HandledAll(ui, evts)[j]
      BY <1>3, <2>2, <3>1, EventFacts
    <3>3. QED
      BY <1>2, <1>3, <2>2, <2>4, <3>2 DEF Shown
  <2>5. QED
    BY <2>3, <2>4
<1>17. QED
  BY <1>7, <1>8, <1>9, <1>12, <1>13, <1>14, <1>15, <1>16 DEF IInv


\* run_loop takes a command: a query changes nothing, a message gets its first verdict.
LEMMA TakeKeeps ==
  ASSUME IInv, TakeCommand
  PROVE  IInv'
<1> DEFINE c == Head(cmds)
<1>1. /\ cmds \in Seq(Commands) /\ Len(cmds) <= QueueCap /\ cmds # << >>
      /\ cmds' = Tail(cmds) /\ Len(evts) < MaxEvents
      /\ UNCHANGED <<store, appVars, netUp>>
  BY DEF IInv, TypeOK, TakeCommand
<1>2. /\ c = cmds[1] /\ c \in Commands /\ 1 \in 1 .. Len(cmds)
      /\ cmds' \in Seq(Commands) /\ Len(cmds') = Len(cmds) - 1
      /\ \A i \in 1 .. Len(cmds') : i + 1 \in 1 .. Len(cmds) /\ cmds'[i] = cmds[i + 1]
  BY <1>1
<1>3. /\ Len(cmds') <= QueueCap
      /\ \A i \in 1 .. Len(cmds') : \E j \in 1 .. Len(cmds) : cmds'[i] = cmds[j]
  BY <1>1, <1>2, ChatAssumption
<1>4. CASE c.what = "find"
  <2>1. UNCHANGED <<net, arrived, evts>>
    BY <1>4 DEF TakeCommand
  <2>2. TypeOK'
    BY <1>1, <1>2, <1>3, <2>1 DEF IInv, TypeOK, appVars
  <2>3. FreshNumbers' /\ CommandsPosted'
    BY <1>1, <1>2, <2>1 DEF IInv, FreshNumbers, CommandsPosted, appVars
  <2>4. EventsTrue' /\ AckedLast' /\ CheckedDone' /\ AckedArrived' /\ UiCatchesUp'
    BY <1>1, <2>1, MessagesUntouched DEF appVars, netVars
  <2>5. QED
    BY <2>2, <2>3, <2>4 DEF IInv
<1>5. CASE c.what # "find"
  <2> DEFINE k == c.key
  <2>1. Net!Submit(k) /\ evts' = evts \o Report(k, net'[k])
    BY <1>5 DEF TakeCommand
  <2>2. k \in Keys
    BY <1>2, <1>5 DEF Commands
  <2>3. ui[k] # "absent"
    BY <1>2, <1>5 DEF IInv, CommandsPosted
  <2> HIDE DEF k
  <2>4. PICK s \in {"sending", "failed", "refused"} : net' = [net EXCEPT ![k] = s]
    BY <2>1 DEF Net!Submit
  <2>5. net[k] = "none" /\ UNCHANGED arrived
    BY <2>1 DEF Net!Submit
  <2>6. net'[k] = s
    BY <2>2, <2>4 DEF IInv, TypeOK
  <2>7. QED
    BY <1>1, <1>2, <1>3, <2>1, <2>2, <2>3, <2>4, <2>5, <2>6, ReportKeeps
<1>6. QED
  BY <1>4, <1>5

LEMMA VerdictKeeps ==
  ASSUME IInv, NEW k \in Keys, Verdict(k)
  PROVE  IInv'
<1>1. /\ Len(evts) < MaxEvents /\ evts' = evts \o Report(k, net'[k])
      /\ Net!GiveUp({k}) \/ Net!Confirm(k)
      /\ UNCHANGED <<store, appVars, cmds, netUp>>
  BY DEF Verdict
<1>2. /\ net \in [Keys -> {"none", "sending", "failed", "acked", "refused"}]
      /\ cmds \in Seq(Commands) /\ Len(cmds) <= QueueCap
  BY DEF IInv, TypeOK
<1>3. net[k] \in {"sending", "failed"} /\ UNCHANGED arrived
  BY <1>1 DEF Net!GiveUp, Net!Confirm
<1>4. ui[k] # "absent"
  BY <1>3, LineFacts
<1>5. CASE Net!GiveUp({k})
  <2>1. net' = [m \in Keys |-> IF m \in {k} THEN "failed" ELSE net[m]]
    BY <1>5 DEF Net!GiveUp
  <2>2. net' = [net EXCEPT ![k] = "failed"] /\ net'[k] = "failed"
    BY <1>2, <2>1
  <2>3. QED
    BY <1>1, <1>2, <1>3, <1>4, <2>2, ReportKeeps
<1>6. CASE Net!Confirm(k)
  <2>1. k \in arrived /\ net' = [net EXCEPT ![k] = "acked"] /\ net'[k] = "acked"
    BY <1>2, <1>6 DEF Net!Confirm
  <2>2. QED
    BY <1>1, <1>2, <1>3, <1>4, <2>1, ReportKeeps
<1>7. QED
  BY <1>1, <1>5, <1>6

\* A message of a friend is an event that is about no message of ours.
LEMMA ReceiveKeeps ==
  ASSUME IInv, NEW p \in Friends, Receive(p)
  PROVE  IInv'
<1> DEFINE n == Len(evts)
           e == [what |-> "received", from |-> p]
<1>1. /\ Len(evts) < MaxEvents /\ evts' = Append(evts, e)
      /\ UNCHANGED <<store, appVars, cmds, netUp, netVars>>
  BY DEF Receive
<1>2. evts \in Seq(Events) /\ n \in Nat /\ ui \in Views
  BY DEF IInv, TypeOK, Views, Statuses
<1>3. e \in Events /\ e.what = "received" /\ \A k \in Keys : ~About(e, k)
  BY DEF Events, About
<1> HIDE DEF e
<1>4. /\ evts' \in Seq(Events) /\ Len(evts') = n + 1
      /\ \A i \in 1 .. n + 1 : evts'[i] = IF i = n + 1 THEN e ELSE evts[i]
  BY <1>1, <1>2, <1>3
<1>5. \A i \in Queued' : (i \in Queued /\ evts'[i] = evts[i]) \/ (i = n + 1 /\ evts'[i] = e)
  BY <1>2, <1>4 DEF Queued
<1>6. TypeOK'
  BY <1>1, <1>2, <1>4, ChatAssumption DEF IInv, TypeOK, appVars, netVars
<1>7. FreshNumbers' /\ CommandsPosted' /\ AckedArrived'
  BY <1>1 DEF IInv, FreshNumbers, CommandsPosted, AckedArrived, appVars, netVars
<1>8. EventsTrue'
  BY <1>1, <1>3, <1>5 DEF IInv, EventsTrue, netVars
<1>9. AckedLast'
  <2>1. SUFFICES ASSUME NEW i \in Queued', NEW j \in Queued', i < j, evts'[i].what = "acked"
                 PROVE  ~About(evts'[j], evts'[i].key)
    BY DEF AckedLast, About
  <2>2. i \in Queued /\ evts'[i] = evts[i]
    BY <1>3, <1>5, <2>1
  <2>3. CASE j \in Queued /\ evts'[j] = evts[j]
    BY <2>1, <2>2, <2>3 DEF IInv, AckedLast
  <2>4. CASE evts'[j] = e
    BY <1>3, <2>4 DEF About
  <2>5. QED
    BY <1>5, <2>3, <2>4
<1>10. CheckedDone'
  BY <1>1, <1>3, <1>5 DEF IInv, CheckedDone, About, appVars, netVars
<1>11. UiCatchesUp'
  <2>1. SUFFICES ASSUME NEW k \in Keys
                 PROVE  IF ui[k] = "absent" THEN net[k] = "none"
                        ELSE HandledAll(ui, evts')[k] = Shown(net[k])
    BY <1>1 DEF UiCatchesUp, appVars, netVars
  <2>2. HandledAll(ui, evts') = Handled(HandledAll(ui, evts), e)
    BY <1>1, <1>2, <1>3, HandledAppend
  <2>3. HandledAll(ui, evts') = HandledAll(ui, evts)
    BY <1>3, <2>2 DEF Handled
  <2>4. QED
    BY <2>3, LineFacts
<1>12. QED
  BY <1>6, <1>7, <1>8, <1>9, <1>10, <1>11 DEF IInv

\* The actions that touch none of the program's messages.
LEMMA OthersKeep ==
  ASSUME IInv,
         (\E k \in Keys : Arrive(k)) \/ NetEnds \/ (\E p \in Friends : AddByLink(p))
  PROVE  IInv'
<1>1. CASE \E k \in Keys : Arrive(k)
  <2>1. /\ UNCHANGED <<store, appVars, cmds, evts, netUp>> /\ UNCHANGED net
        /\ \E k \in Keys : arrived' = arrived \cup {k}
    BY <1>1 DEF Arrive, Net!Arrive
  <2>2. TypeOK'
    BY <2>1 DEF IInv, TypeOK, appVars
  <2>3. QED
    BY <2>1, <2>2 DEF IInv, FreshNumbers, CommandsPosted, EventsTrue, AckedLast, CheckedDone,
                      AckedArrived, UiCatchesUp, Queued, appVars
<1>2. CASE NetEnds
  <2> DEFINE lost == {c.key : c \in {x \in ToSet(cmds) : x.what # "find"}}
  <2>1. /\ netUp' = FALSE /\ cmds' = << >> /\ dropped' = dropped \cup lost
        /\ UNCHANGED <<store, friends, known, nextSeq, ui, kind, crashed, evts, netVars>>
    BY <1>2 DEF NetEnds
  <2>2. lost \subseteq Keys
    <3>1. \A c \in ToSet(cmds) : c.what # "find" => c.key \in Keys
      BY DEF ToSet, IInv, TypeOK, Commands
    <3>2. QED
      BY <3>1
  <2> HIDE DEF lost
  <2>3. cmds' \in Seq(Commands) /\ Len(cmds') = 0 /\ Len(cmds') <= QueueCap
    BY <2>1, ChatAssumption
  <2>4. TypeOK'
    BY <2>1, <2>2, <2>3 DEF IInv, TypeOK, netVars
  <2>5. CommandsPosted'
    BY <2>3 DEF CommandsPosted
  <2>6. FreshNumbers'
    BY <2>1 DEF IInv, FreshNumbers
  <2>7. QED
    BY <2>1, <2>4, <2>5, <2>6, MessagesUntouched DEF IInv
<1>3. CASE \E p \in Friends : AddByLink(p)
  <2>1. /\ UNCHANGED <<appVars, cmds, evts, netUp, netVars>>
        /\ \E p \in Friends : store' = store \cup {p}
    BY <1>3 DEF AddByLink
  <2>2. TypeOK'
    BY <2>1 DEF IInv, TypeOK, appVars, netVars
  <2>3. FreshNumbers' /\ CommandsPosted'
    BY <2>1 DEF IInv, FreshNumbers, CommandsPosted, appVars
  <2>4. QED
    BY <2>1, <2>2, <2>3, MessagesUntouched DEF IInv, appVars
<1>4. QED
  BY <1>1, <1>2, <1>3

-----------------------------------------------------------------------------
(* The theorems.                                                           *)

LEMMA InitInvariant == Init => IInv
<1>1. SUFFICES ASSUME Init PROVE IInv
  OBVIOUS
<1>2. /\ store = StartFriends /\ friends = StartFriends /\ known = StartFriends
      /\ nextSeq = [p \in Friends |-> 0]
      /\ ui = [k \in Keys |-> "absent"] /\ kind = [k \in Keys |-> "text"]
      /\ crashed = FALSE /\ cmds = << >> /\ evts = << >> /\ dropped = {} /\ netUp = TRUE
      /\ net = [k \in Keys |-> "none"] /\ arrived = {}
  BY <1>1 DEF Init, Net!Init
<1>3. cmds \in Seq(Commands) /\ Len(cmds) = 0 /\ evts \in Seq(Events) /\ Len(evts) = 0
  BY <1>2
<1>4. TypeOK
  <2>1. 0 \in 0 .. MaxSeq + 1 /\ Len(cmds) <= QueueCap /\ Len(evts) <= MaxEvents
        /\ StartFriends \subseteq Friends
    BY <1>3, ChatAssumption
  <2>2. QED
    BY <1>2, <1>3, <2>1 DEF TypeOK
<1>5. FreshNumbers /\ CommandsPosted /\ EventsTrue /\ AckedLast /\ CheckedDone /\ AckedArrived
  BY <1>2, <1>3 DEF FreshNumbers, CommandsPosted, EventsTrue, AckedLast, CheckedDone,
                    AckedArrived, Queued
<1>6. UiCatchesUp
  BY <1>2 DEF UiCatchesUp
<1>7. QED
  BY <1>4, <1>5, <1>6 DEF IInv

\* The action property is proved with the invariant: both say what a step may do.
LEMMA StepInvariant == IInv /\ [Next]_vars => IInv' /\ MarksStay
<1>1. SUFFICES ASSUME IInv, [Next]_vars PROVE IInv' /\ MarksStay
  OBVIOUS
<1>2. ASSUME IInv', UNCHANGED ui PROVE IInv' /\ MarksStay
  BY <1>2 DEF MarksStay
<1>3. CASE \E p \in Friends, c \in {"text", "attach"} : SendCurrent(p, c)
  BY <1>1, <1>3, SendKeeps
<1>4. CASE \E p \in Friends : SendPanics(p)
  BY <1>1, <1>2, <1>4, PanicKeeps DEF SendPanics
<1>5. CASE \E p \in Friends : RetryFailed(p)
  BY <1>1, <1>5, RetryKeeps
<1>6. CASE \E p \in Friends : FindAddress(p)
  BY <1>1, <1>2, <1>6, FindKeeps DEF FindAddress, appVars
<1>7. CASE \E n \in 0 .. Len(evts) : DrainEvents(n)
  BY <1>1, <1>7, DrainKeeps
<1>8. CASE TakeCommand
  BY <1>1, <1>2, <1>8, TakeKeeps DEF TakeCommand, appVars
<1>9. CASE \E k \in Keys : Verdict(k)
  BY <1>1, <1>2, <1>9, VerdictKeeps DEF Verdict, appVars
<1>10. CASE \E p \in Friends : Receive(p)
  BY <1>1, <1>2, <1>10, ReceiveKeeps DEF Receive, appVars
<1>11. CASE (\E k \in Keys : Arrive(k)) \/ NetEnds \/ (\E p \in Friends : AddByLink(p))
  BY <1>1, <1>2, <1>11, OthersKeep DEF Arrive, NetEnds, AddByLink, appVars
<1>12. CASE UNCHANGED vars
  <2>1. /\ UNCHANGED <<store, friends, known, nextSeq, ui, kind, crashed, dropped>>
        /\ UNCHANGED <<cmds, evts, netUp, net, arrived>>
    BY <1>12 DEF vars, appVars, netVars
  <2>2. TypeOK' /\ FreshNumbers' /\ CommandsPosted'
    BY <1>1, <2>1 DEF IInv, TypeOK, FreshNumbers, CommandsPosted
  <2>3. QED
    BY <1>1, <1>2, <2>1, <2>2, MessagesUntouched DEF IInv, netVars
<1>13. QED
  BY <1>1, <1>3, <1>4, <1>5, <1>6, <1>7, <1>8, <1>9, <1>10, <1>11, <1>12 DEF Next

\* What the application and the network task know of each other, whatever the user, the
\* network task, the link listener and the friends do in between.
THEOREM InductiveInvariant == Spec => []IInv
BY InitInvariant, StepInvariant, PTL DEF Spec

\* The variables keep their types: in particular neither queue outgrows its bound, whatever
\* try_send, drain_events and the automatic queries put in.
THEOREM TypeCorrect == Spec => []TypeOK
<1>1. IInv => TypeOK
  BY DEF IInv
<1>2. QED
  BY <1>1, InductiveInvariant, PTL

\* The screen is the network task's view of the messages, late by the events still in the
\* queue and by nothing else.
THEOREM ScreenCatchesUp == Spec => []UiCatchesUp
<1>1. IInv => UiCatchesUp
  BY DEF IInv
<1>2. QED
  BY <1>1, InductiveInvariant, PTL

\* A text with a check mark has reached its friend.
THEOREM CheckMarkIsTrue == Spec => []CheckMarkTrue
<1>1. IInv => CheckMarkTrue
  BY DEF IInv, CheckedDone, AckedArrived, CheckMarkTrue
<1>2. QED
  BY <1>1, InductiveInvariant, PTL

\* A check mark is never taken back, by no late failure and by no new message.
THEOREM CheckMarkIsKept == Spec => CheckMarkStays
<1>1. MarksStay => \A k \in Keys : ui[k] = "sent" => ui'[k] = "sent"
  BY DEF MarksStay
<1>2. IInv /\ [Next]_vars => [\A k \in Keys : ui[k] = "sent" => ui'[k] = "sent"]_vars
  BY <1>1, StepInvariant
<1>3. QED
  BY <1>2, InductiveInvariant, PTL DEF Spec, CheckMarkStays

=============================================================================
