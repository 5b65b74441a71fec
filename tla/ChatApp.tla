------------------------------ MODULE ChatApp ------------------------------
(***************************************************************************)
(* The chat application (tui/app.rs, shared by the terminal and graphical  *)
(* front ends) in front of the network task.  They are two threads joined  *)
(* by two queues: commands, bounded, entered with try_send, which drops    *)
(* the command when the queue is full or the task has ended; and events,   *)
(* unbounded, emptied by drain_events on every frame.  The store of        *)
(* friends is shared with a third actor, the IPC listener (ipc.rs).        *)
(*                                                                         *)
(* The network task is what ReliableMessage says of it: Delivery           *)
(* implements that for texts.  An attachment is a message whose first      *)
(* verdict is final (OneVerdict of AttachTransfer).                        *)
(***************************************************************************)
EXTENDS Naturals, FiniteSets, Sequences, SequencesExt

CONSTANTS
  Friends,       \* everybody who may become a friend
  StartFriends,  \* the friends in the store when the program starts
  MaxSeq,        \* bound: last number App.next_seq reaches for a friend
  MaxMessages,   \* bound: messages the user sends, all friends together
  QueueCap,      \* capacity of the command queue (256 in run_chat)
  MaxEvents,     \* bound: events waiting for the application
  AutoAddr       \* App.auto_addr

ASSUME ChatAssumption ==
  /\ StartFriends \subseteq Friends
  /\ MaxSeq \in Nat
  /\ MaxMessages \in Nat
  /\ QueueCap \in Nat \ {0}
  /\ MaxEvents \in Nat \ {0}
  /\ AutoAddr \in BOOLEAN

Keys == [to : Friends, seq : 0 .. MaxSeq]
Key(p, s) == [to |-> p, seq |-> s]

Commands == [what : {"send", "attach"}, key : Keys] \cup [what : {"find"}, to : Friends]
Events == [what : {"acked", "failed"}, key : Keys] \cup [what : {"received"}, from : Friends]

VARIABLES
  store,     \* the friend store, shared by all threads
  friends,   \* App.friends, a copy of it refreshed on every frame
  known,     \* keys of App.msgs: friends with a conversation
  nextSeq,   \* App.next_seq
  ui,        \* status of each outgoing message in App.msgs; "absent": not there
  kind,      \* "text" or "attach" of each outgoing message
  crashed,   \* the process has panicked
  cmds,      \* the command queue
  evts,      \* the event queue
  dropped,   \* messages whose command never reached the network task
  netUp,     \* the network task runs
  net,       \* status of each message in the network task (ReliableMessage)
  arrived    \* messages that have reached their friend (ReliableMessage)

appVars == <<friends, known, nextSeq, ui, kind, crashed, dropped>>
netVars == <<net, arrived>>
vars == <<store, appVars, cmds, evts, netUp, netVars>>

Net == INSTANCE ReliableMessage WITH Messages <- Keys, status <- net

TypeOK ==
  /\ store \in SUBSET Friends
  /\ friends \in SUBSET Friends
  /\ known \in SUBSET Friends
  /\ nextSeq \in [Friends -> 0 .. MaxSeq + 1]
  /\ ui \in [Keys -> {"absent", "sending", "sent", "failed"}]
  /\ kind \in [Keys -> {"text", "attach"}]
  /\ crashed \in BOOLEAN
  /\ cmds \in Seq(Commands) /\ Len(cmds) <= QueueCap
  /\ evts \in Seq(Events) /\ Len(evts) <= MaxEvents
  /\ dropped \in SUBSET Keys
  /\ netUp \in BOOLEAN
  /\ net \in [Keys -> {"none", "sending", "failed", "acked", "refused"}]
  /\ arrived \in SUBSET Keys

Init ==
  /\ store = StartFriends
  /\ friends = StartFriends
  /\ known = StartFriends
  /\ nextSeq = [p \in Friends |-> 0]
  /\ ui = [k \in Keys |-> "absent"]
  /\ kind = [k \in Keys |-> "text"]
  /\ crashed = FALSE
  /\ cmds = << >>
  /\ evts = << >>
  /\ dropped = {}
  /\ netUp = TRUE
  /\ Net!Init

-----------------------------------------------------------------------------
(* The user.                                                               *)

\* try_send for each of n commands, with q in the queue: those that do not fit, or all of
\* them once the network task is gone, are dropped.
TakesUnbounded(q, n) == n
Takes(q, n) ==
  LET free == QueueCap - Len(q)
  IN  IF ~netUp THEN 0 ELSE IF n <= free THEN n ELSE free

\* New outgoing messages ks to p, a sequence of keys, all of them of the kind c.
Post(p, ks, c) ==
  LET batch == [i \in DOMAIN ks |-> [what |-> IF c = "text" THEN "send" ELSE "attach",
                                     key  |-> ks[i]]]
      n     == Takes(cmds, Len(ks))
  IN
  /\ Cardinality({k \in Keys : ui[k] # "absent"}) + Len(ks) <= MaxMessages
  /\ nextSeq' = [nextSeq EXCEPT ![p] = @ + Len(ks)]
  /\ ui' = [k \in Keys |-> IF k \in ToSet(ks) THEN "sending" ELSE ui[k]]
  /\ kind' = [k \in Keys |-> IF k \in ToSet(ks) THEN c ELSE kind[k]]
  /\ cmds' = cmds \o SubSeq(batch, 1, n)
  /\ dropped' = dropped \cup ToSet(SubSeq(ks, n + 1, Len(ks)))

\* send_current and confirm_send_attach: `msgs.get_mut(..).unwrap()` on a friend with
\* no conversation ends the process.
SendCurrent(p, c) ==
  /\ p \in friends
  /\ nextSeq[p] <= MaxSeq
  /\ p \in known
  /\ Post(p, <<Key(p, nextSeq[p])>>, c)
  /\ UNCHANGED <<store, friends, known, crashed, evts, netUp, netVars>>

SendPanics(p) ==
  /\ p \in friends \ known
  /\ nextSeq[p] <= MaxSeq
  /\ nextSeq' = [nextSeq EXCEPT ![p] = @ + 1]
  /\ crashed' = TRUE
  /\ UNCHANGED <<store, friends, known, ui, kind, dropped, cmds, evts, netUp, netVars>>

FailedOf(p) == {k \in Keys : k.to = p /\ ui[k] = "failed"}

\* retry_failed: a new message, a text, for each failed one; the failed ones stay.
RetryFailed(p) ==
  LET n == Cardinality(FailedOf(p)) IN
  /\ p \in friends \cap known
  /\ n > 0
  /\ nextSeq[p] + n <= MaxSeq + 1
  /\ Post(p, [i \in 1 .. n |-> Key(p, nextSeq[p] + i - 1)], "text")
  /\ UNCHANGED <<store, friends, known, crashed, evts, netUp, netVars>>

\* find_address.
FindAddress(p) ==
  /\ p \in friends
  /\ Takes(cmds, 1) = 1
  /\ cmds' = Append(cmds, [what |-> "find", to |-> p])
  /\ UNCHANGED <<store, appVars, evts, netUp, netVars>>

-----------------------------------------------------------------------------
(* A frame of the interface.                                               *)

HandledBySeq(u, e) ==
  IF e.what = "received" THEN u
  ELSE [k \in Keys |-> IF k.seq = e.key.seq /\ u[k] # "absent"
                       THEN IF e.what = "acked" THEN "sent" ELSE "failed"
                       ELSE u[k]]

\* handle_event, on the statuses.
Handled(u, e) ==
  IF e.what = "received" \/ u[e.key] = "absent" THEN u
  ELSE [u EXCEPT ![e.key] = IF e.what = "acked" THEN "sent" ELSE "failed"]

\* The same, on the command queue: with automatic addressing the failure of a text asks
\* for an address, by try_send.
Asked(q, e) ==
  IF AutoAddr /\ e.what = "failed" /\ kind[e.key] = "text" /\ Takes(q, 1) = 1
  THEN Append(q, [what |-> "find", to |-> e.key.to])
  ELSE q

\* The loop of drain_events over a batch of events.
HandledAll(u, batch) ==
  LET after[i \in 0 .. Len(batch)] == IF i = 0 THEN u ELSE Handled(after[i - 1], batch[i])
  IN  after[Len(batch)]

AskedAll(q, batch) ==
  LET after[i \in 0 .. Len(batch)] == IF i = 0 THEN q ELSE Asked(after[i - 1], batch[i])
  IN  after[Len(batch)]

\* drain_events: the first n events, the others having come too late; then the list of
\* friends is read again.
DrainEvents(n) ==
  LET batch == SubSeq(evts, 1, n) IN
  /\ ui' = HandledAll(ui, batch)
  /\ known' = known \cup {e.from : e \in {x \in ToSet(batch) : x.what = "received"}}
  /\ cmds' = AskedAll(cmds, batch)
  /\ evts' = SubSeq(evts, n + 1, Len(evts))
  /\ friends' = store
  /\ UNCHANGED <<store, nextSeq, kind, crashed, dropped, netUp, netVars>>

-----------------------------------------------------------------------------
(* The network task and the IPC listener.                                  *)

\* The event that goes with the new status of the message k.
ReportAckedOnly(k, s) == IF s = "acked" THEN <<[what |-> "acked", key |-> k]>> ELSE << >>
Report(k, s) ==
  CASE s = "acked" -> <<[what |-> "acked", key |-> k]>>
    [] s \in {"failed", "refused"} -> <<[what |-> "failed", key |-> k]>>
    [] OTHER -> << >>

\* run_loop takes a command.  A query changes no status of a message.
TakeCommand ==
  /\ netUp
  /\ cmds # << >>
  /\ Len(evts) < MaxEvents
  /\ cmds' = Tail(cmds)
  /\ LET c == Head(cmds) IN
       IF c.what = "find"
       THEN UNCHANGED <<net, arrived, evts>>
       ELSE /\ Net!Submit(c.key)
            /\ evts' = evts \o Report(c.key, net'[c.key])
  /\ UNCHANGED <<store, appVars, netUp>>

\* Later verdicts; for an attachment only the first.
Verdict(k) ==
  /\ netUp
  /\ Len(evts) < MaxEvents
  /\ kind[k] = "attach" => net[k] = "sending"
  /\ Net!GiveUp({k}) \/ Net!Confirm(k)
  /\ evts' = evts \o Report(k, net'[k])
  /\ UNCHANGED <<store, appVars, cmds, netUp>>

Arrive(k) ==
  /\ Net!Arrive(k)
  /\ UNCHANGED <<store, appVars, cmds, evts, netUp>>

\* A text or an attachment from a friend.
Receive(p) ==
  /\ netUp
  /\ p \in store
  /\ Len(evts) < MaxEvents
  /\ evts' = Append(evts, [what |-> "received", from |-> p])
  /\ UNCHANGED <<store, appVars, cmds, netUp, netVars>>

\* recv_from returns an error: run_loop returns it and the task is over.
NetEnds ==
  /\ netUp
  /\ netUp' = FALSE
  /\ cmds' = << >>
  /\ dropped' = dropped \cup {c.key : c \in {x \in ToSet(cmds) : x.what # "find"}}
  /\ UNCHANGED <<store, friends, known, nextSeq, ui, kind, crashed, evts, netVars>>

\* handle_msg of ipc.rs: a link adds a friend to the shared store.
AddByLink(p) ==
  /\ p \notin store
  /\ store' = store \cup {p}
  /\ UNCHANGED <<appVars, cmds, evts, netUp, netVars>>

Next ==
  /\ ~crashed
  /\ \/ \E p \in Friends, c \in {"text", "attach"} : SendCurrent(p, c)
     \/ \E p \in Friends : SendPanics(p) \/ RetryFailed(p) \/ FindAddress(p)
     \/ \E n \in 0 .. Len(evts) : DrainEvents(n)
     \/ TakeCommand
     \/ \E k \in Keys : Verdict(k) \/ Arrive(k)
     \/ \E p \in Friends : Receive(p) \/ AddByLink(p)
     \/ NetEnds

Spec == Init /\ [][Next]_vars

\* The event loop draws frames; the network task takes commands, and gives each
\* message a verdict (VerdictReached of Delivery, and the retry pass for attachments).
\* The last two are strong only for the bound MaxEvents, which the program does not have:
\* it disables them for a while.
FairSpec ==
  /\ Spec
  /\ WF_vars(~crashed /\ evts # << >> /\ DrainEvents(Len(evts)))
  /\ SF_vars(~crashed /\ TakeCommand)
  /\ \A k \in Keys : SF_vars(~crashed /\ net[k] = "sending" /\ Verdict(k))

-----------------------------------------------------------------------------
(* Properties.                                                             *)

Shown(s) == CASE s = "acked" -> "sent"
              [] s \in {"failed", "refused"} -> "failed"
              [] OTHER -> "sending"

\* The list the user sees is the network task's view of its messages, late by the
\* events that are still in the queue and by nothing else: whatever is posted, resent,
\* given up and acknowledged meanwhile, handling those events would make them agree.
UiCatchesUp ==
  LET caughtUp == HandledAll(ui, evts) IN
  \A k \in Keys : IF ui[k] = "absent" THEN net[k] = "none"
                  ELSE caughtUp[k] = Shown(net[k])

\* End to end, a text with a check mark has reached its friend.
CheckMarkTrue ==
  \A k \in Keys : ui[k] = "sent" /\ kind[k] = "text" => k \in arrived

\* A check mark stays: no failure the network task reported earlier, of this message or of
\* one with the same number to another friend, takes it back when it is handled at last.
CheckMarkStays == [][\A k \in Keys : ui[k] = "sent" => ui'[k] = "sent"]_vars

\* A message leaves the state "sending" on the screen, if its command was not dropped
\* and the network task and the program go on.
VerdictShown ==
  \A k \in Keys :
    ui[k] = "sending" ~> ui[k] # "sending" \/ k \in dropped \/ ~netUp \/ crashed

\* Every message the user sends (it has taken its number) gets a verdict on the screen.
SentGetsVerdict ==
  \A k \in Keys : k.seq < nextSeq[k.to] ~> ui[k] \in {"sent", "failed"}
=============================================================================
