--------------------------- MODULE DataDirProofs ---------------------------
(***************************************************************************)
(* Proofs about DataDir, for any number of runs of the program, of short   *)
(* processes and of keys.                                                  *)
(***************************************************************************)
EXTENDS DataDir, TLAPS

-----------------------------------------------------------------------------
(* What a step does to one process; the others stay as they are.           *)

ClientGoes(c, at) ==
  /\ client' \in [Clients -> ClientStates]
  /\ \A d \in Clients \ {c} : client'[d] = client[d]
  /\ client'[c].at = at

\* All but the state `at` of c.
SameBut(c) ==
  /\ client'[c].own = client[c].own
  /\ client'[c].ipc = client[c].ipc
  /\ client'[c].saving = client[c].saving
  /\ client'[c].mem = client[c].mem
  /\ client'[c].adding = client[c].adding
  /\ client'[c].unsaved = client[c].unsaved
  /\ client'[c].raced = client[c].raced

ToolGoes(t, at) ==
  /\ tool' \in [Tools -> ToolStates]
  /\ \A u \in Tools \ {t} : tool'[u] = tool[u]
  /\ tool'[t].at = at

SameOrder(t) == tool'[t].op = tool[t].op /\ tool'[t].key = tool[t].key

\* The records of a process that is not there.
LEMMA NotStartedType ==
  /\ NotRunning \in ClientStates
  /\ NotStarted \in ToolStates
BY DEF NotRunning, ClientStates, NotStarted, ToolStates

\* A start that goes as far as check_overlap.
LEMMA StartClientEffect ==
  ASSUME TypeOK, NEW c \in Clients, StartClient(c)
  PROVE  /\ ClientGoes(c, "checked")
         /\ client'[c].own = identityFile
         /\ ~client'[c].ipc /\ ~client'[c].saving
BY DEF TypeOK, StartClient, ClientStates, NotRunning, ClientGoes

\* The lock taken.
LEMMA AcquireEffect ==
  ASSUME TypeOK, NEW c \in Clients, Acquire(c)
  PROVE  ClientGoes(c, "locked") /\ SameBut(c)
BY DEF TypeOK, Acquire, ClientStates, ClientGoes, SameBut

\* A run that ends.
LEMMA EndEffect ==
  ASSUME TypeOK, NEW c \in Clients, AcquireFails(c) \/ Quit(c) \/ Kill(c)
  PROVE  ClientGoes(c, "off") /\ ~client'[c].ipc /\ ~client'[c].saving
<1>1. client' = [client EXCEPT ![c] = NotRunning]
  BY DEF AcquireFails, Quit, Kill
<1>2. QED
  BY <1>1, NotStartedType DEF TypeOK, NotRunning, ClientGoes

\* The friends read, after the lock is taken.
LEMMA OpenStoreEffect ==
  ASSUME TypeOK, NEW c \in Clients, OpenStore(c)
  PROVE  /\ ClientGoes(c, "running")
         /\ client'[c].own = client[c].own
         /\ ~client'[c].ipc /\ ~client'[c].saving
         /\ client'[c].mem = friendsFile
         /\ client'[c].raced = (c \in stale)
<1>0. client \in [Clients -> ClientStates] /\ friendsFile \in SUBSET Keys
  BY DEF TypeOK
<1> DEFINE opened == [client[c] EXCEPT !.at = "running", !.mem = friendsFile,
                                !.raced = c \in stale]
<1>1. client[c].at = "locked" /\ ~client[c].ipc /\ ~client[c].saving
  BY DEF TypeOK, OpenStore
<1>2. opened \in ClientStates
  <2>1. \A b \in BOOLEAN :
          [client[c] EXCEPT !.at = "running", !.mem = friendsFile, !.raced = b] \in ClientStates
    BY <1>0 DEF ClientStates
  <2>2. (c \in stale) \in BOOLEAN
    OBVIOUS
  <2>3. QED
    BY <2>1, <2>2, Zenon
<1>3. /\ opened.at = "running" /\ opened.own = client[c].own
      /\ opened.ipc = client[c].ipc /\ opened.saving = client[c].saving
      /\ opened.mem = friendsFile /\ opened.raced = (c \in stale)
  BY <1>0 DEF ClientStates
<1>4. client' = [client EXCEPT ![c] = opened]
  BY <1>0 DEF OpenStore, Opened, ClientStates
<1>5. client' \in [Clients -> ClientStates]
  BY <1>0, <1>2, <1>4
<1> HIDE DEF opened
<1>6. QED
  BY <1>0, <1>1, <1>3, <1>4, <1>5 DEF ClientGoes

\* The IPC port bound.
LEMMA ServeEffect ==
  ASSUME TypeOK, NEW c \in Clients, Serve(c)
  PROVE  /\ ClientGoes(c, "running")
         /\ client'[c].own = client[c].own
         /\ client'[c].saving = client[c].saving
         /\ client'[c].mem = client[c].mem
         /\ client'[c].adding = client[c].adding
         /\ client'[c].unsaved = client[c].unsaved
         /\ client'[c].raced = client[c].raced
BY DEF TypeOK, Serve, ClientStates, ClientGoes

\* A save that begins, with the friend it adds, if any.
LEMMA SaveEffect ==
  ASSUME TypeOK, NEW c \in Clients, NEW k \in Keys \cup {None}, Save(c, k)
  PROVE  /\ ClientGoes(c, "running")
         /\ client'[c].own = client[c].own
         /\ client'[c].ipc = client[c].ipc
         /\ client'[c].saving
         /\ client'[c].adding = k
         /\ client'[c].mem = Added(client[c].mem, k)
         /\ client'[c].raced = client[c].raced
BY DEF TypeOK, Save, Changes, Added, ClientStates, ClientGoes

\* A save that fails before the truncation, or after it.
LEMMA SaveFailsEffect ==
  ASSUME TypeOK, NEW c \in Clients, NEW k \in Keys \cup {None}, SaveFails(c, k)
  PROVE  /\ ClientGoes(c, "running")
         /\ client'[c].own = client[c].own
         /\ client'[c].ipc = client[c].ipc
         /\ client'[c].saving = client[c].saving
         /\ client'[c].unsaved
         /\ client'[c].mem = Added(client[c].mem, k)
         /\ client'[c].raced = client[c].raced
<1>0. client[c] \in ClientStates /\ client \in [Clients -> ClientStates] /\ client[c].at = "running"
  BY DEF TypeOK, SaveFails, Changes
<1> DEFINE failed == [client[c] EXCEPT !.mem = Added(@, k), !.unsaved = TRUE]
<1>1. Added(client[c].mem, k) \in SUBSET Keys
  BY <1>0 DEF Added, ClientStates
<1>2. failed \in ClientStates
  BY <1>0, <1>1 DEF ClientStates
<1>3. /\ failed.at = "running" /\ failed.own = client[c].own /\ failed.ipc = client[c].ipc
      /\ failed.saving = client[c].saving /\ failed.unsaved /\ failed.raced = client[c].raced
      /\ failed.mem = Added(client[c].mem, k)
  BY <1>0 DEF ClientStates
<1>4. client' = [client EXCEPT ![c] = failed]
  BY <1>0 DEF SaveFails, ClientStates
<1> HIDE DEF failed
<1>5. QED
  BY <1>0, <1>2, <1>3, <1>4 DEF ClientGoes

LEMMA SaveBreaksEffect ==
  ASSUME TypeOK, NEW c \in Clients, SaveBreaks(c)
  PROVE  /\ ClientGoes(c, "running")
         /\ client'[c].own = client[c].own
         /\ client'[c].ipc = client[c].ipc
         /\ ~client'[c].saving
         /\ client'[c].unsaved
         /\ client'[c].mem = client[c].mem
         /\ client'[c].raced = client[c].raced
<1>0. client[c] \in ClientStates /\ client \in [Clients -> ClientStates] /\ client[c].at = "running"
  BY DEF TypeOK, SaveBreaks
<1> DEFINE broken == [client[c] EXCEPT !.saving = FALSE, !.adding = None, !.unsaved = TRUE]
<1>1. broken \in ClientStates
  BY <1>0 DEF ClientStates
<1>2. /\ broken.at = "running" /\ broken.own = client[c].own /\ broken.ipc = client[c].ipc
      /\ ~broken.saving /\ broken.unsaved /\ broken.raced = client[c].raced
      /\ broken.mem = client[c].mem
  BY <1>0 DEF ClientStates
<1>3. client' = [client EXCEPT ![c] = broken]
  BY <1>0 DEF SaveBreaks, ClientStates
<1> HIDE DEF broken
<1>4. QED
  BY <1>0, <1>1, <1>2, <1>3 DEF ClientGoes

\* A save that ends.
LEMMA SaveEndsEffect ==
  ASSUME TypeOK, NEW c \in Clients, SaveEnds(c)
  PROVE  /\ ClientGoes(c, "running")
         /\ client'[c].own = client[c].own
         /\ client'[c].ipc = client[c].ipc
         /\ ~client'[c].saving
         /\ client'[c].adding = None
         /\ client'[c].mem = client[c].mem
         /\ ~client'[c].unsaved
         /\ client'[c].raced = client[c].raced
<1>0. client[c] \in ClientStates /\ client \in [Clients -> ClientStates] /\ client[c].at = "running"
  BY DEF TypeOK, SaveEnds
<1> DEFINE saved == [client[c] EXCEPT !.saving = FALSE, !.adding = None, !.unsaved = FALSE]
<1>1. saved \in ClientStates
  BY <1>0 DEF ClientStates
<1>2. /\ saved.at = "running" /\ saved.own = client[c].own /\ saved.ipc = client[c].ipc
      /\ ~saved.saving /\ ~saved.unsaved /\ saved.raced = client[c].raced
      /\ saved.mem = client[c].mem /\ saved.adding = None
  BY <1>0 DEF ClientStates
<1>3. client' = [client EXCEPT ![c] = saved]
  BY <1>0 DEF SaveEnds, ClientStates
<1> HIDE DEF saved
<1>4. QED
  BY <1>0, <1>1, <1>2, <1>3 DEF ClientGoes

\* Another account, while the program runs.
LEMMA SetSeedEffect ==
  ASSUME TypeOK, NEW c \in Clients, NEW k \in Keys, SetSeed(c, k)
  PROVE  /\ ClientGoes(c, "running")
         /\ client'[c].ipc = client[c].ipc
         /\ client'[c].saving = client[c].saving
         /\ client'[c].mem = client[c].mem
         /\ client'[c].adding = client[c].adding
         /\ client'[c].unsaved = client[c].unsaved
BY DEF TypeOK, SetSeed, ClientStates, ClientGoes

\* A short process whose new state is given whole.
LEMMA BecomesEffect ==
  ASSUME TypeOK, NEW t \in Tools, NEW r \in ToolStates, Becomes(t, r)
  PROVE  ToolGoes(t, r.at) /\ tool'[t] = r
BY DEF TypeOK, Becomes, ToolGoes

\* A short process starts: `friend add`, a link, a restore, an import.
LEMMA ToolStarts ==
  ASSUME TypeOK, NEW t \in Tools
  PROVE  /\ \A k \in Keys : FriendAdd(t, k) =>
              /\ ToolGoes(t, "opened") /\ tool'[t].op = "add" /\ tool'[t].key = k
              /\ tool'[t].read = friendsFile /\ tool'[t].server = None
         /\ \A k \in Keys : HandleLink(t, k) =>
              /\ ToolGoes(t, "asking") /\ tool'[t].op = "link" /\ tool'[t].key = k
              /\ tool'[t].server = None
         /\ \A friends \in SUBSET Keys : Restore(t, friends) =>
              /\ ToolGoes(t, "truncated") /\ tool'[t].op = "restore" /\ tool'[t].key = None
              /\ tool'[t].server = None
         /\ \A k \in Keys : Import(t, k) =>
              /\ ToolGoes(t, "truncated") /\ tool'[t].op = "import" /\ tool'[t].key = k
              /\ tool'[t].server = None
<1>0. friendsFile \in SUBSET Keys
  BY DEF TypeOK
<1>1. ASSUME NEW k \in Keys, FriendAdd(t, k)
      PROVE  /\ ToolGoes(t, "opened") /\ tool'[t].op = "add" /\ tool'[t].key = k
             /\ tool'[t].read = friendsFile /\ tool'[t].server = None
  <2> DEFINE r == [NotStarted EXCEPT !.at = "opened", !.op = "add", !.key = k, !.read = friendsFile]
  <2>1. /\ r \in ToolStates /\ r.at = "opened" /\ r.op = "add" /\ r.key = k
        /\ r.read = friendsFile /\ r.server = None
    BY <1>0 DEF NotStarted, ToolStates
  <2>2. Becomes(t, r)
    BY <1>1 DEF FriendAdd, Opened
  <2> HIDE DEF r
  <2>3. QED BY <2>1, <2>2, BecomesEffect
<1>2. ASSUME NEW k \in Keys, HandleLink(t, k)
      PROVE  /\ ToolGoes(t, "asking") /\ tool'[t].op = "link" /\ tool'[t].key = k
             /\ tool'[t].server = None
  <2> DEFINE r == [NotStarted EXCEPT !.at = "asking", !.op = "link", !.key = k]
  <2>1. r \in ToolStates /\ r.at = "asking" /\ r.op = "link" /\ r.key = k /\ r.server = None
    BY DEF NotStarted, ToolStates
  <2>2. Becomes(t, r)
    BY <1>2 DEF HandleLink
  <2> HIDE DEF r
  <2>3. QED BY <2>1, <2>2, BecomesEffect
<1>3. ASSUME NEW friends \in SUBSET Keys, Restore(t, friends)
      PROVE  /\ ToolGoes(t, "truncated") /\ tool'[t].op = "restore" /\ tool'[t].key = None
             /\ tool'[t].server = None
  <2> DEFINE r == [NotStarted EXCEPT !.at = "truncated", !.op = "restore", !.read = friends]
  <2>1. r \in ToolStates /\ r.at = "truncated" /\ r.op = "restore" /\ r.key = None /\ r.server = None
    BY DEF NotStarted, ToolStates
  <2>2. Becomes(t, r)
    BY <1>3 DEF Restore
  <2> HIDE DEF r
  <2>3. QED BY <2>1, <2>2, BecomesEffect
<1>4. ASSUME NEW k \in Keys, Import(t, k)
      PROVE  /\ ToolGoes(t, "truncated") /\ tool'[t].op = "import" /\ tool'[t].key = k
             /\ tool'[t].server = None
  <2> DEFINE r == [NotStarted EXCEPT !.at = "truncated", !.op = "import", !.key = k]
  <2>1. r \in ToolStates /\ r.at = "truncated" /\ r.op = "import" /\ r.key = k /\ r.server = None
    BY DEF NotStarted, ToolStates
  <2>2. Becomes(t, r)
    BY <1>4 DEF Import
  <2> HIDE DEF r
  <2>3. QED BY <2>1, <2>2, BecomesEffect
<1>5. QED BY <1>1, <1>2, <1>3, <1>4

\* A short process goes on.
LEMMA ToolGoesOn ==
  ASSUME TypeOK, NEW t \in Tools
  PROVE  /\ \A c \in Clients : Forward(t, c) =>
              /\ ToolGoes(t, "waiting") /\ SameOrder(t) /\ tool'[t].server = c
         /\ NobodyListens(t) =>
              /\ ToolGoes(t, "direct") /\ SameOrder(t)
              /\ tool'[t].server = tool[t].server
         /\ OpenDirectly(t) =>
              /\ ToolGoes(t, "opened") /\ SameOrder(t) /\ tool'[t].read = friendsFile
              /\ tool'[t].server = tool[t].server
         /\ AddBegins(t) =>
              /\ ToolGoes(t, "truncated") /\ SameOrder(t)
              /\ tool'[t].read = Added(tool[t].read, tool[t].key)
              /\ tool'[t].server = tool[t].server
<1>0. friendsFile \in SUBSET Keys /\ tool[t] \in ToolStates
  BY DEF TypeOK
<1>1. ASSUME NEW c \in Clients, Forward(t, c)
      PROVE  ToolGoes(t, "waiting") /\ SameOrder(t) /\ tool'[t].server = c
  <2> DEFINE r == [tool[t] EXCEPT !.at = "waiting", !.server = c]
  <2>1. /\ r \in ToolStates /\ r.at = "waiting" /\ r.server = c
        /\ r.op = tool[t].op /\ r.key = tool[t].key
    BY <1>0 DEF ToolStates
  <2>2. Becomes(t, r)
    BY <1>1 DEF Forward
  <2> HIDE DEF r
  <2>3. QED
    BY <2>1, <2>2, BecomesEffect DEF SameOrder
<1>2. ASSUME NobodyListens(t)
      PROVE  ToolGoes(t, "direct") /\ SameOrder(t) /\ tool'[t].server = tool[t].server
  <2> DEFINE r == [tool[t] EXCEPT !.at = "direct"]
  <2>1. /\ r \in ToolStates /\ r.at = "direct" /\ r.server = tool[t].server
        /\ r.op = tool[t].op /\ r.key = tool[t].key
    BY <1>0 DEF ToolStates
  <2>2. Becomes(t, r)
    BY <1>2 DEF NobodyListens
  <2> HIDE DEF r
  <2>3. QED
    BY <2>1, <2>2, BecomesEffect DEF SameOrder
<1>3. ASSUME OpenDirectly(t)
      PROVE  /\ ToolGoes(t, "opened") /\ SameOrder(t) /\ tool'[t].read = friendsFile
             /\ tool'[t].server = tool[t].server
  <2> DEFINE r == [tool[t] EXCEPT !.at = "opened", !.read = friendsFile]
  <2>1. /\ r \in ToolStates /\ r.at = "opened" /\ r.server = tool[t].server
        /\ r.op = tool[t].op /\ r.key = tool[t].key /\ r.read = friendsFile
    BY <1>0 DEF ToolStates
  <2>2. Becomes(t, r)
    BY <1>3 DEF OpenDirectly, Opened
  <2> HIDE DEF r
  <2>3. QED
    BY <2>1, <2>2, BecomesEffect DEF SameOrder
<1>4. ASSUME AddBegins(t)
      PROVE  /\ ToolGoes(t, "truncated") /\ SameOrder(t)
             /\ tool'[t].read = Added(tool[t].read, tool[t].key)
             /\ tool'[t].server = tool[t].server
  <2> DEFINE r == [tool[t] EXCEPT !.at = "truncated", !.read = Added(@, tool[t].key)]
  <2>1. /\ r.at = "truncated" /\ r.server = tool[t].server
        /\ r.op = tool[t].op /\ r.key = tool[t].key /\ r.read = Added(tool[t].read, tool[t].key)
    BY <1>0 DEF ToolStates
  <2>2. Added(tool[t].read, tool[t].key) \in SUBSET Keys
    BY <1>0 DEF ToolStates, Added
  <2>3. r \in ToolStates
    BY <1>0, <2>2 DEF ToolStates
  <2>4. Becomes(t, r)
    BY <1>4 DEF AddBegins
  <2> HIDE DEF r
  <2>5. QED
    BY <2>1, <2>3, <2>4, BecomesEffect DEF SameOrder
<1>5. QED
  BY <1>1, <1>2, <1>3, <1>4

\* A short process ends, or goes on only at the running program.
LEMMA ToolEnds ==
  ASSUME TypeOK, NEW t \in Tools
  PROVE  /\ \A c \in Clients : ServeKnown(c, t) => ToolGoes(t, "off") /\ tool'[t].server = None
         /\ EmptyAnswer(t) \/ AddKnown(t) \/ WriteEnds(t) \/ ImportEnds(t) \/ KillTool(t)
              => ToolGoes(t, "off") /\ tool'[t].server = None
         /\ GiveUp(t) =>
              \/ ToolGoes(t, "off") /\ tool'[t].server = None
              \/ /\ tool[t].at = "waiting" /\ ToolGoes(t, "left")
                 /\ SameOrder(t) /\ tool'[t].server = tool[t].server
         /\ \A c \in Clients : ServeAdd(c, t) =>
              \/ ToolGoes(t, "off") /\ tool'[t].server = None
              \/ ToolGoes(t, "served") /\ SameOrder(t) /\ tool'[t].server = c
<1>0. tool[t] \in ToolStates
  BY DEF TypeOK
<1>1. Becomes(t, NotStarted) => ToolGoes(t, "off") /\ tool'[t].server = None
  BY NotStartedType, BecomesEffect DEF NotStarted
<1>2. ASSUME NEW at \in {"left", "served"}, Becomes(t, [tool[t] EXCEPT !.at = at])
      PROVE  ToolGoes(t, at) /\ SameOrder(t) /\ tool'[t].server = tool[t].server
  <2> DEFINE r == [tool[t] EXCEPT !.at = at]
  <2>1. /\ r \in ToolStates /\ r.at = at /\ r.server = tool[t].server
        /\ r.op = tool[t].op /\ r.key = tool[t].key
    BY <1>0 DEF ToolStates
  <2>2. Becomes(t, r)
    BY <1>2
  <2> HIDE DEF r
  <2>3. QED
    BY <2>1, <2>2, BecomesEffect DEF SameOrder
<1>3. \/ EmptyAnswer(t) \/ AddKnown(t) \/ WriteEnds(t) \/ ImportEnds(t) \/ KillTool(t)
      \/ \E c \in Clients : ServeKnown(c, t)
      => Becomes(t, NotStarted)
  BY DEF EmptyAnswer, AddKnown, WriteEnds, ImportEnds, KillTool, ServeKnown
<1>4. ASSUME GiveUp(t)
      PROVE  \/ Becomes(t, NotStarted)
             \/ tool[t].at = "waiting" /\ Becomes(t, [tool[t] EXCEPT !.at = "left"])
  BY <1>4 DEF GiveUp, Becomes
<1>5. ASSUME NEW c \in Clients, ServeAdd(c, t)
      PROVE  \/ Becomes(t, NotStarted)
             \/ tool[t].server = c /\ Becomes(t, [tool[t] EXCEPT !.at = "served"])
  <2>1. CASE Becomes(t, NotStarted)
    BY <2>1
  <2>2. CASE Becomes(t, IF tool[t].at = "left" THEN NotStarted
                        ELSE [tool[t] EXCEPT !.at = "served"])
    BY <1>5, <2>2 DEF ServeAdd
  <2>3. QED
    BY <1>5, <2>1, <2>2 DEF ServeAdd
<1>6. QED
  BY <1>1, <1>2, <1>3, <1>4, <1>5

\* The connections to a program that ends are cut.
LEMMA CutEffect ==
  ASSUME TypeOK, NEW c \in Clients, tool' = Cut(c)
  PROVE  /\ tool' \in [Tools -> ToolStates]
         /\ \A t \in Tools :
              \/ tool[t].server # c /\ tool'[t] = tool[t]
              \/ tool[t].server = c /\ tool'[t].at \in {"off", "cut"} /\ tool'[t].server = None
                   /\ (tool'[t].at = "cut" => SameOrder(t))
<1>1. ASSUME NEW t \in Tools
      PROVE  /\ tool'[t] \in ToolStates
             /\ \/ tool[t].server # c /\ tool'[t] = tool[t]
                \/ tool[t].server = c /\ tool'[t].at \in {"off", "cut"} /\ tool'[t].server = None
                     /\ (tool'[t].at = "cut" => SameOrder(t))
  <2>0. tool[t] \in ToolStates
    BY DEF TypeOK
  <2> DEFINE cut == [tool[t] EXCEPT !.at = "cut", !.server = None]
  <2>1. /\ cut \in ToolStates /\ cut.at = "cut" /\ cut.server = None
        /\ cut.op = tool[t].op /\ cut.key = tool[t].key
    BY <2>0 DEF ToolStates
  <2>2. tool'[t] = IF tool[t].server # c THEN tool[t]
                   ELSE IF tool[t].at = "left" THEN NotStarted ELSE cut
    BY DEF Cut
  <2> HIDE DEF cut
  <2>3. NotStarted.at = "off" /\ NotStarted.server = None
    BY DEF NotStarted
  <2>4. CASE tool[t].server # c
    BY <2>0, <2>2, <2>4
  <2>5. CASE tool[t].server = c /\ tool[t].at = "left"
    BY <2>2, <2>3, <2>5, NotStartedType
  <2>6. CASE tool[t].server = c /\ tool[t].at # "left"
    BY <2>1, <2>2, <2>6 DEF SameOrder
  <2>7. QED
    BY <2>4, <2>5, <2>6
<1>2. tool' = [t \in Tools |-> IF tool[t].server # c THEN tool[t]
                              ELSE IF tool[t].at = "left" THEN NotStarted
                              ELSE [tool[t] EXCEPT !.at = "cut", !.server = None]]
  BY DEF Cut
<1>3. tool' = [t \in Tools |-> tool'[t]]
  BY <1>2, Zenon
<1>4. QED
  BY <1>1, <1>3

\* Those whose link has been served end with the save.
LEMMA ServedEffect ==
  ASSUME TypeOK, NEW c \in Clients, tool' = Answered(c)
  PROVE  /\ tool' \in [Tools -> ToolStates]
         /\ \A t \in Tools :
              \/ ~(tool[t].at = "served" /\ tool[t].server = c) /\ tool'[t] = tool[t]
              \/ /\ tool[t].at = "served" /\ tool[t].server = c
                 /\ tool'[t].at = "off" /\ tool'[t].server = None
<1>1. NotStarted.at = "off" /\ NotStarted.server = None
  BY DEF NotStarted
<1>2. tool \in [Tools -> ToolStates]
  BY DEF TypeOK
<1>3. tool' = [t \in Tools |-> IF tool[t].at = "served" /\ tool[t].server = c
                              THEN NotStarted ELSE tool[t]]
  BY DEF Answered
<1>4. QED
  BY <1>1, <1>2, <1>3, NotStartedType

-----------------------------------------------------------------------------
(* Types.                                                                  *)

\* TypeOK in parts.
Plain ==
  /\ friendsFile \in SUBSET Keys
  /\ identityFile \in Keys \cup {None}
  /\ told \in SUBSET Keys
  /\ {lockFile, rekeyed, killed} \subseteq BOOLEAN

Functions == client \in [Clients -> ClientStates] /\ tool \in [Tools -> ToolStates]

Orders == \A t \in Tools : tool[t].at \in {"off", "truncated"} \/ tool[t].key \in Keys

Flags == \A c \in Clients : client[c].ipc \/ client[c].saving => client[c].at = "running"

Servers ==
  \A t \in Tools :
    tool[t].server \in IF tool[t].at = "served" THEN Saving
                      ELSE IF tool[t].at \in {"waiting", "left"} THEN Running
                      ELSE {None}

\* The conjuncts of TypeOK, now and after a step.
LEMMA Parts ==
  /\ TypeOK <=> /\ Plain /\ Functions /\ Orders /\ Flags /\ Servers
                /\ stale \subseteq HaveCopy
  /\ TypeOK' <=> /\ Plain' /\ Functions' /\ Orders' /\ Flags' /\ Servers'
                 /\ stale' \subseteq HaveCopy'
BY DEF TypeOK, Plain, Functions, Orders, Flags, Servers

\* An empty data directory is well typed.
LEMMA InitType == Init => TypeOK
<1>1. Init => Plain /\ Functions
  BY NotStartedType DEF Init, Plain, Functions
<1>2. Init => Flags /\ Servers /\ stale \subseteq HaveCopy
  BY DEF Init, Flags, Servers, NotRunning, NotStarted
<1>3. Init => Orders
  BY DEF Init, Orders, NotStarted
<1>4. QED
  BY <1>1, <1>2, <1>3, Parts

\* A run of the program goes forward.
LEMMA ForwardType ==
  ASSUME TypeOK, Plain', tool' \in [Tools -> ToolStates],
         NEW c \in Clients, NEW at \in {"checked", "locked", "running"}, ClientGoes(c, at),
         client[c].at = "running" => at = "running",
         client'[c].ipc \/ client'[c].saving => at = "running",
         client[c].saving => client'[c].saving,
         stale' \subseteq stale \cup HaveCopy \cup {c},
         \A t \in Tools :
            \/ tool'[t] = tool[t]
            \/ tool'[t].at = "off" /\ tool'[t].server = None /\ t \notin stale'
            \/ /\ tool'[t].at = "served" /\ tool'[t].server = c /\ t \notin stale'
               /\ tool'[t].key \in Keys
               /\ client'[c].saving /\ at = "running"
  PROVE  TypeOK'
<1>0. Functions /\ Orders /\ Flags /\ Servers /\ stale \subseteq HaveCopy
  BY Parts
<1>1. Functions' /\ Flags' /\ Orders'
  BY <1>0 DEF ClientGoes, Functions, Flags, Orders
<1>2. Running \subseteq Running' /\ Saving \subseteq Saving'
  BY <1>0 DEF Running, Saving, ClientGoes
<1>3. Servers'
  <2>1. client'[c].saving /\ at = "running" => c \in Saving'
    BY DEF Saving, Running, ClientGoes
  <2>2. QED
    BY <1>0, <1>2, <2>1 DEF Servers
<1>4. ASSUME NEW p \in stale'
      PROVE  p \in HaveCopy'
  <2>1. p = c \/ p \in HaveCopy
    BY <1>0
  <2>2. CASE p = c
    BY <2>2 DEF HaveCopy, ClientGoes
  <2>3. CASE p # c /\ p \in Clients /\ client[p].at # "off"
    BY <2>3 DEF HaveCopy, ClientGoes, Filling
  <2>4. CASE p \in Tools /\ (tool[p].at = "opened" \/ p \in Filling)
    BY <2>4 DEF HaveCopy, Filling
  <2>5. QED
    BY <2>1, <2>2, <2>3, <2>4 DEF HaveCopy, Filling
<1>5. QED
  BY <1>1, <1>3, <1>4, Parts

\* A run of the program ends.
LEMMA EndType ==
  ASSUME TypeOK, Plain', tool' \in [Tools -> ToolStates],
         NEW c \in Clients, ClientGoes(c, "off"), ~client'[c].ipc, ~client'[c].saving,
         stale' = stale \ {c},
         \A t \in Tools :
            \/ tool[t].server # c /\ tool'[t] = tool[t]
            \/ /\ tool[t].server = c /\ tool'[t].at \in {"off", "cut"} /\ tool'[t].server = None
               /\ (tool'[t].at = "cut" => SameOrder(t))
  PROVE  TypeOK'
<1>0. Functions /\ Orders /\ Flags /\ Servers /\ stale \subseteq HaveCopy
  BY Parts
<1>1. Functions' /\ Flags'
  BY <1>0 DEF ClientGoes, Functions, Flags
<1>2. Orders'
  BY <1>0, DataDirAssumption DEF Orders, Servers, SameOrder
<1>3. Running \ {c} \subseteq Running' /\ Saving \ {c} \subseteq Saving'
  BY <1>0 DEF Running, Saving, ClientGoes
<1>4. Servers'
  BY <1>0, <1>3 DEF Servers
<1>5. ASSUME NEW p \in stale'
      PROVE  p \in HaveCopy'
  <2>1. p # c /\ p \in HaveCopy
    BY <1>0
  <2>2. CASE p \in Clients /\ client[p].at # "off"
    BY <2>1, <2>2 DEF HaveCopy, ClientGoes
  <2>3. CASE p \in Tools /\ (tool[p].at = "opened" \/ p \in Filling)
    <3>1. tool[p].server = None
      BY <1>0, <2>3 DEF Servers, Filling
    <3>2. tool'[p] = tool[p]
      BY <2>3, <3>1, DataDirAssumption
    <3>3. QED
      BY <2>3, <3>2 DEF HaveCopy, Filling
  <2>4. QED
    BY <2>1, <2>2, <2>3 DEF HaveCopy, Filling
<1>6. QED
  BY <1>1, <1>2, <1>4, <1>5, Parts

\* A save ends, or fails when the file is truncated.
LEMMA SaveEndsType ==
  ASSUME TypeOK, NEW c \in Clients, SaveEnds(c) \/ SaveBreaks(c)
  PROVE  TypeOK'
<1>a. /\ ClientGoes(c, "running") /\ client'[c].ipc = client[c].ipc /\ ~client'[c].saving
      /\ tool' = Answered(c)
  BY SaveEndsEffect, SaveBreaksEffect DEF SaveEnds, SaveBreaks
<1>0. /\ Plain /\ Functions /\ Orders /\ Flags /\ Servers /\ stale \subseteq HaveCopy
      /\ client[c].at = "running" /\ client[c].saving
  BY Parts DEF SaveEnds, SaveBreaks, Flags
<1>1. Functions' /\ Flags' /\ Orders'
  BY <1>0, <1>a, ServedEffect DEF ClientGoes, Functions, Flags, Orders
<1>2. Running \subseteq Running' /\ Saving \ {c} \subseteq Saving'
  BY <1>0, <1>a DEF Running, Saving, ClientGoes
<1>3. Servers'
  BY <1>0, <1>2, <1>a, ServedEffect DEF Servers
<1>4. stale' \subseteq stale \cup HaveCopy
  BY DEF SaveEnds, SaveBreaks, Fill, Overwritten
<1>5. ASSUME NEW p \in stale'
      PROVE  p \in HaveCopy'
  <2>1. p \in HaveCopy
    BY <1>0, <1>4
  <2>2. CASE p \in Clients /\ client[p].at # "off"
    BY <2>2, <1>a DEF HaveCopy, ClientGoes
  <2>3. CASE p \in Tools /\ (tool[p].at = "opened" \/ p \in Filling)
    BY <2>3, <1>a, ServedEffect DEF HaveCopy, Filling
  <2>4. QED
    BY <2>1, <2>2, <2>3 DEF HaveCopy, Filling
<1>6. Plain'
  BY <1>0 DEF SaveEnds, SaveBreaks, Fill, Plain, Functions, ClientStates
<1>7. QED
  BY <1>1, <1>3, <1>5, <1>6, Parts

\* A short process goes a step.
LEMMA ToolType ==
  ASSUME TypeOK, Plain', client' = client,
         NEW t \in Tools, NEW at, ToolGoes(t, at),
         \/ at = "waiting" /\ tool'[t].server \in Running
         \/ at = "left" /\ tool'[t].server \in Running
         \/ at \notin {"waiting", "left", "served"} /\ tool'[t].server = None,
         stale' \subseteq stale \cup HaveCopy,
         t \in stale' => at = "opened",
         at \in {"off", "truncated"} \/ tool'[t].key \in Keys
  PROVE  TypeOK'
<1>0. Functions /\ Orders /\ Flags /\ Servers /\ stale \subseteq HaveCopy
  BY Parts
<1>1. Functions' /\ Orders' /\ Flags' /\ Running' = Running /\ Saving' = Saving
  BY <1>0 DEF ToolGoes, Functions, Orders, Flags, Running, Saving
<1>2. Servers'
  BY <1>0, <1>1 DEF Servers, ToolGoes
<1>3. ASSUME NEW p \in stale'
      PROVE  p \in HaveCopy'
  <2>1. p \in HaveCopy
    BY <1>0
  <2>2. CASE p \in Clients /\ client[p].at # "off"
    BY <2>2 DEF HaveCopy
  <2>3. CASE p \in Tools /\ p # t /\ (tool[p].at = "opened" \/ p \in Filling)
    BY <2>3 DEF HaveCopy, ToolGoes, Filling
  <2>4. CASE p = t
    BY <2>4 DEF HaveCopy, ToolGoes, Filling
  <2>5. QED
    BY <2>1, <2>2, <2>3, <2>4 DEF HaveCopy, Filling
<1>4. QED
  BY <1>1, <1>2, <1>3, Parts

\* The actions of a run of the program keep the types.
LEMMA ClientType ==
  ASSUME TypeOK, NEW c \in Clients,
         \/ StartClient(c) \/ Acquire(c) \/ AcquireFails(c) \/ OpenStore(c) \/ Serve(c)
         \/ Update(c) \/ SaveEnds(c) \/ SaveBreaks(c) \/ Quit(c) \/ Kill(c)
         \/ \E k \in Keys : AddScanned(c, k) \/ SetSeed(c, k)
  PROVE  TypeOK'
<1>0. /\ Plain /\ Functions /\ Orders /\ Flags /\ Servers /\ stale \subseteq HaveCopy
      /\ client[c] \in ClientStates
  BY Parts DEF Functions
<1>1. CASE StartClient(c)
  <2>1. Plain' /\ tool' = tool /\ stale' \subseteq stale /\ client[c].at = "off"
    BY <1>0, <1>1 DEF StartClient, Plain
  <2>2. QED
    BY <1>0, <1>1, <2>1, StartClientEffect, ForwardType DEF Functions, Flags
<1>2. CASE Acquire(c)
  <2>1. Plain' /\ tool' = tool /\ stale' = stale /\ client[c].at = "checked"
    BY <1>0, <1>2 DEF Acquire, Plain
  <2>2. QED
    BY <1>0, <1>2, <2>1, AcquireEffect, ForwardType DEF Functions, Flags, SameBut
<1>3. CASE AcquireFails(c)
  <2>1. Plain' /\ tool' = tool /\ stale' = stale \ {c} /\ client[c].at = "checked"
    BY <1>0, <1>3 DEF AcquireFails, Forget, Plain
  <2>2. \A t \in Tools : tool[t].server # c
    BY <1>0, <2>1, DataDirAssumption DEF Servers, Running, Saving
  <2>3. QED
    BY <1>0, <1>3, <2>1, <2>2, EndEffect, EndType DEF Functions
<1>4. CASE OpenStore(c)
  <2>1. Plain' /\ tool' = tool /\ stale' \subseteq stale /\ client[c].at = "locked"
    BY <1>0, <1>4 DEF OpenStore, Plain
  <2>2. QED
    BY <1>0, <1>4, <2>1, OpenStoreEffect, ForwardType DEF Functions, Flags
<1>5. CASE Serve(c)
  <2>1. Plain' /\ tool' = tool /\ stale' = stale /\ client[c].at = "running"
    BY <1>0, <1>5 DEF Serve, Plain
  <2>2. QED
    BY <1>0, <1>5, <2>1, ServeEffect, ForwardType DEF Functions, Flags
<1>6. ASSUME NEW k \in Keys \cup {None}, SaveOrFail(c, k), tool' = tool
      PROVE  TypeOK'
  <2>1. Plain' /\ stale' \subseteq stale \cup HaveCopy \cup {c} /\ client[c].at = "running"
    BY <1>0, <1>6
       DEF SaveOrFail, Save, SaveFails, Changes, Loses, Truncate, Overwritten, Plain
  <2>2. /\ ClientGoes(c, "running") /\ client'[c].ipc = client[c].ipc
        /\ client[c].saving => client'[c].saving
    BY <1>6, SaveEffect, SaveFailsEffect DEF SaveOrFail
  <2>3. QED
    BY <1>0, <1>6, <2>1, <2>2, ForwardType DEF Functions, Flags
<1>7. CASE SaveEnds(c) \/ SaveBreaks(c)
  BY <1>7, SaveEndsType
<1>8. CASE Quit(c)
  <2>1. Plain' /\ tool' = Cut(c) /\ stale' = stale \ {c}
    BY <1>0, <1>8 DEF Quit, Released, Loses, Forget, Plain
  <2>2. QED
    BY <1>8, <2>1, EndEffect, CutEffect, EndType
<1>9. CASE Kill(c)
  <2>1. Plain' /\ tool' = Cut(c) /\ stale' = stale \ {c}
    BY <1>0, <1>9 DEF Kill, Loses, Forget, Plain
  <2>2. QED
    BY <1>9, <2>1, EndEffect, CutEffect, EndType
<1>10. ASSUME NEW k \in Keys, SetSeed(c, k)
       PROVE  TypeOK'
  <2>1. Plain' /\ tool' = tool /\ stale' = stale /\ client[c].at = "running"
    BY <1>0, <1>10 DEF SetSeed, Plain
  <2>2. QED
    BY <1>0, <1>10, <2>1, SetSeedEffect, ForwardType DEF Functions, Flags
<1>11. QED
  BY <1>1, <1>2, <1>3, <1>4, <1>5, <1>6, <1>7, <1>8, <1>9, <1>10 DEF Update, AddScanned

\* The actions of a short process keep the types.
LEMMA ToolStepType ==
  ASSUME TypeOK, NEW t \in Tools,
         \/ NobodyListens(t) \/ EmptyAnswer(t) \/ GiveUp(t) \/ OpenDirectly(t)
         \/ AddKnown(t) \/ AddBegins(t) \/ WriteEnds(t) \/ ImportEnds(t) \/ KillTool(t)
         \/ \E k \in Keys : FriendAdd(t, k) \/ HandleLink(t, k) \/ Import(t, k)
         \/ \E friends \in SUBSET Keys : Restore(t, friends)
         \/ \E c \in Clients : Forward(t, c) \/ ServeKnown(c, t) \/ ServeAdd(c, t)
  PROVE  TypeOK'
<1>0. /\ Plain /\ Functions /\ Orders /\ Flags /\ Servers /\ stale \subseteq HaveCopy
      /\ tool[t] \in ToolStates
      /\ t \in stale => tool[t].at = "opened" \/ (tool[t].at = "truncated" /\ tool[t].op # "import")
  BY Parts, DataDirAssumption DEF Functions, HaveCopy, Filling
<1>1. CASE NobodyListens(t)
  <2>1. Plain' /\ client' = client /\ stale' = stale /\ tool[t].at = "asking"
    BY <1>0, <1>1 DEF NobodyListens, Plain
  <2>2. QED
    BY <1>0, <1>1, <2>1, ToolGoesOn, ToolType DEF Servers, Orders, SameOrder
<1>2. CASE EmptyAnswer(t) \/ AddKnown(t) \/ WriteEnds(t) \/ ImportEnds(t) \/ KillTool(t)
  <2>1. Plain' /\ client' = client
    BY <1>0, <1>2
       DEF EmptyAnswer, AddKnown, WriteEnds, ImportEnds, KillTool, Fill, Loses, ToolStates,
           Plain, Orders
  <2>2. stale' \subseteq stale \cup HaveCopy /\ t \notin stale'
    BY <1>0, <1>2
       DEF EmptyAnswer, AddKnown, WriteEnds, ImportEnds, KillTool, Fill, Forget, Overwritten
  <2>3. QED
    BY <1>2, <2>1, <2>2, ToolEnds, ToolType
<1>3. CASE GiveUp(t)
  <2>1. Plain' /\ client' = client /\ stale' = stale /\ tool[t].at \notin {"opened", "truncated"}
    BY <1>0, <1>3 DEF GiveUp, Plain
  <2>2. QED
    BY <1>0, <1>3, <2>1, ToolEnds, ToolType DEF Servers, Orders, SameOrder
<1>4. CASE OpenDirectly(t)
  <2>1. Plain' /\ client' = client /\ stale' \subseteq stale /\ tool[t].at = "direct"
    BY <1>0, <1>4 DEF OpenDirectly, Plain
  <2>2. QED
    BY <1>0, <1>4, <2>1, ToolGoesOn, ToolType DEF Servers, Orders, SameOrder
<1>5. CASE AddBegins(t)
  <2>1. /\ Plain' /\ client' = client /\ tool[t].at = "opened"
        /\ stale' \subseteq stale \cup HaveCopy /\ t \notin stale'
    BY <1>0, <1>5 DEF AddBegins, Truncate, Loses, Overwritten, Plain
  <2>2. QED
    BY <1>0, <1>5, <2>1, ToolGoesOn, ToolType DEF Servers, Orders, SameOrder
<1>6. ASSUME NEW k \in Keys, FriendAdd(t, k)
      PROVE  TypeOK'
  <2>1. Plain' /\ client' = client /\ stale' \subseteq stale
    BY <1>0, <1>6 DEF FriendAdd, Plain
  <2>2. QED
    BY <1>6, <2>1, ToolStarts, ToolType
<1>7. ASSUME NEW k \in Keys, HandleLink(t, k)
      PROVE  TypeOK'
  <2>1. Plain' /\ client' = client /\ stale' = stale /\ tool[t].at = "off"
    BY <1>0, <1>7 DEF HandleLink, Plain
  <2>2. QED
    BY <1>0, <1>7, <2>1, ToolStarts, ToolType
<1>8. ASSUME NEW k \in Keys, Import(t, k)
      PROVE  TypeOK'
  <2>1. Plain' /\ client' = client /\ stale' = stale /\ tool[t].at = "off"
    BY <1>0, <1>8 DEF Import, Plain
  <2>2. QED
    BY <1>0, <1>8, <2>1, ToolStarts, ToolType
<1>9. ASSUME NEW friends \in SUBSET Keys, Restore(t, friends)
      PROVE  TypeOK'
  <2>1. /\ Plain' /\ client' = client /\ tool[t].at = "off"
        /\ stale' \subseteq stale \cup HaveCopy /\ t \notin stale'
    BY <1>0, <1>9 DEF Restore, Truncate, Loses, Overwritten, Plain
  <2>2. QED
    BY <1>0, <1>9, <2>1, ToolStarts, ToolType
<1>10. ASSUME NEW c \in Clients, Forward(t, c)
       PROVE  TypeOK'
  <2>1. Plain' /\ client' = client /\ stale' = stale /\ tool[t].at = "asking" /\ client[c].ipc
    BY <1>0, <1>10 DEF Forward, Plain
  <2>2. c \in Running
    BY <1>0, <2>1 DEF Flags, Running
  <2>3. QED
    BY <1>0, <1>10, <2>1, <2>2, ToolGoesOn, ToolType DEF Orders, SameOrder
<1>11. ASSUME NEW c \in Clients, ServeKnown(c, t)
       PROVE  TypeOK'
  <2>1. Plain' /\ client' = client /\ stale' = stale /\ tool[t].at \notin {"opened", "truncated"}
    BY <1>0, <1>11 DEF ServeKnown, Plain, Functions, ClientStates
  <2>2. QED
    BY <1>0, <1>11, <2>1, ToolEnds, ToolType
<1>12. ASSUME NEW c \in Clients, ServeAdd(c, t)
       PROVE  TypeOK'
  <2>1. SaveOrFail(c, tool[t].key) /\ tool[t].key \in Keys
    BY <1>0, <1>12 DEF ServeAdd, SaveOrFail, Orders
  <2>2. /\ Plain' /\ client[c].at = "running" /\ tool[t].at \notin {"opened", "truncated"}
        /\ stale' \subseteq stale \cup HaveCopy \cup {c}
    BY <1>0, <1>12, <2>1
       DEF ServeAdd, SaveOrFail, Save, SaveFails, Changes, Loses, Truncate, Overwritten, Plain
  <2>3. t \notin stale'
    BY <1>0, <2>2, DataDirAssumption DEF HaveCopy, Filling
  <2>4. tool' \in [Tools -> ToolStates] /\ \A u \in Tools \ {t} : tool'[u] = tool[u]
    BY <1>12, ToolEnds DEF ToolGoes
  <2>5. /\ ClientGoes(c, "running") /\ client'[c].ipc = client[c].ipc
        /\ client[c].saving => client'[c].saving
    BY <2>1, SaveEffect, SaveFailsEffect DEF SaveOrFail
  <2>6. CASE Becomes(t, NotStarted)
    <3>1. tool'[t].at = "off" /\ tool'[t].server = None
      BY <1>0, <2>6 DEF Becomes, NotStarted, Functions
    <3>2. QED
      BY <1>0, <2>2, <2>3, <2>4, <2>5, <3>1, ForwardType DEF Flags
  <2>7. CASE Save(c, tool[t].key)
    <3>1. client'[c].saving
      BY <2>1, <2>7, SaveEffect
    <3>2. \/ tool'[t].at = "off" /\ tool'[t].server = None
          \/ tool'[t].at = "served" /\ tool'[t].server = c /\ tool'[t].key \in Keys
      BY <1>12, <2>1, ToolEnds DEF ToolGoes, SameOrder
    <3>3. QED
      BY <1>0, <2>2, <2>3, <2>4, <2>5, <3>1, <3>2, ForwardType
  <2>8. QED
    BY <1>12, <2>6, <2>7 DEF ServeAdd
<1>13. QED
  BY <1>1, <1>2, <1>3, <1>4, <1>5, <1>6, <1>7, <1>8, <1>9, <1>10, <1>11, <1>12

\* Every step keeps the types.
LEMMA TypeStep ==
  ASSUME TypeOK, [Next]_vars
  PROVE  TypeOK'
<1>1. CASE DeleteLock
  BY <1>1 DEF DeleteLock, TypeOK, HaveCopy, Filling, Running, Saving
<1>2. CASE UNCHANGED vars
  BY <1>2 DEF vars, TypeOK, HaveCopy, Filling, Running, Saving
<1>3. QED
  BY <1>1, <1>2, ClientType, ToolStepType DEF Next

\* No run is served by, and no process keeps a copy in, a program that has ended.
THEOREM TypeCorrect == Spec => []TypeOK
BY InitType, TypeStep, PTL DEF Spec

-----------------------------------------------------------------------------
(* The lock.                                                               *)

\* Who holds the data directory has the lock, alone; a lock that nobody holds is a killed
\* run's.
LockInv ==
  /\ Holders # {} => lockFile
  /\ OneClient
  /\ LockResidueNeedsKill

\* Most steps do not change who holds the data directory.
LEMMA SameHolders ==
  ASSUME LockInv, Holders' = Holders, UNCHANGED <<lockFile, killed>>
  PROVE  LockInv'
BY DEF LockInv, OneClient, LockResidueNeedsKill

\* A step of one run changes only whether that run has the data directory.
LEMMA HoldersOfOthers ==
  ASSUME NEW c \in Clients, NEW at, ClientGoes(c, at)
  PROVE  Holders' = IF at \in {"locked", "running"} THEN Holders \cup {c} ELSE Holders \ {c}
BY DEF Holders, ClientGoes

\* Every step keeps LockInv: Acquire finds no lock, so nobody has the directory.
LEMMA LockStep ==
  ASSUME TypeOK, LockInv, [Next]_vars
  PROVE  LockInv'
<1>1. ASSUME NEW c \in Clients, StartClient(c)
      PROVE  LockInv'
  <2>1. client[c].at = "off" /\ UNCHANGED <<lockFile, killed>>
    BY <1>1 DEF StartClient
  <2>2. QED
    BY <1>1, <2>1, StartClientEffect, HoldersOfOthers, SameHolders DEF Holders
<1>2. ASSUME NEW c \in Clients, Acquire(c)
      PROVE  LockInv'
  <2>1. ~lockFile /\ lockFile' /\ killed' = killed
    BY <1>2 DEF Acquire, LockFree
  <2>2. Holders = {} /\ Holders' = {c}
    BY <1>2, <2>1, AcquireEffect, HoldersOfOthers DEF LockInv
  <2>3. QED
    BY <2>1, <2>2 DEF LockInv, OneClient, LockResidueNeedsKill
<1>3. ASSUME NEW c \in Clients, AcquireFails(c)
      PROVE  LockInv'
  <2>1. client[c].at = "checked" /\ UNCHANGED <<lockFile, killed>>
    BY <1>3 DEF AcquireFails
  <2>2. QED
    BY <1>3, <2>1, EndEffect, HoldersOfOthers, SameHolders DEF Holders
<1>4. ASSUME NEW c \in Clients, Quit(c)
      PROVE  LockInv'
  <2>1. c \in Holders /\ lockFile' = FALSE
    BY <1>4 DEF Quit, Released, Holders
  <2>2. Holders' = {}
    BY <1>4, <2>1, EndEffect, HoldersOfOthers DEF LockInv, OneClient
  <2>3. QED
    BY <2>1, <2>2 DEF LockInv, OneClient, LockResidueNeedsKill
<1>5. ASSUME NEW c \in Clients, Kill(c)
      PROVE  LockInv'
  <2>1. killed' = (killed \/ c \in Holders) /\ lockFile' = lockFile
    BY <1>5 DEF Kill
  <2>2. Holders' = Holders \ {c}
    BY <1>5, EndEffect, HoldersOfOthers
  <2>3. QED
    BY <2>1, <2>2 DEF LockInv, OneClient, LockResidueNeedsKill
<1>6. ASSUME DeleteLock
      PROVE  LockInv'
  <2>1. Holders = {} /\ Holders' = {} /\ lockFile' = FALSE
    BY <1>6 DEF DeleteLock, Holders
  <2>2. QED
    BY <2>1 DEF LockInv, OneClient, LockResidueNeedsKill
<1>7. ASSUME NEW c \in Clients, OpenStore(c)
      PROVE  LockInv'
  <2>1. client[c].at = "locked" /\ UNCHANGED <<lockFile, killed>>
    BY <1>7 DEF OpenStore
  <2>2. QED
    BY <1>7, <2>1, OpenStoreEffect, HoldersOfOthers, SameHolders DEF Holders
<1>8. ASSUME NEW c \in Clients, Serve(c)
      PROVE  LockInv'
  <2>1. client[c].at = "running" /\ UNCHANGED <<lockFile, killed>>
    BY <1>8 DEF Serve
  <2>2. QED
    BY <1>8, <2>1, ServeEffect, HoldersOfOthers, SameHolders DEF Holders
<1>9. ASSUME NEW c \in Clients, NEW k \in Keys \cup {None}, SaveOrFail(c, k)
      PROVE  LockInv'
  <2>1. client[c].at = "running" /\ UNCHANGED <<lockFile, killed>>
    BY <1>9 DEF SaveOrFail, Save, SaveFails, Changes
  <2>2. ClientGoes(c, "running")
    BY <1>9, SaveEffect, SaveFailsEffect DEF SaveOrFail
  <2>3. QED
    BY <2>1, <2>2, HoldersOfOthers, SameHolders DEF Holders
<1>10. ASSUME NEW c \in Clients, SaveEnds(c) \/ SaveBreaks(c)
       PROVE  LockInv'
  <2>1. client[c].at = "running" /\ UNCHANGED <<lockFile, killed>>
    BY <1>10 DEF SaveEnds, SaveBreaks, TypeOK
  <2>2. QED
    BY <1>10, <2>1, SaveEndsEffect, SaveBreaksEffect, HoldersOfOthers, SameHolders DEF Holders
<1>11. ASSUME NEW c \in Clients, NEW k \in Keys, SetSeed(c, k)
       PROVE  LockInv'
  <2>1. client[c].at = "running" /\ UNCHANGED <<lockFile, killed>>
    BY <1>11 DEF SetSeed
  <2>2. QED
    BY <1>11, <2>1, SetSeedEffect, HoldersOfOthers, SameHolders DEF Holders
<1>12. ASSUME UNCHANGED <<client, lockFile, killed>>
       PROVE  LockInv'
  BY <1>12, SameHolders DEF Holders
<1>13. ASSUME NEW t \in Tools, NEW c \in Clients, ServeAdd(c, t)
       PROVE  LockInv'
  BY <1>9, <1>13 DEF ServeAdd, SaveOrFail, TypeOK, ToolStates
<1>14. ASSUME NEW t \in Tools,
              \/ NobodyListens(t) \/ EmptyAnswer(t) \/ GiveUp(t) \/ OpenDirectly(t)
              \/ AddKnown(t) \/ AddBegins(t) \/ WriteEnds(t) \/ ImportEnds(t) \/ KillTool(t)
              \/ \E k \in Keys : FriendAdd(t, k) \/ HandleLink(t, k) \/ Import(t, k)
              \/ \E friends \in SUBSET Keys : Restore(t, friends)
              \/ \E c \in Clients : Forward(t, c) \/ ServeKnown(c, t)
       PROVE  UNCHANGED <<client, lockFile, killed>>
  BY <1>14
     DEF NobodyListens, EmptyAnswer, GiveUp, OpenDirectly, AddKnown, AddBegins, WriteEnds,
         ImportEnds, KillTool, FriendAdd, HandleLink, Import, Restore, Forward, ServeKnown
<1>15. QED
  BY <1>1, <1>2, <1>3, <1>4, <1>5, <1>6, <1>7, <1>8, <1>9, <1>10, <1>11, <1>12, <1>13, <1>14
     DEF Next, vars, Update, AddScanned

\* At first there is neither lock nor program.
LEMMA LockInit == Init => LockInv
BY DEF Init, LockInv, OneClient, LockResidueNeedsKill, Holders, NotRunning

\* Two runs of the program never have the data directory at once.
THEOREM OneRun == Spec => []OneClient
<1>1. TypeOK /\ LockInv /\ [Next]_vars => TypeOK' /\ LockInv'
  BY TypeStep, LockStep
<1>2. LockInv => OneClient
  BY DEF LockInv
<1>3. QED
  BY <1>1, <1>2, InitType, LockInit, PTL DEF Spec

\* A refused start and an orderly end leave no lock behind.
THEOREM LockIsReleased == Spec => []LockResidueNeedsKill
<1>1. TypeOK /\ LockInv /\ [Next]_vars => TypeOK' /\ LockInv'
  BY TypeStep, LockStep
<1>2. LockInv => LockResidueNeedsKill
  BY DEF LockInv
<1>3. QED
  BY <1>1, <1>2, InitType, LockInit, PTL DEF Spec

-----------------------------------------------------------------------------
(* The friends.                                                            *)

Writers == Saving \cup Filling

\* Who writes from an up-to-date copy finds the file as it truncated it.
FileIsEmpty == \A p \in Writers \ stale : friendsFile = {}

\* An up-to-date copy of a short process is what is on disk.
ReadIsOnDisk ==
  \A t \in Tools : tool[t].at = "opened" /\ t \notin stale => tool[t].read = friendsFile

\* What is being added is in what is being written.
AddedIsWritten ==
  /\ \A c \in Saving : client[c].adding = None \/ client[c].adding \in client[c].mem
  /\ \A t \in Filling : tool[t].key = None \/ tool[t].key \in tool[t].read

KeptInv == FriendsKept /\ StoreOnDisk /\ FileIsEmpty /\ ReadIsOnDisk /\ AddedIsWritten

\* At first there is nothing to keep.
LEMMA KeptInit == Init => KeptInv
<1>1. Init => Running = {} /\ Saving = {} /\ Filling = {}
  BY DEF Init, Running, Saving, Filling, NotRunning, NotStarted
<1>2. Init => \A t \in Tools : tool[t].at = "off"
  BY DEF Init, NotStarted
<1>3. QED
  BY <1>1, <1>2
     DEF Init, KeptInv, FriendsKept, StoreOnDisk, FileIsEmpty, ReadIsOnDisk, AddedIsWritten,
         Writers

\* A step that Loses names keeps what is told held; any other has to keep what is held.
LEMMA LosesKeeps ==
  ASSUME FriendsKept, NEW happens, Loses(happens), ~happens => Held \subseteq Held'
  PROVE  FriendsKept'
BY DEF FriendsKept, Loses

\* Every copy but the writer's own is old when the file has been written.
LEMMA OthersStale ==
  ASSUME NEW p, Overwritten(p)
  PROVE  HaveCopy \ {p} \subseteq stale' /\ p \notin stale'
BY DEF Overwritten

\* What is held after a step of one run of the program.
LEMMA ClientHolds ==
  ASSUME NEW c \in Clients, NEW at, ClientGoes(c, at),
         friendsFile \subseteq
            friendsFile' \cup (IF at = "running" THEN client'[c].mem ELSE {}),
         c \in Running =>
            client[c].mem \subseteq
              friendsFile' \cup (IF at = "running" THEN client'[c].mem ELSE {}),
         \A t \in Filling : tool'[t] = tool[t]
  PROVE  Held \subseteq Held'
<1>1. \A d \in Running \ {c} : d \in Running' /\ client'[d].mem = client[d].mem
  BY DEF ClientGoes, Running
<1>2. at = "running" => c \in Running'
  BY DEF ClientGoes, Running
<1>3. \A t \in Filling : t \in Filling' /\ tool'[t].read = tool[t].read
  BY DEF Filling
<1>4. QED
  BY <1>1, <1>2, <1>3 DEF Held

\* What is held after a step of a short process.
LEMMA ToolHolds ==
  ASSUME client' = client, NEW t \in Tools, NEW at, ToolGoes(t, at),
         friendsFile \subseteq friendsFile' \cup (IF t \in Filling' THEN tool'[t].read ELSE {}),
         t \in Filling => tool[t].read \subseteq friendsFile'
  PROVE  Held \subseteq Held'
<1>1. Running' = Running
  BY DEF Running
<1>2. \A u \in Filling \ {t} : u \in Filling' /\ tool'[u].read = tool[u].read
  BY DEF Filling, ToolGoes
<1>3. QED
  BY <1>1, <1>2 DEF Held

\* The parts of KeptInv after a step of one run of the program.
LEMMA ClientKept ==
  ASSUME TypeOK, KeptInv, NEW c \in Clients, NEW at, ClientGoes(c, at), FriendsKept',
         \A t \in Tools : \/ tool'[t] = tool[t]
                          \/ tool'[t].at \notin {"opened", "truncated"},
         \/ UNCHANGED friendsFile /\ (stale' = stale \/ stale' = stale \ {c})
         \/ Overwritten(c),
         c \in Saving' =>
           /\ c \in stale' \/ friendsFile' = {}
           /\ client'[c].adding = None \/ client'[c].adding \in client'[c].mem,
         c \in Running' /\ c \notin stale' /\ ~client'[c].saving =>
           /\ friendsFile' \subseteq client'[c].mem
           /\ ~client'[c].unsaved => friendsFile' = client'[c].mem
  PROVE  KeptInv'
<1>1. \A d \in Clients \ {c} : client'[d] = client[d]
  BY DEF ClientGoes
<1>2. \A d \in Clients \ {c} : client[d].at # "off" =>
         \/ d \in stale'
         \/ UNCHANGED friendsFile /\ d \notin stale
  BY OthersStale DEF HaveCopy
<1>3. \A t \in Tools : t # c
  BY DataDirAssumption
<1>4. \A t \in Tools : tool[t].at = "opened" \/ t \in Filling =>
         \/ t \in stale'
         \/ UNCHANGED friendsFile /\ t \notin stale
  BY <1>3, OthersStale DEF HaveCopy
<1>5. \A t \in Filling' : t \in Filling /\ tool'[t] = tool[t]
  BY DEF Filling
<1>6. \A d \in Running' \ {c} : d \in Running /\ client[d].at # "off"
  BY <1>1 DEF Running
<1>7. \A d \in Saving' \ {c} : d \in Saving /\ client[d].at # "off"
  BY <1>1 DEF Running, Saving
<1>8. StoreOnDisk'
  BY <1>1, <1>2, <1>6 DEF KeptInv, StoreOnDisk, Running
<1>9. FileIsEmpty'
  <2>1. ASSUME NEW p \in Writers' \ stale'
        PROVE  friendsFile' = {}
    <3>1. CASE p = c
      BY <1>3, <2>1, <3>1 DEF Writers, Filling
    <3>2. CASE p # c
      <4>1. p \in Writers /\ UNCHANGED friendsFile /\ p \notin stale
        BY <1>2, <1>4, <1>5, <1>7, <2>1, <3>2 DEF Writers, Filling, Saving, Running
      <4>2. QED
        BY <4>1 DEF KeptInv, FileIsEmpty
    <3>3. QED
      BY <3>1, <3>2
  <2>2. QED
    BY <2>1 DEF FileIsEmpty
<1>10. ReadIsOnDisk'
  BY <1>4 DEF KeptInv, ReadIsOnDisk
<1>11. AddedIsWritten'
  BY <1>1, <1>5, <1>7 DEF KeptInv, AddedIsWritten, Saving, Running
<1>12. QED
  BY <1>8, <1>9, <1>10, <1>11 DEF KeptInv

\* The parts of KeptInv after a step of a short process.
LEMMA ToolKept ==
  ASSUME TypeOK, KeptInv, client' = client, NEW t \in Tools, NEW at, ToolGoes(t, at), FriendsKept',
         \/ UNCHANGED friendsFile /\ (stale' = stale \/ stale' = stale \ {t})
         \/ Overwritten(t),
         t \in Filling' =>
           /\ t \in stale' \/ friendsFile' = {}
           /\ tool'[t].key = None \/ tool'[t].key \in tool'[t].read,
         at = "opened" /\ t \notin stale' => tool'[t].read = friendsFile'
  PROVE  KeptInv'
<1>1. \A u \in Tools \ {t} : tool'[u] = tool[u]
  BY DEF ToolGoes
<1>2. \A c \in Clients : c # t
  BY DataDirAssumption
<1>3. \A c \in Clients : client[c].at # "off" =>
         \/ c \in stale'
         \/ UNCHANGED friendsFile /\ c \notin stale
  BY <1>2, OthersStale DEF HaveCopy
<1>4. \A u \in Tools \ {t} : tool[u].at = "opened" \/ u \in Filling =>
         \/ u \in stale'
         \/ UNCHANGED friendsFile /\ u \notin stale
  BY OthersStale DEF HaveCopy
<1>5. \A u \in Filling' \ {t} : u \in Filling
  BY <1>1 DEF Filling
<1>6. Running' = Running /\ Saving' = Saving /\ \A c \in Running : client[c].at # "off"
  BY DEF Running, Saving
<1>7. StoreOnDisk'
  BY <1>3, <1>6 DEF KeptInv, StoreOnDisk, Running
<1>8. FileIsEmpty'
  <2>1. ASSUME NEW p \in Writers' \ stale'
        PROVE  friendsFile' = {}
    <3>1. CASE p = t
      BY <1>2, <1>6, <2>1, <3>1 DEF Writers, Saving, Running
    <3>2. CASE p # t
      <4>1. p \in Writers /\ UNCHANGED friendsFile /\ p \notin stale
        BY <1>3, <1>4, <1>5, <1>6, <2>1, <3>2 DEF Writers, Filling, Saving, Running
      <4>2. QED
        BY <4>1 DEF KeptInv, FileIsEmpty
    <3>3. QED
      BY <3>1, <3>2
  <2>2. QED
    BY <2>1 DEF FileIsEmpty
<1>9. ReadIsOnDisk'
  BY <1>1, <1>4 DEF KeptInv, ReadIsOnDisk, ToolGoes
<1>10. AddedIsWritten'
  <2>1. \A d \in Saving' : client'[d].adding = None \/ client'[d].adding \in client'[d].mem
    BY <1>6 DEF KeptInv, AddedIsWritten
  <2>2. \A u \in Filling' : tool'[u].key = None \/ tool'[u].key \in tool'[u].read
    BY <1>1, <1>5 DEF KeptInv, AddedIsWritten, Filling
  <2>3. QED
    BY <2>1, <2>2 DEF AddedIsWritten
<1>11. QED
  BY <1>7, <1>8, <1>9, <1>10 DEF KeptInv

\* The steps of a run of the program that leave friends.toml and what is told alone.
LEMMA QuietClientKept ==
  ASSUME TypeOK, KeptInv, NEW c \in Clients,
         \/ StartClient(c) \/ Acquire(c) \/ AcquireFails(c) \/ OpenStore(c) \/ Serve(c)
         \/ \E k \in Keys : SetSeed(c, k)
  PROVE  KeptInv'
<1>0. FriendsKept /\ StoreOnDisk /\ FileIsEmpty /\ AddedIsWritten
  BY DEF KeptInv
<1>1. ASSUME StartClient(c) \/ Acquire(c) \/ AcquireFails(c)
      PROVE  KeptInv'
  <2>1. /\ c \notin Running /\ UNCHANGED <<friendsFile, tool, told>>
        /\ stale' = stale \/ stale' = stale \ {c}
    BY <1>1 DEF StartClient, Acquire, AcquireFails, Forget, Running
  <2>2. PICK at \in {"off", "checked", "locked"} : ClientGoes(c, at) /\ c \notin Running'
    BY <1>1, StartClientEffect, AcquireEffect, EndEffect DEF ClientGoes, Running
  <2>3. Held \subseteq Held'
    BY <2>1, <2>2, ClientHolds
  <2>4. FriendsKept'
    BY <1>0, <2>1, <2>3 DEF FriendsKept
  <2>5. QED
    BY <2>1, <2>2, <2>4, ClientKept DEF Saving
<1>2. CASE OpenStore(c)
  <2>1. UNCHANGED <<friendsFile, tool, told>> /\ stale' = stale \ {c} /\ c \notin Running
    BY <1>2 DEF OpenStore, Running
  <2>2. ClientGoes(c, "running") /\ client'[c].mem = friendsFile /\ ~client'[c].saving
    BY <1>2, OpenStoreEffect
  <2>3. Held \subseteq Held'
    BY <2>1, <2>2, ClientHolds
  <2>4. FriendsKept'
    BY <1>0, <2>1, <2>3 DEF FriendsKept
  <2>5. QED
    BY <2>1, <2>2, <2>4, ClientKept DEF Saving
<1>3. ASSUME Serve(c) \/ \E k \in Keys : SetSeed(c, k)
      PROVE  KeptInv'
  <2>1. UNCHANGED <<friendsFile, tool, told, stale>> /\ c \in Running
    BY <1>3 DEF Serve, SetSeed, Running
  <2>2. /\ ClientGoes(c, "running") /\ client'[c].mem = client[c].mem
        /\ client'[c].saving = client[c].saving /\ client'[c].adding = client[c].adding
        /\ client'[c].unsaved = client[c].unsaved
    BY <1>3, ServeEffect, SetSeedEffect
  <2>3. Held \subseteq Held'
    BY <2>1, <2>2, ClientHolds
  <2>4. FriendsKept'
    BY <1>0, <2>1, <2>3 DEF FriendsKept
  <2>5. c \in Saving' => c \in Saving
    BY <2>1, <2>2 DEF Saving
  <2>6. c \in Saving' => c \in stale' \/ friendsFile' = {}
    BY <1>0, <2>1, <2>5 DEF FileIsEmpty, Writers
  <2>7. c \in Saving' => client'[c].adding = None \/ client'[c].adding \in client'[c].mem
    BY <1>0, <2>2, <2>5 DEF AddedIsWritten
  <2>8. c \notin stale' /\ ~client'[c].saving =>
           /\ friendsFile' \subseteq client'[c].mem
           /\ ~client'[c].unsaved => friendsFile' = client'[c].mem
    BY <1>0, <2>1, <2>2 DEF StoreOnDisk
  <2>9. QED
    BY <2>1, <2>2, <2>4, <2>6, <2>7, <2>8, ClientKept
<1>4. QED
  BY <1>1, <1>2, <1>3

\* A change of the list: it begins to write, or fails to.
LEMMA SaveKept ==
  ASSUME TypeOK, KeptInv, NEW c \in Clients, NEW k \in Keys \cup {None}, SaveOrFail(c, k),
         \A t \in Tools : \/ tool'[t] = tool[t]
                          \/ /\ tool[t].at \notin {"opened", "truncated"}
                             /\ tool'[t].at \notin {"opened", "truncated"}
  PROVE  KeptInv'
<1>0. /\ FriendsKept /\ StoreOnDisk /\ c \in Running /\ ~client[c].saving
      /\ client[c].mem \subseteq Added(client[c].mem, k)
      /\ k = None \/ k \in Added(client[c].mem, k)
  BY DEF KeptInv, SaveOrFail, Save, SaveFails, Changes, Running, Added
<1>1. \A t \in Filling : tool'[t] = tool[t]
  BY DEF Filling
<1>2. \A t \in Tools : tool'[t] = tool[t] \/ tool'[t].at \notin {"opened", "truncated"}
  OBVIOUS
<1>3. CASE Save(c, k)
  <2>1. friendsFile' = {} /\ Overwritten(c) /\ Loses(c \in stale)
    BY <1>3 DEF Save, Truncate
  <2>2. /\ ClientGoes(c, "running") /\ client'[c].mem = Added(client[c].mem, k)
        /\ client'[c].saving /\ client'[c].adding = k
    BY <1>3, SaveEffect
  <2>3. c \notin stale => Held \subseteq Held'
    BY <1>0, <1>1, <2>1, <2>2, ClientHolds DEF StoreOnDisk
  <2>4. FriendsKept'
    BY <1>0, <2>1, <2>3, LosesKeeps
  <2>5. QED
    BY <1>0, <1>2, <2>1, <2>2, <2>4, ClientKept
<1>4. CASE SaveFails(c, k)
  <2>1. UNCHANGED <<friendsFile, stale, told>>
    BY <1>4 DEF SaveFails
  <2>2. /\ ClientGoes(c, "running") /\ client'[c].mem = Added(client[c].mem, k)
        /\ ~client'[c].saving /\ client'[c].unsaved
    BY <1>0, <1>4, SaveFailsEffect
  <2>3. Held \subseteq Held'
    BY <1>0, <1>1, <2>1, <2>2, ClientHolds
  <2>4. FriendsKept'
    BY <1>0, <2>1, <2>3 DEF FriendsKept
  <2>5. c \notin stale' => friendsFile' \subseteq client'[c].mem
    BY <1>0, <2>1, <2>2 DEF StoreOnDisk
  <2>6. QED
    BY <1>2, <2>1, <2>2, <2>4, <2>5, ClientKept DEF Saving
<1>5. QED
  BY <1>3, <1>4 DEF SaveOrFail

\* The list is on disk, or the write breaks off.
LEMMA SaveEndsKept ==
  ASSUME TypeOK, KeptInv, NEW c \in Clients, SaveEnds(c) \/ SaveBreaks(c)
  PROVE  KeptInv'
<1>0. /\ FriendsKept /\ FileIsEmpty /\ AddedIsWritten /\ c \in Saving /\ c \in Running
      /\ tool' = Answered(c)
  BY DEF KeptInv, SaveEnds, SaveBreaks, Saving, Running, TypeOK
<1>1. \A t \in Tools : tool'[t] = tool[t] \/ (tool[t].at = "served" /\ tool'[t].at = "off")
  BY <1>0, ServedEffect
<1>2. /\ \A t \in Filling : tool'[t] = tool[t]
      /\ \A t \in Tools : tool'[t] = tool[t] \/ tool'[t].at \notin {"opened", "truncated"}
  BY <1>1 DEF Filling
<1>3. CASE SaveEnds(c)
  <2>1. /\ friendsFile' = client[c].mem /\ Overwritten(c)
        /\ told' = (IF c \in stale THEN told \cap Held' ELSE told) \cup ({client[c].adding} \ {None})
    BY <1>3 DEF SaveEnds, Fill
  <2>2. ClientGoes(c, "running") /\ client'[c].mem = client[c].mem /\ ~client'[c].saving
    BY <1>3, SaveEndsEffect
  <2>3. c \notin stale => Held \subseteq Held'
    BY <1>0, <1>2, <2>1, <2>2, ClientHolds DEF FileIsEmpty, Writers
  <2>4. {client[c].adding} \ {None} \subseteq Held'
    BY <1>0, <2>1 DEF AddedIsWritten, Held
  <2>5. FriendsKept'
    BY <1>0, <2>1, <2>3, <2>4 DEF FriendsKept
  <2>6. QED
    BY <1>2, <2>1, <2>2, <2>5, ClientKept DEF Saving
<1>4. CASE SaveBreaks(c)
  <2>1. UNCHANGED <<friendsFile, stale, told>>
    BY <1>4 DEF SaveBreaks
  <2>2. /\ ClientGoes(c, "running") /\ client'[c].mem = client[c].mem
        /\ ~client'[c].saving /\ client'[c].unsaved
    BY <1>4, SaveBreaksEffect
  <2>3. Held \subseteq Held'
    BY <1>2, <2>1, <2>2, ClientHolds
  <2>4. FriendsKept'
    BY <1>0, <2>1, <2>3 DEF FriendsKept
  <2>5. c \notin stale' => friendsFile' = {}
    BY <1>0, <2>1 DEF FileIsEmpty, Writers
  <2>6. QED
    BY <1>2, <2>1, <2>2, <2>4, <2>5, ClientKept DEF Saving
<1>5. QED
  BY <1>3, <1>4

\* The program ends: its list is on disk, or the step is one of Loses.
LEMMA EndKept ==
  ASSUME TypeOK, KeptInv, NEW c \in Clients, Quit(c) \/ Kill(c)
  PROVE  KeptInv'
<1>0. FriendsKept /\ StoreOnDisk
  BY DEF KeptInv
<1>1. /\ UNCHANGED friendsFile /\ stale' = stale \ {c} /\ tool' = Cut(c)
      /\ ClientGoes(c, "off") /\ c \notin Running'
  BY EndEffect DEF Quit, Kill, Forget, ClientGoes, Running
<1>2. \A t \in Tools : \/ tool'[t] = tool[t]
                       \/ tool[t].server = c /\ tool'[t].at \notin {"opened", "truncated"}
  BY <1>1, CutEffect
<1>3. \A t \in Filling : tool'[t] = tool[t]
  BY <1>2, DataDirAssumption DEF TypeOK, Filling
<1>4. c \notin stale /\ ~client[c].unsaved /\ ~client[c].saving => Held \subseteq Held'
  BY <1>0, <1>1, <1>3, ClientHolds DEF StoreOnDisk
<1>5. FriendsKept'
  <2>1. CASE Quit(c)
    BY <1>0, <1>4, <2>1, LosesKeeps DEF Quit
  <2>2. CASE Kill(c)
    BY <1>0, <1>4, <2>2, LosesKeeps DEF Kill
  <2>3. QED
    BY <2>1, <2>2
<1>6. QED
  BY <1>1, <1>2, <1>5, ClientKept DEF Saving

\* A short process starts, reads or ends without touching friends.toml.
LEMMA QuietToolKept ==
  ASSUME TypeOK, KeptInv, NEW t \in Tools,
         \/ NobodyListens(t) \/ EmptyAnswer(t) \/ GiveUp(t) \/ OpenDirectly(t) \/ AddKnown(t)
         \/ ImportEnds(t) \/ KillTool(t)
         \/ \E k \in Keys : FriendAdd(t, k) \/ HandleLink(t, k) \/ Import(t, k)
         \/ \E c \in Clients : Forward(t, c) \/ ServeKnown(c, t)
  PROVE  KeptInv'
<1>0. FriendsKept /\ ReadIsOnDisk
  BY DEF KeptInv
<1>1. ASSUME OpenDirectly(t) \/ \E k \in Keys : FriendAdd(t, k)
      PROVE  KeptInv'
  <2>1. UNCHANGED <<friendsFile, client, told>> /\ stale' = stale \ {t} /\ t \notin Filling
    BY <1>1 DEF OpenDirectly, FriendAdd, Filling
  <2>2. ToolGoes(t, "opened") /\ tool'[t].read = friendsFile
    BY <1>1, ToolGoesOn, ToolStarts
  <2>3. Held \subseteq Held'
    BY <2>1, <2>2, ToolHolds
  <2>4. FriendsKept'
    BY <1>0, <2>1, <2>3 DEF FriendsKept
  <2>5. QED
    BY <2>1, <2>2, <2>4, ToolKept DEF ToolGoes, Filling
<1>2. ASSUME \/ NobodyListens(t) \/ EmptyAnswer(t) \/ GiveUp(t) \/ ImportEnds(t)
             \/ \E k \in Keys : HandleLink(t, k) \/ Import(t, k)
             \/ \E c \in Clients : Forward(t, c)
      PROVE  KeptInv'
  <2>1. UNCHANGED <<friendsFile, client, told, stale>> /\ t \notin Filling
    BY <1>2
       DEF NobodyListens, EmptyAnswer, GiveUp, ImportEnds, HandleLink, Import, Forward, Filling
  <2>2. \/ ToolGoes(t, "truncated") /\ tool'[t].op = "import"
        \/ \E at \in {"off", "asking", "waiting", "left", "direct"} : ToolGoes(t, at)
    BY <1>2, ToolGoesOn, ToolStarts, ToolEnds
  <2>3. PICK at \in {"off", "asking", "waiting", "left", "direct", "truncated"} :
           ToolGoes(t, at) /\ t \notin Filling'
    BY <2>2 DEF ToolGoes, Filling
  <2>4. Held \subseteq Held'
    BY <2>1, <2>3, ToolHolds
  <2>5. FriendsKept'
    BY <1>0, <2>1, <2>4 DEF FriendsKept
  <2>6. QED
    BY <2>1, <2>3, <2>5, ToolKept
<1>3. ASSUME \/ AddKnown(t) \/ KillTool(t)
             \/ \E c \in Clients : ServeKnown(c, t)
      PROVE  KeptInv'
  <2>1. /\ UNCHANGED <<friendsFile, client>>
        /\ stale' = stale \/ stale' = stale \ {t}
    BY <1>3 DEF AddKnown, KillTool, ServeKnown, Forget
  <2>2. ToolGoes(t, "off") /\ t \notin Filling'
    BY <1>3, ToolEnds DEF ToolGoes, Filling
  <2>3. t \notin Filling => Held \subseteq Held'
    BY <2>1, <2>2, ToolHolds
  <2>4. FriendsKept'
    <3>1. CASE KillTool(t)
      BY <1>0, <2>3, <3>1, LosesKeeps DEF KillTool
    <3>2. CASE AddKnown(t)
      <4>1. t \notin Filling /\ tool[t].at = "opened" /\ tool[t].key \in tool[t].read
        BY <3>2 DEF AddKnown, Filling
      <4>2. t \notin stale => tool[t].key \in Held
        BY <1>0, <4>1 DEF ReadIsOnDisk, Held
      <4>3. told' \subseteq Held
        BY <1>0, <3>2, <4>2 DEF AddKnown, FriendsKept
      <4>4. QED
        BY <2>3, <4>1, <4>3 DEF FriendsKept
    <3>3. ASSUME NEW c \in Clients, ServeKnown(c, t)
          PROVE  FriendsKept'
      <4>1. t \notin Filling /\ c \in Running /\ tool[t].key \in client[c].mem
        BY <3>3 DEF ServeKnown, Filling, Running
      <4>2. told' \subseteq Held
        BY <1>0, <3>3, <4>1 DEF ServeKnown, FriendsKept, Held
      <4>3. QED
        BY <2>3, <4>1, <4>2 DEF FriendsKept
    <3>4. QED
      BY <1>3, <3>1, <3>2, <3>3
  <2>5. QED
    BY <2>1, <2>2, <2>4, ToolKept
<1>4. QED
  BY <1>1, <1>2, <1>3

\* A short process that writes friends.toml.
LEMMA ToolWritesKept ==
  ASSUME TypeOK, KeptInv, NEW t \in Tools,
         \/ AddBegins(t) \/ WriteEnds(t)
         \/ \E friends \in SUBSET Keys : Restore(t, friends)
  PROVE  KeptInv'
<1>0. FriendsKept /\ ReadIsOnDisk /\ FileIsEmpty /\ AddedIsWritten
  BY DEF KeptInv
<1>1. CASE AddBegins(t)
  <2>1. /\ friendsFile' = {} /\ client' = client /\ Overwritten(t) /\ Loses(t \in stale)
        /\ t \notin Filling /\ tool[t].at = "opened" /\ tool[t].op \in {"add", "link"}
    BY <1>1 DEF AddBegins, Truncate, Filling
  <2>2. /\ ToolGoes(t, "truncated") /\ SameOrder(t)
        /\ tool'[t].read = Added(tool[t].read, tool[t].key)
    BY <1>1, ToolGoesOn
  <2>3. t \in Filling'
    BY <2>1, <2>2 DEF Filling, ToolGoes, SameOrder
  <2>4. t \notin stale => friendsFile \subseteq tool'[t].read
    BY <1>0, <2>1, <2>2 DEF ReadIsOnDisk, Added
  <2>5. t \notin stale => Held \subseteq Held'
    BY <2>1, <2>2, <2>3, <2>4, ToolHolds
  <2>6. FriendsKept'
    BY <1>0, <2>1, <2>5, LosesKeeps
  <2>7. tool'[t].key = None \/ tool'[t].key \in tool'[t].read
    BY <2>2 DEF SameOrder, Added
  <2>8. QED
    BY <2>1, <2>2, <2>6, <2>7, ToolKept
<1>2. ASSUME NEW friends \in SUBSET Keys, Restore(t, friends)
      PROVE  KeptInv'
  <2>1. friendsFile' = {} /\ client' = client /\ Overwritten(t) /\ Loses(TRUE)
    BY <1>2 DEF Restore, Truncate
  <2>2. ToolGoes(t, "truncated") /\ tool'[t].key = None
    BY <1>2, ToolStarts
  <2>3. FriendsKept'
    BY <1>0, <2>1, LosesKeeps
  <2>4. QED
    BY <2>1, <2>2, <2>3, ToolKept
<1>3. CASE WriteEnds(t)
  <2>1. /\ friendsFile' = tool[t].read /\ client' = client /\ Overwritten(t) /\ t \in Filling
        /\ told' = (IF t \in stale THEN told \cap Held' ELSE told) \cup ({tool[t].key} \ {None})
    BY <1>3 DEF WriteEnds, Fill
  <2>2. ToolGoes(t, "off") /\ t \notin Filling'
    BY <1>3, ToolEnds DEF ToolGoes, Filling
  <2>3. t \notin stale => Held \subseteq Held'
    BY <1>0, <2>1, <2>2, ToolHolds DEF FileIsEmpty, Writers
  <2>4. {tool[t].key} \ {None} \subseteq Held'
    BY <1>0, <2>1 DEF AddedIsWritten, Held
  <2>5. FriendsKept'
    BY <1>0, <2>1, <2>3, <2>4 DEF FriendsKept
  <2>6. QED
    BY <2>1, <2>2, <2>5, ToolKept
<1>4. QED
  BY <1>1, <1>2, <1>3

\* Every step keeps KeptInv.
LEMMA KeptStep ==
  ASSUME TypeOK, KeptInv, [Next]_vars
  PROVE  KeptInv'
<1>1. ASSUME NEW c \in Clients, Update(c) \/ \E k \in Keys : AddScanned(c, k)
      PROVE  KeptInv'
  <2>1. PICK k \in Keys \cup {None} : SaveOrFail(c, k) /\ tool' = tool
    BY <1>1 DEF Update, AddScanned
  <2>2. QED
    BY <2>1, SaveKept
<1>2. ASSUME NEW c \in Clients, NEW t \in Tools, ServeAdd(c, t)
      PROVE  KeptInv'
  <2>1. /\ SaveOrFail(c, tool[t].key) /\ tool[t].key \in Keys \cup {None}
        /\ tool[t].at \in {"waiting", "left"}
    BY <1>2 DEF ServeAdd, SaveOrFail, TypeOK, ToolStates
  <2>2. \A u \in Tools : \/ tool'[u] = tool[u]
                         \/ u = t /\ tool'[u].at \in {"off", "served"}
    BY <1>2, ToolEnds DEF ToolGoes
  <2>3. QED
    BY <2>1, <2>2, SaveKept
<1>3. ASSUME UNCHANGED <<friendsFile, client, tool, stale, told>>
      PROVE  KeptInv'
  BY <1>3
     DEF KeptInv, FriendsKept, Held, StoreOnDisk, FileIsEmpty, ReadIsOnDisk, AddedIsWritten,
         Writers, Saving, Running, Filling
<1>4. QED
  BY <1>1, <1>2, <1>3, QuietClientKept, SaveEndsKept, EndKept, QuietToolKept, ToolWritesKept
     DEF Next, vars, DeleteLock

\* The list of a running program is what is on disk, but for a failed save, and unless a
\* short process has written the file.
THEOREM StoreIsOnDisk == Spec => []StoreOnDisk
<1>1. TypeOK /\ KeptInv /\ [Next]_vars => TypeOK' /\ KeptInv'
  BY TypeStep, KeptStep
<1>2. KeptInv => StoreOnDisk
  BY DEF KeptInv
<1>3. QED
  BY <1>1, <1>2, InitType, KeptInit, PTL DEF Spec

\* Whoever was told that a friend is in the list finds it on disk, in a program that will
\* write it or in what is being written; what a step of Loses drops is all that is lost.
THEOREM ToldAreKept == Spec => []FriendsKept
<1>1. TypeOK /\ KeptInv /\ [Next]_vars => TypeOK' /\ KeptInv'
  BY TypeStep, KeptStep
<1>2. KeptInv => FriendsKept
  BY DEF KeptInv
<1>3. QED
  BY <1>1, <1>2, InitType, KeptInit, PTL DEF Spec

-----------------------------------------------------------------------------
(* The account and the friends.                                            *)

Asking == {"asking", "waiting", "left"}

\* Without a change of account every run has the account of the file, and a link on its way
\* is not for it; a start that has refused to be its own friend has read the file as it
\* still is.
SelfInv ==
  /\ \A t \in Tools : tool[t].at = "truncated" /\ tool[t].op = "import" => rekeyed
  /\ ~rekeyed =>
       /\ \A t \in Tools : tool[t].at \in Asking => tool[t].key # identityFile
       /\ \A c \in Clients : client[c].at # "off" => client[c].own = identityFile
  /\ ~rekeyed =>
       /\ \A c \in Clients : client[c].at \in {"checked", "locked"} /\ c \notin stale
                               => identityFile \notin friendsFile
       /\ \A c \in Running : identityFile \notin client[c].mem \/ client[c].raced

\* At first no run is there to be its own friend.
LEMMA SelfInit == Init => SelfInv
BY DEF Init, SelfInv, Running, Asking, NotRunning, NotStarted

\* What a step has to respect.
RespectedByHistory ==
  /\ rekeyed => rekeyed'
  /\ rekeyed' \/ identityFile' = identityFile

RespectedByTools ==
  \A t \in Tools :
    /\ \/ tool'[t].at = "truncated" => tool'[t] = tool[t] \/ tool'[t].op # "import"
       \/ rekeyed'
    /\ \/ tool'[t].at \in Asking => tool[t].at \in Asking /\ tool'[t].key = tool[t].key
       \/ tool'[t].key # identityFile
       \/ rekeyed'

RespectedByClients ==
  \A c \in Clients :
    /\ \/ client'[c].at # "off" => client[c].at # "off" /\ client'[c].own = client[c].own
       \/ client'[c].own = identityFile
       \/ rekeyed'
    /\ \/ client'[c].at \in {"checked", "locked"} /\ c \notin stale' =>
            /\ client[c].at \in {"checked", "locked"} /\ c \notin stale
            /\ friendsFile' = friendsFile
       \/ identityFile \notin friendsFile'
       \/ rekeyed'
    /\ \/ client'[c].at = "running" =>
            /\ client[c].at = "running" /\ client'[c].mem \subseteq client[c].mem
            /\ client'[c].raced = client[c].raced
       \/ identityFile \notin client'[c].mem
       \/ client'[c].raced
       \/ rekeyed'

SelfRespected == RespectedByHistory /\ RespectedByTools /\ RespectedByClients

\* A step that respects SelfInv keeps it.
LEMMA SelfRespectedKeeps ==
  ASSUME SelfInv, SelfRespected
  PROVE  SelfInv'
<1>1. \A t \in Tools : tool'[t].at = "truncated" /\ tool'[t].op = "import" => rekeyed'
  BY DEF SelfInv, SelfRespected, RespectedByHistory, RespectedByTools, RespectedByClients
<1>2. ASSUME ~rekeyed'
      PROVE  /\ \A t \in Tools : tool'[t].at \in Asking => tool'[t].key # identityFile'
             /\ \A c \in Clients : client'[c].at # "off" => client'[c].own = identityFile'
  BY <1>2 DEF SelfInv, SelfRespected, RespectedByHistory, RespectedByTools, RespectedByClients
<1>3. ASSUME ~rekeyed', NEW c \in Clients
      PROVE  /\ client'[c].at \in {"checked", "locked"} /\ c \notin stale'
                  => identityFile' \notin friendsFile'
             /\ client'[c].at = "running" => identityFile' \notin client'[c].mem \/ client'[c].raced
  BY <1>3
     DEF SelfInv, SelfRespected, RespectedByHistory, RespectedByTools, RespectedByClients,
         Running
<1>4. Asking' = Asking
  BY DEF Asking
<1>5. QED
  BY <1>1, <1>2, <1>3, <1>4 DEF SelfInv, Running

\* Steps of a run of the program, but for a save that begins.
LEMMA ClientSelf ==
  ASSUME TypeOK, SelfInv, NEW c \in Clients,
         \/ StartClient(c) \/ Acquire(c) \/ AcquireFails(c) \/ OpenStore(c) \/ Serve(c)
         \/ SaveEnds(c) \/ SaveBreaks(c) \/ Quit(c) \/ Kill(c)
         \/ \E k \in Keys : SetSeed(c, k)
  PROVE  SelfInv'
<1>1. CASE StartClient(c)
  <2>1. /\ UNCHANGED <<friendsFile, identityFile, tool, rekeyed>> /\ stale' = stale \ {c}
        /\ identityFile \notin friendsFile
    BY <1>1 DEF StartClient, Overlaps
  <2>2. ClientGoes(c, "checked") /\ client'[c].own = identityFile
    BY <1>1, StartClientEffect
  <2>3. QED
    BY <2>1, <2>2, SelfRespectedKeeps
       DEF SelfRespected, RespectedByHistory, RespectedByTools, RespectedByClients, ClientGoes
<1>2. ASSUME Acquire(c) \/ Serve(c)
      PROVE  SelfInv'
  <2>1. UNCHANGED <<friendsFile, identityFile, tool, rekeyed, stale>>
    BY <1>2 DEF Acquire, Serve
  <2>2. \/ client[c].at = "checked" /\ ClientGoes(c, "locked")
        \/ client[c].at = "running" /\ ClientGoes(c, "running")
    BY <1>2, AcquireEffect, ServeEffect DEF Acquire, Serve
  <2>3. /\ client'[c].own = client[c].own /\ client'[c].mem = client[c].mem
        /\ client'[c].raced = client[c].raced
    BY <1>2, AcquireEffect, ServeEffect DEF SameBut
  <2>4. QED
    BY <2>1, <2>2, <2>3, SelfRespectedKeeps
       DEF SelfRespected, RespectedByHistory, RespectedByTools, RespectedByClients, ClientGoes
<1>3. CASE OpenStore(c)
  <2>1. /\ UNCHANGED <<friendsFile, identityFile, tool, rekeyed>> /\ stale' = stale \ {c}
        /\ client[c].at = "locked"
    BY <1>3 DEF OpenStore
  <2>2. /\ ClientGoes(c, "running") /\ client'[c].own = client[c].own
        /\ client'[c].mem = friendsFile /\ client'[c].raced = (c \in stale)
    BY <1>3, OpenStoreEffect
  <2>3. rekeyed \/ client'[c].raced \/ identityFile \notin friendsFile
    BY <2>1, <2>2 DEF SelfInv
  <2>4. QED
    BY <2>1, <2>2, <2>3, SelfRespectedKeeps
       DEF SelfRespected, RespectedByHistory, RespectedByTools, RespectedByClients, ClientGoes
<1>4. ASSUME SaveEnds(c) \/ SaveBreaks(c)
      PROVE  SelfInv'
  <2>1. /\ UNCHANGED <<identityFile, rekeyed>> /\ client[c].at = "running"
        /\ Overwritten(c) \/ UNCHANGED <<friendsFile, stale>>
        /\ tool' = Answered(c)
    BY <1>4 DEF SaveEnds, SaveBreaks, Fill, TypeOK
  <2>2. /\ ClientGoes(c, "running") /\ client'[c].own = client[c].own
        /\ client'[c].mem = client[c].mem /\ client'[c].raced = client[c].raced
    BY <1>4, SaveEndsEffect, SaveBreaksEffect
  <2>3. \A t \in Tools : tool'[t] = tool[t] \/ tool'[t].at = "off"
    BY <2>1, ServedEffect
  <2>4. \A d \in Clients : client'[d].at \in {"checked", "locked"} =>
           d \in stale' \/ UNCHANGED <<friendsFile, stale>>
    BY <2>1, <2>2, OthersStale DEF ClientGoes, HaveCopy
  <2>5. \A d \in Clients : /\ client'[d].at = client[d].at /\ client'[d].own = client[d].own
                            /\ client'[d].mem = client[d].mem /\ client'[d].raced = client[d].raced
    BY <2>1, <2>2 DEF ClientGoes
  <2>6. RespectedByHistory
    BY <2>1 DEF RespectedByHistory
  <2>7. RespectedByTools
    BY <2>3 DEF RespectedByTools, Asking
  <2>8. RespectedByClients
    BY <2>4, <2>5 DEF RespectedByClients
  <2>9. QED
    BY <2>6, <2>7, <2>8, SelfRespectedKeeps DEF SelfRespected
<1>5. ASSUME AcquireFails(c) \/ Quit(c) \/ Kill(c)
      PROVE  SelfInv'
  <2>1. /\ UNCHANGED <<friendsFile, identityFile, rekeyed>> /\ stale' = stale \ {c}
        /\ tool' = tool \/ tool' = Cut(c)
    BY <1>5 DEF AcquireFails, Quit, Kill, Forget
  <2>2. ClientGoes(c, "off")
    BY <1>5, EndEffect
  <2>3. \A t \in Tools : tool'[t] = tool[t] \/ tool'[t].at \in {"off", "cut"}
    BY <2>1, CutEffect
  <2>4. QED
    BY <2>1, <2>2, <2>3, SelfRespectedKeeps
       DEF SelfRespected, RespectedByHistory, RespectedByTools, RespectedByClients, ClientGoes,
           Asking
<1>6. ASSUME NEW k \in Keys, SetSeed(c, k)
      PROVE  SelfInv'
  <2>1. rekeyed'
    BY <1>6 DEF SetSeed
  <2>2. QED
    BY <2>1, SelfRespectedKeeps
       DEF SelfRespected, RespectedByHistory, RespectedByTools, RespectedByClients
<1>7. QED
  BY <1>1, <1>2, <1>3, <1>4, <1>5, <1>6

\* A program that changes its list: the friend it adds is not its account.
LEMMA SaveSelf ==
  ASSUME TypeOK, SelfInv, NEW c \in Clients, NEW k \in Keys \cup {None}, SaveOrFail(c, k),
         rekeyed \/ k = None \/ k # identityFile, identityFile' = identityFile, rekeyed' = rekeyed,
         \A t \in Tools : tool'[t] = tool[t] \/ tool'[t].at \in {"off", "served"}
  PROVE  SelfInv'
<1>1. /\ client[c].at = "running"
      /\ Overwritten(c) \/ UNCHANGED <<friendsFile, stale>>
  BY DEF SaveOrFail, Save, SaveFails, Changes, Truncate
<1>2. /\ ClientGoes(c, "running") /\ client'[c].own = client[c].own
      /\ client'[c].mem = client[c].mem \cup ({k} \ {None})
      /\ client'[c].raced = client[c].raced
  BY SaveEffect, SaveFailsEffect DEF SaveOrFail, Added
<1>3. \A d \in Clients : client'[d].at \in {"checked", "locked"} =>
         d \in stale' \/ UNCHANGED <<friendsFile, stale>>
  BY <1>1, <1>2, OthersStale DEF ClientGoes, HaveCopy
<1>4. rekeyed \/ client'[c].raced \/ identityFile \notin client'[c].mem
  BY <1>1, <1>2 DEF SelfInv, Running
<1>5. QED
  BY <1>1, <1>2, <1>3, <1>4, SelfRespectedKeeps
     DEF SelfRespected, RespectedByHistory, RespectedByTools, RespectedByClients, ClientGoes,
         Asking

\* A short process that does not change the account.
LEMMA ToolSelf ==
  ASSUME TypeOK, SelfInv, NEW t \in Tools, NEW at, ToolGoes(t, at),
         UNCHANGED <<client, identityFile, rekeyed>>,
         at = "truncated" => tool'[t].op # "import",
         at \in Asking => \/ tool[t].at \in Asking /\ tool'[t].key = tool[t].key
                          \/ tool'[t].key # identityFile,
         \/ UNCHANGED friendsFile /\ (stale' = stale \/ stale' = stale \ {t})
         \/ Overwritten(t)
  PROVE  SelfInv'
<1>1. \A c \in Clients : c # t
  BY DataDirAssumption
<1>2. \A c \in Clients : client[c].at \in {"checked", "locked"} =>
         \/ UNCHANGED friendsFile /\ (c \in stale' <=> c \in stale)
         \/ c \in stale'
  BY <1>1, OthersStale DEF HaveCopy
<1>3. QED
  BY <1>2, SelfRespectedKeeps
     DEF SelfRespected, RespectedByHistory, RespectedByTools, RespectedByClients, ToolGoes

\* Every step keeps SelfInv.
LEMMA SelfStep ==
  ASSUME TypeOK, SelfInv, [Next]_vars
  PROVE  SelfInv'
<1>1. ASSUME NEW c \in Clients, Update(c) \/ \E k \in Keys : AddScanned(c, k)
      PROVE  SelfInv'
  <2>1. PICK k \in Keys \cup {None} :
           SaveOrFail(c, k) /\ tool' = tool /\ (k = None \/ k # client[c].own)
    BY <1>1 DEF Update, AddScanned
  <2>2. UNCHANGED <<identityFile, rekeyed>> /\ client[c].at = "running"
    BY <2>1 DEF SaveOrFail, Save, SaveFails, Changes
  <2>3. rekeyed \/ client[c].own = identityFile
    BY <2>2 DEF SelfInv
  <2>4. QED
    BY <2>1, <2>2, <2>3, SaveSelf
<1>2. ASSUME NEW c \in Clients, NEW t \in Tools, ServeAdd(c, t)
      PROVE  SelfInv'
  <2>1. /\ SaveOrFail(c, tool[t].key) /\ tool[t].key \in Keys \cup {None}
        /\ tool[t].at \in {"waiting", "left"}
    BY <1>2 DEF ServeAdd, SaveOrFail, TypeOK, ToolStates
  <2>2. UNCHANGED <<identityFile, rekeyed>>
    BY <2>1 DEF SaveOrFail, Save, SaveFails
  <2>3. rekeyed \/ tool[t].key # identityFile
    BY <2>1 DEF SelfInv, Asking
  <2>4. \A u \in Tools : tool'[u] = tool[u] \/ tool'[u].at \in {"off", "served"}
    BY <1>2, ToolEnds DEF ToolGoes
  <2>5. QED
    BY <2>1, <2>2, <2>3, <2>4, SaveSelf
<1>3. ASSUME NEW t \in Tools, NEW k \in Keys, FriendAdd(t, k)
      PROVE  SelfInv'
  BY <1>3, ToolStarts, ToolSelf DEF FriendAdd, Asking
<1>4. ASSUME NEW t \in Tools, NEW k \in Keys, HandleLink(t, k)
      PROVE  SelfInv'
  BY <1>4, ToolStarts, ToolSelf DEF HandleLink
<1>5. ASSUME NEW t \in Tools, NEW friends \in SUBSET Keys, Restore(t, friends)
      PROVE  SelfInv'
  BY <1>5, ToolStarts, ToolSelf DEF Restore, Truncate, Asking
<1>6. ASSUME NEW t \in Tools, NEW k \in Keys, Import(t, k)
      PROVE  SelfInv'
  BY <1>6, SelfRespectedKeeps
     DEF Import, SelfRespected, RespectedByHistory, RespectedByTools, RespectedByClients
<1>7. ASSUME NEW t \in Tools, NobodyListens(t) \/ OpenDirectly(t) \/ AddBegins(t)
      PROVE  SelfInv'
  <2>1. \/ ToolGoes(t, "direct")
        \/ ToolGoes(t, "opened")
        \/ ToolGoes(t, "truncated") /\ tool'[t].op # "import"
    BY <1>7, ToolGoesOn DEF AddBegins, SameOrder
  <2>2. /\ UNCHANGED <<client, identityFile, rekeyed>>
        /\ \/ UNCHANGED friendsFile /\ (stale' = stale \/ stale' = stale \ {t})
           \/ Overwritten(t)
    BY <1>7 DEF NobodyListens, OpenDirectly, AddBegins, Truncate
  <2>3. \A at \in {"direct", "opened", "truncated"} : at \notin Asking
    BY DEF Asking
  <2>4. PICK at \in {"direct", "opened", "truncated"} :
           ToolGoes(t, at) /\ (at = "truncated" => tool'[t].op # "import")
    BY <2>1
  <2>5. QED
    BY <2>2, <2>3, <2>4, ToolSelf
<1>8. ASSUME NEW t \in Tools, NEW c \in Clients, Forward(t, c)
      PROVE  SelfInv'
  BY <1>8, ToolGoesOn, ToolSelf DEF Forward, SameOrder, Asking
<1>9. ASSUME NEW t \in Tools, GiveUp(t)
      PROVE  SelfInv'
  BY <1>9, ToolEnds, ToolSelf DEF GiveUp, SameOrder, Asking
<1>10. ASSUME NEW t \in Tools,
              EmptyAnswer(t) \/ AddKnown(t) \/ WriteEnds(t) \/ KillTool(t)
              \/ \E c \in Clients : ServeKnown(c, t)
       PROVE  SelfInv'
  <2>0. ToolGoes(t, "off")
    BY <1>10, ToolEnds
  <2>1. UNCHANGED <<client, identityFile, rekeyed>>
    BY <1>10 DEF EmptyAnswer, AddKnown, WriteEnds, KillTool, ServeKnown
  <2>3. \/ UNCHANGED friendsFile /\ (stale' = stale \/ stale' = stale \ {t})
        \/ Overwritten(t)
    BY <1>10 DEF EmptyAnswer, AddKnown, WriteEnds, KillTool, ServeKnown, Fill, Forget
  <2>4. QED
    BY <2>0, <2>1, <2>3, ToolSelf DEF Asking
<1>11. ASSUME NEW t \in Tools, ImportEnds(t)
       PROVE  SelfInv'
  <2>1. rekeyed /\ rekeyed'
    BY <1>11 DEF ImportEnds, SelfInv
  <2>2. QED
    BY <2>1, SelfRespectedKeeps
       DEF SelfRespected, RespectedByHistory, RespectedByTools, RespectedByClients
<1>12. ASSUME UNCHANGED <<friendsFile, identityFile, client, tool, stale, rekeyed>>
       PROVE  SelfInv'
  BY <1>12 DEF SelfInv, Running, Asking
<1>13. QED
  BY <1>1, <1>2, <1>3, <1>4, <1>5, <1>6, <1>7, <1>8, <1>9, <1>10, <1>11, <1>12, ClientSelf
     DEF Next, vars, DeleteLock

\* A running program has its own account among its friends only if friends.toml was written
\* between its check_overlap and its open.
THEOREM NobodyIsTheirOwnFriend == Spec => []SelfIsNoFriend
<1>1. TypeOK /\ SelfInv /\ [Next]_vars => TypeOK' /\ SelfInv'
  BY TypeStep, SelfStep
<1>2. TypeOK /\ SelfInv => SelfIsNoFriend
  BY DEF SelfInv, SelfIsNoFriend, Running
<1>3. QED
  BY <1>1, <1>2, InitType, SelfInit, PTL DEF Spec
=============================================================================
