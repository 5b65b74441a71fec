------------------------------ MODULE DataDir ------------------------------
(***************************************************************************)
(* The data directory: friends.toml, identity.key and the lock file, used  *)
(* by runs of the chat program (run_chat of main.rs) and by short          *)
(* processes: a CLI command (main.rs) or a clicked link (cmd_handle, and   *)
(* ipc.rs to hand it to the running program).  Nothing but the lock keeps  *)
(* two processes apart, and only the chat program takes it.                *)
(*                                                                         *)
(* fs::write truncates a file, then fills it.  A truncated friends.toml    *)
(* opens as an empty list; a truncated identity.key does not open.  The    *)
(* write may fail before the truncation or after it, and a process may be  *)
(* killed between any two steps.                                           *)
(*                                                                         *)
(* A friend is its key here; FriendBook has the addresses.  A link of the  *)
(* form talk changes none of this.                                         *)
(***************************************************************************)
EXTENDS Naturals, FiniteSets

CONSTANTS
  Clients,   \* runs of the chat program, not in debug mode
  Tools,     \* short processes
  Keys,      \* public keys, of friends and of the user's own accounts
  None       \* no key, no process

ASSUME DataDirAssumption ==
  /\ None \notin Keys \cup Clients \cup Tools
  /\ Clients \cap Tools = {}

VARIABLES
  friendsFile,   \* friends.toml
  identityFile,  \* identity.key, None if truncated
  lockFile,      \* .lock exists
  client,        \* the state of each run of the chat program
  tool,          \* the state of each short process
  stale,         \* processes whose copy of friends.toml another has overwritten
  told,          \* history: friends the user was told are in the list, see Loses
  rekeyed,       \* history: the account was changed
  killed         \* history: the program was killed while it had the lock

vars == <<friendsFile, identityFile, lockFile, client, tool, stale, told, rekeyed, killed>>

NotRunning ==
  [at |-> "off", own |-> None, mem |-> {}, ipc |-> FALSE, saving |-> FALSE, adding |-> None,
   unsaved |-> FALSE, raced |-> FALSE]
NotStarted == [at |-> "off", op |-> "none", key |-> None, read |-> {}, server |-> None]

Holders == {c \in Clients : client[c].at \in {"locked", "running"}}
Running == {c \in Clients : client[c].at = "running"}
Saving == {c \in Running : client[c].saving}
Filling == {t \in Tools : tool[t].at = "truncated" /\ tool[t].op # "import"}

\* Processes that have read friends.toml and still use what they read.
HaveCopy ==
  {c \in Clients : client[c].at # "off"} \cup {t \in Tools : tool[t].at = "opened"} \cup Filling

\* The friends that are on disk, in a running program or in a list that is being written.
Held ==
  friendsFile \cup (UNION {client[c].mem : c \in Running})
              \cup (UNION {tool[t].read : t \in Filling})

ClientStates ==
  [at : {"off", "checked", "locked", "running"}, own : Keys \cup {None}, mem : SUBSET Keys,
   ipc : BOOLEAN, saving : BOOLEAN, adding : Keys \cup {None},
   unsaved : BOOLEAN,   \* its last save failed
   raced : BOOLEAN]     \* friends.toml was written between its check_overlap and its open

ToolStates ==
  [at : {"off", "asking", "waiting", "served", "left", "cut", "direct", "opened", "truncated"},
   op : {"none", "add", "link", "import", "restore"},
   key : Keys \cup {None}, read : SUBSET Keys, server : Clients \cup {None}]

TypeOK ==
  /\ friendsFile \in SUBSET Keys
  /\ identityFile \in Keys \cup {None}
  /\ lockFile \in BOOLEAN
  /\ client \in [Clients -> ClientStates]
  /\ tool \in [Tools -> ToolStates]
  /\ \A t \in Tools : tool[t].at \in {"off", "truncated"} \/ tool[t].key \in Keys
  /\ \A c \in Clients : client[c].ipc \/ client[c].saving => client[c].at = "running"
  /\ \A t \in Tools : tool[t].server \in IF tool[t].at = "served" THEN Saving
                                        ELSE IF tool[t].at \in {"waiting", "left"} THEN Running
                                        ELSE {None}
  /\ stale \in SUBSET HaveCopy
  /\ told \in SUBSET Keys
  /\ rekeyed \in BOOLEAN
  /\ killed \in BOOLEAN

\* cmd_init has made an identity; no friend yet.
Init ==
  /\ friendsFile = {}
  /\ identityFile \in Keys
  /\ lockFile = FALSE
  /\ client = [c \in Clients |-> NotRunning]
  /\ tool = [t \in Tools |-> NotStarted]
  /\ stale = {}
  /\ told = {}
  /\ rekeyed = FALSE
  /\ killed = FALSE

\* A friend is lost by a step against which the code has no protection: a process writes
\* from a copy that another has overwritten, is killed or fails while it is writing, ends
\* with friends that it could not save, or restores a backup.  What is still held is kept.
Loses(happens) == told' = IF happens THEN told \cap Held' ELSE told

\* FriendStore::save of the process p: truncate, then fill.  `k` is the friend the user is
\* told of in the end, or None.
Overwritten(p) == stale' = (stale \cup HaveCopy) \ {p}

Truncate(p) == friendsFile' = {} /\ Overwritten(p)
Fill(p, content, k) ==
  /\ friendsFile' = content
  /\ Overwritten(p)
  /\ told' = (IF p \in stale THEN told \cap Held' ELSE told) \cup ({k} \ {None})

\* The process p ends, and its copy with it.
Forget(p) == stale' = stale \ {p}

-----------------------------------------------------------------------------
(* The chat program.                                                       *)

\* check_overlap
OverlapsNever(k, friends) == FALSE
Overlaps(k, friends) == k \in friends

\* run_chat, up to check_overlap: no identity, or one that is a friend, ends it.
StartClient(c) ==
  /\ client[c].at = "off"
  /\ identityFile # None
  /\ ~Overlaps(identityFile, friendsFile)
  /\ client' = [client EXCEPT ![c] = [NotRunning EXCEPT !.at = "checked", !.own = identityFile]]
  /\ stale' = stale \ {c}
  /\ UNCHANGED <<friendsFile, identityFile, lockFile, tool, told, rekeyed, killed>>

\* IdentityLock::acquire: create_new, or the message that the lock exists.
LockCreatedAnyway == TRUE
LockFree == ~lockFile

Acquire(c) ==
  /\ client[c].at = "checked"
  /\ LockFree
  /\ lockFile' = TRUE
  /\ client' = [client EXCEPT ![c].at = "locked"]
  /\ UNCHANGED <<friendsFile, identityFile, tool, stale, told, rekeyed, killed>>

AcquireFails(c) ==
  /\ client[c].at = "checked"
  /\ ~LockFree
  /\ client' = [client EXCEPT ![c] = NotRunning]
  /\ Forget(c)
  /\ UNCHANGED <<friendsFile, identityFile, lockFile, tool, told, rekeyed,
                 killed>>

\* FriendStore::open: the list in memory, whatever was written since check_overlap.
OpenedEmpty(file) == {}
Opened(file) == file

OpenStore(c) ==
  /\ client[c].at = "locked"
  /\ client' = [client EXCEPT ![c].at = "running", ![c].mem = Opened(friendsFile),
                              ![c].raced = c \in stale]
  /\ stale' = stale \ {c}
  /\ UNCHANGED <<friendsFile, identityFile, lockFile, tool, told, rekeyed, killed>>

\* ipc::serve has bound its port.
Serve(c) ==
  /\ client[c].at = "running" /\ ~client[c].ipc
  /\ client' = [client EXCEPT ![c].ipc = TRUE]
  /\ UNCHANGED <<friendsFile, identityFile, lockFile, tool, stale, told, rekeyed,
                 killed>>

\* FriendStore::add; None if no friend is added.
AddedAlone(friends, k) == {k} \ {None}
Added(friends, k) == friends \cup ({k} \ {None})

\* A thread that has the store changes the list and saves it under the mutex; `k` is the
\* friend added, None if the addresses or last_seen of a friend changed.
Changes(c) == client[c].at = "running" /\ ~client[c].saving

Save(c, k) ==
  /\ Changes(c)
  /\ client' = [client EXCEPT ![c].mem = Added(@, k), ![c].saving = TRUE, ![c].adding = k]
  /\ Truncate(c)
  /\ Loses(c \in stale)
  /\ UNCHANGED <<identityFile, lockFile, rekeyed, killed>>

\* fs::write does not open the file: the list has changed in memory only.
SaveFails(c, k) ==
  /\ Changes(c)
  /\ client' = [client EXCEPT ![c].mem = Added(@, k), ![c].unsaved = TRUE]
  /\ UNCHANGED <<friendsFile, identityFile, lockFile, stale, told, rekeyed, killed>>

SaveOrFail(c, k) == Save(c, k) \/ SaveFails(c, k)

\* update_last_seen_and_ip and merge_ips: the error is discarded.
Update(c) ==
  /\ client[c].mem # {}
  /\ UNCHANGED tool
  /\ SaveOrFail(c, None)

\* add_friend_from_link: a scanned invitation; an error is shown.
AddScanned(c, k) ==
  /\ k \notin client[c].mem
  /\ k # client[c].own
  /\ UNCHANGED tool
  /\ SaveOrFail(c, k)

\* The mutex is released: a link that was being served gets its answer.
Answered(c) == [t \in Tools |-> IF tool[t].at = "served" /\ tool[t].server = c
                                THEN NotStarted ELSE tool[t]]

SaveEnds(c) ==
  /\ client[c].saving
  /\ client' = [client EXCEPT ![c].saving = FALSE, ![c].adding = None, ![c].unsaved = FALSE]
  /\ tool' = Answered(c)
  /\ Fill(c, client[c].mem, client[c].adding)
  /\ UNCHANGED <<identityFile, lockFile, rekeyed, killed>>

\* The write fails with the file truncated: "err: ..", or an error shown or discarded.
SaveBreaks(c) ==
  /\ client[c].saving
  /\ client' = [client EXCEPT ![c].saving = FALSE, ![c].adding = None, ![c].unsaved = TRUE]
  /\ tool' = Answered(c)
  /\ UNCHANGED <<friendsFile, identityFile, lockFile, stale, told, rekeyed, killed>>

\* regenerate_key and set_seed: the new key is App.own_id at once, that of the network task
\* at the next start.  The file is written in one step here, in two by Import.
SetSeed(c, k) ==
  /\ client[c].at = "running"
  /\ k # client[c].own
  /\ identityFile' = k
  /\ rekeyed' = TRUE
  /\ client' = [client EXCEPT ![c].own = k]
  /\ UNCHANGED <<friendsFile, lockFile, tool, stale, told, killed>>

\* The connections to c are cut.
CutWaiting(c) == [t \in Tools |->
                    IF tool[t].server # c \/ tool[t].at = "served" THEN tool[t]
                    ELSE IF tool[t].at = "left" THEN NotStarted
                    ELSE [tool[t] EXCEPT !.at = "cut", !.server = None]]
Cut(c) == [t \in Tools |->
             IF tool[t].server # c THEN tool[t]
             ELSE IF tool[t].at = "left" THEN NotStarted
             ELSE [tool[t] EXCEPT !.at = "cut", !.server = None]]

\* Drop of IdentityLock.
ReleasedNever == lockFile
Released == FALSE

\* run_chat returns: at the end, or because the log or the friends cannot be opened.
Quit(c) ==
  /\ client[c].at \in {"locked", "running"} /\ ~client[c].saving
  /\ lockFile' = Released
  /\ client' = [client EXCEPT ![c] = NotRunning]
  /\ tool' = Cut(c)
  /\ Forget(c)
  /\ UNCHANGED <<friendsFile, identityFile, rekeyed, killed>>
  /\ Loses(c \in stale \/ client[c].unsaved)

Kill(c) ==
  /\ client[c].at # "off"
  /\ client' = [client EXCEPT ![c] = NotRunning]
  /\ tool' = Cut(c)
  /\ killed' = (killed \/ c \in Holders)
  /\ Forget(c)
  /\ UNCHANGED <<friendsFile, identityFile, lockFile, rekeyed>>
  /\ Loses(c \in stale \/ client[c].unsaved \/ client[c].saving)

\* The user does what AcquireFails says: no other instance is running, the lock file is
\* deleted.
DeleteLock ==
  /\ lockFile
  /\ Holders = {}
  /\ lockFile' = FALSE
  /\ killed' = FALSE
  /\ UNCHANGED <<friendsFile, identityFile, client, tool, stale, told, rekeyed>>

-----------------------------------------------------------------------------
(* The short processes.                                                    *)

Becomes(t, state) == tool' = [tool EXCEPT ![t] = state]

\* `friend add`: opens the file.
FriendAdd(t, k) ==
  /\ tool[t].at = "off"
  /\ Becomes(t, [NotStarted EXCEPT !.at = "opened", !.op = "add", !.key = k,
                                   !.read = Opened(friendsFile)])
  /\ stale' = stale \ {t}
  /\ UNCHANGED <<friendsFile, identityFile, lockFile, client, told, rekeyed, killed>>

\* cmd_handle with an add link.
HandleLink(t, k) ==
  /\ tool[t].at = "off"
  /\ identityFile \notin {None, k}
  /\ Becomes(t, [NotStarted EXCEPT !.at = "asking", !.op = "link", !.key = k])
  /\ UNCHANGED <<friendsFile, identityFile, lockFile, client, stale, told, rekeyed,
                 killed>>

\* try_add_friend reaches the program that listens.
Forward(t, c) ==
  /\ tool[t].at = "asking"
  /\ client[c].ipc
  /\ Becomes(t, [tool[t] EXCEPT !.at = "waiting", !.server = c])
  /\ UNCHANGED <<friendsFile, identityFile, lockFile, client, stale, told, rekeyed,
                 killed>>

\* Nobody listens on the ports it scans: None.
NobodyListens(t) ==
  /\ tool[t].at = "asking"
  /\ \A c \in Clients : ~client[c].ipc
  /\ Becomes(t, [tool[t] EXCEPT !.at = "direct"])
  /\ UNCHANGED <<friendsFile, identityFile, lockFile, client, stale, told, rekeyed,
                 killed>>

\* Another program listens there, or the connection is cut: no answer is an "ok", which no
\* process gave; it is not in `told`.
EmptyAnswer(t) ==
  /\ \/ tool[t].at = "cut"
     \/ tool[t].at = "asking" /\ \A c \in Clients : ~client[c].ipc
  /\ Becomes(t, NotStarted)
  /\ UNCHANGED <<friendsFile, identityFile, lockFile, client, stale, told, rekeyed, killed>>

\* handle_msg of ipc.rs.
ServeKnown(c, t) ==
  /\ tool[t].server = c /\ tool[t].at \in {"waiting", "left"}
  /\ client[c].at = "running" /\ ~client[c].saving
  /\ tool[t].key \in client[c].mem
  /\ told' = told \cup {tool[t].key}
  /\ Becomes(t, NotStarted)
  /\ UNCHANGED <<friendsFile, identityFile, lockFile, client, stale, rekeyed, killed>>

\* The answer is "ok" or "err: ..": with an error the friend is in memory all the same, and
\* the same link is then answered "already".
ServeAdd(c, t) ==
  /\ tool[t].server = c /\ tool[t].at \in {"waiting", "left"}
  /\ tool[t].key \notin client[c].mem
  /\ \/ /\ Becomes(t, IF tool[t].at = "left" THEN NotStarted
                      ELSE [tool[t] EXCEPT !.at = "served"])
        /\ Save(c, tool[t].key)
     \/ /\ Becomes(t, NotStarted)
        /\ SaveFails(c, tool[t].key)

\* No answer in time, a connection reset, or the process is killed: the request stays
\* with the program.
GiveUp(t) ==
  /\ tool[t].at \in {"waiting", "served", "cut"}
  /\ Becomes(t, IF tool[t].at = "waiting" THEN [tool[t] EXCEPT !.at = "left"] ELSE NotStarted)
  /\ UNCHANGED <<friendsFile, identityFile, lockFile, client, stale, told, rekeyed,
                 killed>>

\* cmd_handle goes on to write the file itself.
OpenDirectly(t) ==
  /\ tool[t].at = "direct"
  /\ Becomes(t, [tool[t] EXCEPT !.at = "opened", !.read = Opened(friendsFile)])
  /\ stale' = stale \ {t}
  /\ UNCHANGED <<friendsFile, identityFile, lockFile, client, told, rekeyed, killed>>

\* FriendStore::add of `friend add` or of a link: known, by its copy, or saved.
AddKnown(t) ==
  /\ tool[t].at = "opened" /\ tool[t].op \in {"add", "link"}
  /\ tool[t].key \in tool[t].read
  /\ told' = told \cup (IF t \in stale THEN {tool[t].key} \cap Held ELSE {tool[t].key})
  /\ Becomes(t, NotStarted)
  /\ Forget(t)
  /\ UNCHANGED <<friendsFile, identityFile, lockFile, client, rekeyed, killed>>

AddBegins(t) ==
  /\ tool[t].at = "opened" /\ tool[t].op \in {"add", "link"}
  /\ tool[t].key \notin tool[t].read
  /\ Becomes(t, [tool[t] EXCEPT !.at = "truncated", !.read = Added(@, tool[t].key)])
  /\ Truncate(t)
  /\ UNCHANGED <<identityFile, lockFile, client, rekeyed, killed>>
  /\ Loses(t \in stale)

\* backup::import of an earlier list of friends.
Restore(t, friends) ==
  /\ tool[t].at = "off"
  /\ identityFile # None
  /\ Becomes(t, [NotStarted EXCEPT !.at = "truncated", !.op = "restore", !.read = friends])
  /\ Truncate(t)
  /\ UNCHANGED <<identityFile, lockFile, client, rekeyed, killed>>
  /\ Loses(TRUE)

WriteEnds(t) ==
  /\ t \in Filling
  /\ Becomes(t, NotStarted)
  /\ UNCHANGED <<identityFile, lockFile, client, rekeyed, killed>>
  /\ Fill(t, tool[t].read, tool[t].key)

\* cmd_import: another account.
Import(t, k) ==
  /\ tool[t].at = "off"
  /\ ~Overlaps(k, friendsFile)
  /\ k # identityFile
  /\ identityFile' = None
  /\ rekeyed' = TRUE
  /\ Becomes(t, [NotStarted EXCEPT !.at = "truncated", !.op = "import", !.key = k])
  /\ UNCHANGED <<friendsFile, lockFile, client, stale, told, killed>>

ImportEnds(t) ==
  /\ tool[t].at = "truncated" /\ tool[t].op = "import"
  /\ identityFile' = tool[t].key
  /\ Becomes(t, NotStarted)
  /\ UNCHANGED <<friendsFile, lockFile, client, stale, told, rekeyed, killed>>

\* The process is killed, or a write of its own fails: it ends with the error.
KillTool(t) ==
  /\ tool[t].at \in {"asking", "direct", "opened", "truncated"}
  /\ Becomes(t, NotStarted)
  /\ Forget(t)
  /\ UNCHANGED <<friendsFile, identityFile, lockFile, client, rekeyed, killed>>
  /\ Loses(t \in Filling)

Next ==
  \/ \E c \in Clients :
       \/ StartClient(c) \/ Acquire(c) \/ AcquireFails(c) \/ OpenStore(c) \/ Serve(c)
       \/ Update(c) \/ SaveEnds(c) \/ SaveBreaks(c) \/ Quit(c) \/ Kill(c)
       \/ \E k \in Keys : AddScanned(c, k) \/ SetSeed(c, k)
       \/ \E t \in Tools : Forward(t, c) \/ ServeKnown(c, t) \/ ServeAdd(c, t)
  \/ \E t \in Tools :
       \/ NobodyListens(t) \/ EmptyAnswer(t) \/ GiveUp(t) \/ OpenDirectly(t)
       \/ AddKnown(t) \/ AddBegins(t) \/ WriteEnds(t) \/ ImportEnds(t) \/ KillTool(t)
       \/ \E k \in Keys : FriendAdd(t, k) \/ HandleLink(t, k) \/ Import(t, k)
       \/ \E friends \in SUBSET Keys : Restore(t, friends)
  \/ DeleteLock

Spec == Init /\ [][Next]_vars

-----------------------------------------------------------------------------
(* Properties.                                                             *)

\* At most one run of the program has the data directory, whatever starts, quits, is
\* killed and is restarted in whatever order, and though the lock that a killed run leaves
\* is deleted by hand (once no run is left, as the message asks).
OneClient == \A c, d \in Holders : c = d

\* A lock file without an owner keeps the account from starting: it is left behind only
\* by a kill, never by a start that is refused or an orderly end.
LockResidueNeedsKill == lockFile /\ ~killed => Holders # {}

\* The program never reads friends.toml again once it runs: unless a short process has
\* written the file behind its back, every friend on disk is in its list, and after a save
\* that did not fail the two are the same.
StoreOnDisk ==
  \A c \in Running : c \notin stale /\ ~client[c].saving =>
    /\ friendsFile \subseteq client[c].mem
    /\ ~client[c].unsaved => friendsFile = client[c].mem

\* A friend the user was told of, by whichever process, stays on disk, in a program that
\* will write it with its next save, or in the list that is being written, through every
\* later start, failed save and save of another process: only the steps of Loses drop one.
FriendsKept == told \subseteq Held

\* The account is not in the list of friends of a running program: neither check_overlap
\* at its start nor the ways to add a friend while it runs let it in.  The one way is the
\* gap between the check and the open: `friend add` of one's own key in it.
SelfIsNoFriend ==
  ~rekeyed => \A c \in Running : client[c].own \in client[c].mem => client[c].raced
=============================================================================
