--------------------------- MODULE SessionTracker ---------------------------
(***************************************************************************)
(* What net-probe remembers about the clients it observes                  *)
(* (net-probe/src/mitm_trace.cpp): fixed tables of sessions, of session    *)
(* handles, of clone handles and of domain objects, kept by the trace      *)
(* hooks of the MITM thread.  A table that is full reuses its first slot.  *)
(*                                                                         *)
(* What really exists (open handles, live domain objects) belongs to the   *)
(* server manager and the forwarded services and is external; the tables   *)
(* are compared with it.  A hook runs to completion on the one MITM thread *)
(* and the other threads only read, so a hook is one step.                 *)
(***************************************************************************)
EXTENDS Naturals, Sequences, FiniteSets, FiniteSetsExt, Functions

CONSTANTS
  Objects,       \* domain object ids a forwarded service hands out
  Commands,      \* commands that return an object
  TableSizes,    \* <<MaxTrackedSessions, MaxTrackedSessionHandles, MaxTrackedCloneHandles,
                 \* MaxTrackedDomainPaths>> to consider
  PathLength,    \* MaxDomainPathLength, in names; a name that is cut counts as cut off
  NumSessions,   \* handles the server manager can have open at once
  MaxSessions,   \* bound: sessions ever accepted
  MaxHandles,    \* bound: handles ever opened
  MaxDepth       \* bound: calls between the root and an object

ASSUME SlotsAssumption ==
  TableSizes \subseteq [1..4 -> Nat \ {0}] /\ PathLength \in Nat \ {0}
ASSUME BoundsAssumption ==
  NumSessions \in Nat /\ MaxSessions \in Nat /\ MaxHandles \in Nat /\ MaxDepth \in Nat
ASSUME PathsAssumption == Commands \cap Objects = {} /\ "root" \notin Commands \cup Objects
ASSUME ObjectsAssumption == IsFiniteSet(Objects)   \* an object id is 32 bits wide

Sessions == 1..MaxSessions    \* 0 is no session: g_next_session_id starts at 1
Handles == 1..MaxHandles
Paths == Seq(Objects \cup Commands \cup {"root"})

VARIABLES
  sessions,      \* g_sessions: the session of each slot, or 0
  handles,       \* g_session_handles
  clones,        \* g_clone_handles
  paths,         \* g_domain_paths
  nextSession,   \* g_next_session_id
  nextHandle,    \* external: kernel handles are not reused
  open,          \* external: the open handles of each session
  root,          \* external: the handle each session was accepted with
  domains,       \* external: sessions converted to domains
  live,          \* external: live objects of each session with their real paths
  disconnects    \* history: client_disconnected events of each session

tables == <<sessions, handles, clones, paths>>
vars == <<tables, nextSession, nextHandle, open, root, domains, live, disconnects>>

-----------------------------------------------------------------------------
(* The tables.  An entry belongs to a session; key is a handle or an object id. *)

Free(none) == [session |-> 0, key |-> none, closed |-> FALSE, path |-> <<>>]
FreeHandle == Free(0)
FreePath == Free("none")

Slot(table, s, k) == {i \in DOMAIN table : table[i].session = s /\ table[i].key = k}
FreeSlots(table) == {i \in DOMAIN table : table[i].session = 0}
First(slots) == CHOOSE i \in slots : \A j \in slots : i <= j

\* The slot for (s, k): its own, else the first free one, else the first one.
SlotFor(table, s, k) ==
  IF Slot(table, s, k) # {} THEN First(Slot(table, s, k))
  ELSE IF FreeSlots(table) # {} THEN First(FreeSlots(table)) ELSE 1

\* RememberSessionHandleLocked, RememberCloneHandleLocked: the entry is open.
RememberHandle(table, s, h) ==
  [table EXCEPT ![SlotFor(table, s, h)] =
     [session |-> s, key |-> h, closed |-> FALSE, path |-> <<>>]]

\* Faulty variant: a new entry for an object id that has one.
RememberDomainPathAgain(table, s, o, path) ==
  LET slot == IF FreeSlots(table) # {} THEN First(FreeSlots(table)) ELSE 1
  IN [table EXCEPT ![slot] = [session |-> s, key |-> o, path |-> path, closed |-> FALSE]]

\* RememberDomainPath: an entry that is there keeps its close_observed.
RememberDomainPath(table, s, o, path) ==
  [table EXCEPT ![SlotFor(table, s, o)] =
     [session |-> s, key |-> o, path |-> path,
      closed |-> Slot(table, s, o) # {} /\ @.closed]]

\* Mark*CloseObserved*.
MarkClosed(table, s, k) ==
  [i \in DOMAIN table |->
     IF i \in Slot(table, s, k) THEN [table[i] EXCEPT !.closed = TRUE] ELSE table[i]]

\* Forget*ForSessionLocked.
Forgotten(table, s, free) ==
  [i \in DOMAIN table |-> IF table[i].session = s THEN free ELSE table[i]]

\* Keys of s in a table without an observed close (Count*ForSessionLocked).
Active(table, s) ==
  {table[i].key : i \in {j \in DOMAIN table : table[j].session = s /\ ~table[j].closed}}

\* GetRelativeDomainPath: an unknown object is named by its id.
RelativePath(s, o) ==
  IF Slot(paths, s, o) # {} THEN paths[First(Slot(paths, s, o))].path ELSE <<o>>

\* The path of a returned object, in the space there is for it.
\* Faulty variant: the end of the path is kept.
ChildPathEnd(parent, c) ==
  LET path == Append(parent, c)
  IN SubSeq(path, Max({1, Len(path) - PathLength + 1}), Len(path))
ChildPath(parent, c) ==
  LET path == Append(parent, c) IN SubSeq(path, 1, Min({PathLength, Len(path)}))

-----------------------------------------------------------------------------
NoObjects == [o \in {} |-> <<>>]

Init ==
  /\ \E size \in TableSizes :
       /\ sessions = [i \in 1..size[1] |-> 0]
       /\ handles = [i \in 1..size[2] |-> FreeHandle]
       /\ clones = [i \in 1..size[3] |-> FreeHandle]
       /\ paths = [i \in 1..size[4] |-> FreePath]
  /\ nextSession = 1
  /\ nextHandle = 1
  /\ open = [s \in Sessions |-> {}]
  /\ root = [s \in Sessions |-> 0]
  /\ domains = {}
  /\ live = [s \in Sessions |-> NoObjects]
  /\ disconnects = [s \in Sessions |-> 0]

OpenCount == Cardinality(UNION Range(open))

\* The server manager opens a handle for s.
OpenHandle(s) ==
  /\ nextHandle <= MaxHandles
  /\ OpenCount < NumSessions
  /\ open' = [open EXCEPT ![s] = @ \cup {nextHandle}]
  /\ nextHandle' = nextHandle + 1

\* RememberSessionLocked, for a session id that is new: a full table loses
\* its first session with everything known of it.
RememberSession(s) ==
  LET free == {i \in DOMAIN sessions : sessions[i] = 0}
      victim == sessions[1]
  IN IF free # {}
     THEN /\ sessions' = [sessions EXCEPT ![First(free)] = s]
          /\ handles' = RememberHandle(handles, s, nextHandle)
          /\ UNCHANGED <<clones, paths>>
     ELSE /\ sessions' = [sessions EXCEPT ![1] = s]
          /\ handles' = Forgotten(RememberHandle(handles, s, nextHandle), victim, FreeHandle)
          /\ clones' = Forgotten(clones, victim, FreeHandle)
          /\ paths' = Forgotten(paths, victim, FreePath)

\* AcceptMitmConnection: AcceptMitmImpl raises Accepted (LogSessionTrace),
\* then LogSessionConnected.
Accept ==
  /\ nextSession \in Sessions
  /\ OpenHandle(nextSession)
  /\ RememberSession(nextSession)
  /\ root' = [root EXCEPT ![nextSession] = nextHandle]
  /\ nextSession' = nextSession + 1
  /\ UNCHANGED <<domains, live, disconnects>>

\* AcceptMitmConnection when AcceptMitmImpl fails: the id is spent.
AcceptFails ==
  /\ nextSession \in Sessions
  /\ nextSession' = nextSession + 1
  /\ UNCHANGED <<tables, nextHandle, open, root, domains, live, disconnects>>

\* CloneCurrentObject: CloneRegistered (LogSessionTrace), then, for bsd, the
\* end of the manager request (LogDispatchTrace), which finds its entry there.
CloneSession(s) ==
  /\ open[s] # {}
  /\ OpenHandle(s)
  /\ handles' = RememberHandle(handles, s, nextHandle)
  /\ clones' = RememberHandle(clones, s, nextHandle)
  /\ UNCHANGED <<sessions, paths, nextSession, root, domains, live, disconnects>>

\* Faulty variants of the Close hook: it looks for the root's handle; it
\* keeps what it knows of the objects.
CloseRootDisconnects(s, h) ==
  LET marked == MarkClosed(handles, s, h)
      final == h = root[s] \/ Active(marked, s) = {}
      gone == open[s] = {h}
  IN /\ h \in open[s]
     /\ open' = [open EXCEPT ![s] = @ \ {h}]
     /\ sessions' = [i \in DOMAIN sessions |-> IF final /\ sessions[i] = s THEN 0 ELSE sessions[i]]
     /\ handles' = IF final THEN Forgotten(marked, s, FreeHandle) ELSE marked
     /\ clones' = IF final THEN Forgotten(clones, s, FreeHandle) ELSE MarkClosed(clones, s, h)
     /\ paths' = IF final THEN Forgotten(paths, s, FreePath) ELSE paths
     /\ disconnects' = [disconnects EXCEPT ![s] = IF final THEN @ + 1 ELSE @]
     /\ live' = IF gone THEN [live EXCEPT ![s] = NoObjects] ELSE live
     /\ domains' = IF gone THEN domains \ {s} ELSE domains
     /\ UNCHANGED <<nextSession, nextHandle, root>>
CloseKeepsPaths(s, h) ==
  LET marked == MarkClosed(handles, s, h)
      final == Active(marked, s) = {}
      gone == open[s] = {h}
  IN /\ h \in open[s]
     /\ open' = [open EXCEPT ![s] = @ \ {h}]
     /\ sessions' = [i \in DOMAIN sessions |-> IF final /\ sessions[i] = s THEN 0 ELSE sessions[i]]
     /\ handles' = IF final THEN Forgotten(marked, s, FreeHandle) ELSE marked
     /\ clones' = IF final THEN Forgotten(clones, s, FreeHandle) ELSE MarkClosed(clones, s, h)
     /\ UNCHANGED paths
     /\ disconnects' = [disconnects EXCEPT ![s] = IF final THEN @ + 1 ELSE @]
     /\ live' = IF gone THEN [live EXCEPT ![s] = NoObjects] ELSE live
     /\ domains' = IF gone THEN domains \ {s} ELSE domains
     /\ UNCHANGED <<nextSession, nextHandle, root>>

\* LogSessionTrace, Close: the last handle known to be open is the client's end.
CloseHandle(s, h) ==
  LET marked == MarkClosed(handles, s, h)
      final == Active(marked, s) = {}
      gone == open[s] = {h}
  IN /\ h \in open[s]
     /\ open' = [open EXCEPT ![s] = @ \ {h}]
     /\ sessions' = [i \in DOMAIN sessions |-> IF final /\ sessions[i] = s THEN 0 ELSE sessions[i]]
     /\ handles' = IF final THEN Forgotten(marked, s, FreeHandle) ELSE marked
     /\ clones' = IF final THEN Forgotten(clones, s, FreeHandle) ELSE MarkClosed(clones, s, h)
     /\ paths' = IF final THEN Forgotten(paths, s, FreePath) ELSE paths
     /\ disconnects' = [disconnects EXCEPT ![s] = IF final THEN @ + 1 ELSE @]
     /\ live' = IF gone THEN [live EXCEPT ![s] = NoObjects] ELSE live
     /\ domains' = IF gone THEN domains \ {s} ELSE domains
     /\ UNCHANGED <<nextSession, nextHandle, root>>

\* OnDomainTrace, ConvertCurrentObjectToDomain.
ConvertToDomain(s, o) ==
  /\ open[s] # {}
  /\ s \notin domains
  /\ domains' = domains \cup {s}
  /\ live' = [live EXCEPT ![s] = [x \in {o} |-> <<"root">>]]
  /\ paths' = RememberDomainPath(paths, s, o, <<"root">>)
  /\ UNCHANGED <<sessions, handles, clones, nextSession, nextHandle, open, root, disconnects>>

\* RememberReturnedDomainObjects: command c of object p returned object o;
\* the service may give out the id of an object that was closed.
ReturnObject(s, p, c, o) ==
  /\ open[s] # {}
  /\ p \in DOMAIN live[s] /\ o \notin DOMAIN live[s]
  /\ Len(live[s][p]) <= MaxDepth
  /\ live' = [live EXCEPT ![s] = [x \in DOMAIN live[s] \cup {o} |->
                                    IF x = o THEN Append(live[s][p], c) ELSE live[s][x]]]
  /\ paths' = RememberDomainPath(paths, s, o, ChildPath(RelativePath(s, p), c))
  /\ UNCHANGED <<sessions, handles, clones, nextSession, nextHandle, open, root, domains, disconnects>>

\* OnDomainTrace, DispatchClose.
CloseObject(s, o) ==
  /\ open[s] # {}
  /\ o \in DOMAIN live[s]
  /\ live' = [live EXCEPT ![s] = Restrict(@, DOMAIN @ \ {o})]
  /\ paths' = MarkClosed(paths, s, o)
  /\ UNCHANGED <<sessions, handles, clones, nextSession, nextHandle, open, root, domains, disconnects>>

Next ==
  \/ Accept \/ AcceptFails
  \/ \E s \in Sessions :
       \/ CloneSession(s)
       \/ \E h \in Handles : CloseHandle(s, h)
       \/ \E o \in Objects : ConvertToDomain(s, o) \/ CloseObject(s, o)
       \/ \E p, o \in Objects, c \in Commands : ReturnObject(s, p, c, o)

Spec == Init /\ [][Next]_vars

-----------------------------------------------------------------------------
HandleEntries == [session: 0..MaxSessions, key: 0..MaxHandles, closed: BOOLEAN, path: {<<>>}]

\* An object of a session has one entry: lookups stop at the first.
TypeOK ==
  /\ <<Len(sessions), Len(handles), Len(clones), Len(paths)>> \in TableSizes
  /\ Range(sessions) \subseteq 0..MaxSessions
  /\ Range(handles) \cup Range(clones) \subseteq HandleEntries
  /\ \A i \in DOMAIN paths : paths[i].session \in 0..MaxSessions /\ paths[i].path \in Paths
  /\ \A i, j \in DOMAIN paths :
       i # j /\ paths[i].session # 0 =>
         <<paths[i].session, paths[i].key>> # <<paths[j].session, paths[j].key>>
  /\ nextSession \in 1..MaxSessions + 1 /\ nextHandle \in 1..MaxHandles + 1
  /\ open \in [Sessions -> SUBSET Handles]
  /\ root \in [Sessions -> 0..MaxHandles]
  /\ domains \subseteq Sessions
  /\ DOMAIN live = Sessions
  /\ disconnects \in [Sessions -> Nat]

Connected == {s \in Sessions : open[s] # {}}
Tracked == Range(sessions) \ {0}

\* No table can overflow within the bounds.
Fits ==
  /\ Len(sessions) >= MaxSessions /\ Len(handles) >= MaxHandles /\ Len(clones) >= MaxHandles
  /\ Len(paths) >= MaxSessions * Cardinality(Objects)

\* While no table is full, the session is counted, and each of its open handles
\* and clones is known as open, as long as it has one ("Keep a client lifetime alive after one
\* handle closes when the client still owns another root handle, clone, or
\* live domain object", docs/services/listener-lifecycle.md).
TrackedWhileOpen ==
  Fits =>
    /\ Tracked = Connected
    /\ \A s \in Connected :
         Active(handles, s) = open[s] /\ Active(clones, s) = open[s] \ {root[s]}

\* client_disconnected is logged once for a session, when its last handle
\* closes, in whatever order root handle and clones close.
DisconnectedAtLastClose ==
  \A s \in Sessions :
    disconnects[s] = IF root[s] # 0 /\ open[s] = {} THEN 1 ELSE 0

\* So it is while no table is full (LogSessionTrace, Close).
DisconnectedIfRoom == Fits => DisconnectedAtLastClose

\* Once a client is gone, no table holds anything of it, even when tables
\* overflowed and lost entries meanwhile: what is left over would be taken
\* for activity of a session that is over.
NothingKeptAfterClose ==
  \A s \in Sessions \ Connected :
    /\ s \notin Tracked
    /\ \A i \in DOMAIN handles : handles[i].session # s
    /\ \A i \in DOMAIN clones : clones[i].session # s
    /\ \A i \in DOMAIN paths : paths[i].session # s

\* An object is known under the path of the calls that created it, also when
\* its id was used before ("Preserve the observed object path so later calls
\* can be interpreted without guessing their owner"), or its head where that
\* path is too long: below a path that was cut no name is ever added.
PathsFollowCalls ==
  Fits =>
    \A s \in Connected : \A o \in DOMAIN live[s] :
      LET known == RelativePath(s, o)
          real == live[s][o]
      IN /\ Len(known) = Min({PathLength, Len(real)})
         /\ \A i \in DOMAIN known : known[i] = real[i]
=============================================================================
