------------------------ MODULE SessionTrackerProofs ------------------------
(***************************************************************************)
(* Proofs about SessionTracker, for tables of every size: what a full      *)
(* table may lose, and what holds as long as no table is full.             *)
(***************************************************************************)
EXTENDS SessionTracker, FiniteSetTheorems, SequenceTheorems, TLAPS

-----------------------------------------------------------------------------
(* The first slot of a set of slots. *)

\* A set of numbers has a least one, so First(slots) is one of the slots.  The
\* intervals 0..i are finite sets, which strict inclusion orders well.
LEMMA FirstIsLeast ==
  ASSUME NEW S, S \subseteq Nat, S # {}
  PROVE  First(S) \in S /\ \A j \in S : First(S) <= j
<1> DEFINE Below == {0..i : i \in S}
<1>1. Below \subseteq FiniteSubsetsOf(Nat) /\ Below # {}
  <2>1. \A i \in S : IsFiniteSet(0..i) /\ 0..i \in SUBSET Nat
    BY FS_Interval
  <2> QED BY <2>1 DEF FiniteSubsetsOf
<1>2. PICK T \in Below : \A U \in Below : ~ (<<U, T>> \in StrictSubsetOrdering(Nat))
  <2> HIDE DEF Below
  <2> QED BY <1>1, FS_StrictSubsetOrderingWellFounded, WFMin
<1>3. PICK i \in S : T = 0..i
  OBVIOUS
<1>4. \A j \in S : i <= j
  <2> SUFFICES ASSUME NEW j \in S, j < i PROVE FALSE
    OBVIOUS
  <2>1. 0..j \subseteq 0..i /\ 0..j # 0..i /\ 0..j \in Below
    OBVIOUS
  <2>2. <<0..j, T>> \in StrictSubsetOrdering(Nat)
    BY <2>1, <1>3 DEF StrictSubsetOrdering
  <2> QED BY <2>1, <2>2, <1>2
<1> QED BY <1>4 DEF First

\* SlotFor: the entry's own slot, else a free one, else the first.
LEMMA SlotForIsSlot ==
  ASSUME NEW n \in Nat \ {0}, NEW table, DOMAIN table = 1..n, NEW s, NEW k
  PROVE  /\ SlotFor(table, s, k) \in 1..n
         /\ Slot(table, s, k) # {} => SlotFor(table, s, k) \in Slot(table, s, k)
         /\ Slot(table, s, k) = {} /\ FreeSlots(table) # {} =>
              SlotFor(table, s, k) \in FreeSlots(table)
<1>1. Slot(table, s, k) \subseteq 1..n /\ FreeSlots(table) \subseteq 1..n /\ 1..n \subseteq Nat
  BY DEF Slot, FreeSlots
<1>2. Slot(table, s, k) # {} => First(Slot(table, s, k)) \in Slot(table, s, k)
  BY <1>1, FirstIsLeast
<1>3. FreeSlots(table) # {} => First(FreeSlots(table)) \in FreeSlots(table)
  BY <1>1, FirstIsLeast
<1> QED BY <1>1, <1>2, <1>3 DEF SlotFor


-----------------------------------------------------------------------------
(* The inductive invariant. *)

PathEntries ==
  {FreePath} \cup [session: Sessions, key: Objects, closed: BOOLEAN, path: Paths]

\* The tables keep the size they were made with.
TablesTyped ==
  \E size \in TableSizes :
    /\ sessions \in [1..size[1] -> 0..MaxSessions]
    /\ handles \in [1..size[2] -> HandleEntries]
    /\ clones \in [1..size[3] -> HandleEntries]
    /\ paths \in [1..size[4] -> PathEntries]

OneEntryEach(table) ==
  \A i, j \in DOMAIN table :
    i # j /\ table[i].session # 0 =>
      <<table[i].session, table[i].key>> # <<table[j].session, table[j].key>>
OneEntryPerObject == OneEntryEach(paths)

WorldTyped ==
  /\ nextSession \in 1..MaxSessions + 1 /\ nextHandle \in 1..MaxHandles + 1
  /\ open \in [Sessions -> SUBSET Handles]
  /\ root \in [Sessions -> 0..MaxHandles]
  /\ domains \subseteq Sessions
  /\ DOMAIN live = Sessions
  /\ \A s \in Sessions : \E D \in SUBSET Objects : live[s] \in [D -> Paths]
  /\ disconnects \in [Sessions -> Nat]

\* An entry that is not closed is that of a handle that is open.
KnownIsOpen ==
  \A i \in DOMAIN handles :
    handles[i].session # 0 /\ ~handles[i].closed => handles[i].key \in open[handles[i].session]

\* Handles and session ids are given out once, in ascending order.
Numbered ==
  \A s \in Sessions :
    /\ \A h \in open[s] : h < nextHandle
    /\ root[s] < nextHandle
    /\ s >= nextSession => open[s] = {} /\ root[s] = 0 /\ disconnects[s] = 0
    /\ open[s] # {} => root[s] # 0
    /\ open[s] = {} => DOMAIN live[s] = {}

\* No handle and no session has two entries.
KeysUnder(table, bound) ==
  \A i \in DOMAIN table : table[i].session # 0 =>
    /\ table[i].key \in 1..bound - 1
    /\ \A j \in DOMAIN table : table[j].session # 0 /\ table[j].key = table[i].key => i = j
SessionsOnce ==
  \A i, j \in DOMAIN sessions : sessions[i] # 0 /\ sessions[i] = sessions[j] => i = j

\* Each live object has an entry, with the path of the calls that created it.
IsHeadOf(known, real) ==
  /\ Len(known) = Min({PathLength, Len(real)})
  /\ \A i \in 1..Len(known) : known[i] = real[i]
Known(s, o) ==
  \E i \in DOMAIN paths :
    /\ paths[i].session = s /\ paths[i].key = o
    /\ IsHeadOf(paths[i].path, live[s][o])
ObjectsKnown == \A s \in Sessions : \A o \in DOMAIN live[s] : Known(s, o)

Once == KeysUnder(handles, nextHandle) /\ KeysUnder(clones, nextHandle) /\ SessionsOnce


-----------------------------------------------------------------------------
(* What the hooks make of a table. *)

LEMMA HandleTables ==
  ASSUME NEW n \in Nat \ {0}, NEW table \in [1..n -> HandleEntries],
         NEW s \in Sessions, NEW h \in Handles
  PROVE  /\ RememberHandle(table, s, h) \in [1..n -> HandleEntries]
         /\ MarkClosed(table, s, h) \in [1..n -> HandleEntries]
         /\ \A v \in 0..MaxSessions : Forgotten(table, v, FreeHandle) \in [1..n -> HandleEntries]
<1>1. SlotFor(table, s, h) \in 1..n
  BY SlotForIsSlot
<1>2. [session |-> s, key |-> h, closed |-> FALSE, path |-> <<>>] \in HandleEntries
  BY BoundsAssumption DEF HandleEntries, Sessions, Handles
<1>3. FreeHandle \in HandleEntries
  BY BoundsAssumption DEF FreeHandle, Free, HandleEntries
<1>4. \A e \in HandleEntries : [e EXCEPT !.closed = TRUE] \in HandleEntries
  BY DEF HandleEntries
<1>5. QED
  BY <1>1, <1>2, <1>3, <1>4 DEF RememberHandle, MarkClosed, Forgotten

LEMMA PathEntryTyped ==
  ASSUME NEW e \in PathEntries
  PROVE  /\ e.session \in 0..MaxSessions /\ e.path \in Paths /\ e.closed \in BOOLEAN
         /\ e.session # 0 =>
              e.key \in Objects /\ [e EXCEPT !.closed = TRUE] \in PathEntries
<1>1. CASE e = FreePath
  <2>1. <<>> \in Paths
    BY DEF Paths
  <2>2. QED
    BY <1>1, <2>1, BoundsAssumption DEF FreePath, Free
<1>2. CASE e \in [session: Sessions, key: Objects, closed: BOOLEAN, path: Paths]
  <2>1. [e EXCEPT !.closed = TRUE] \in [session: Sessions, key: Objects, closed: BOOLEAN, path: Paths]
    BY <1>2
  <2>2. QED
    BY <1>2, <2>1 DEF PathEntries, Sessions
<1>3. QED
  BY <1>1, <1>2 DEF PathEntries

LEMMA PathTables ==
  ASSUME NEW n \in Nat \ {0}, NEW table \in [1..n -> PathEntries],
         NEW s \in Sessions, NEW o \in Objects, NEW path \in Paths
  PROVE  /\ RememberDomainPath(table, s, o, path) \in [1..n -> PathEntries]
         /\ MarkClosed(table, s, o) \in [1..n -> PathEntries]
         /\ \A v \in 0..MaxSessions : Forgotten(table, v, FreePath) \in [1..n -> PathEntries]
<1>1. SlotFor(table, s, o) \in 1..n
  BY SlotForIsSlot
<1>2. \A c \in BOOLEAN :
        [session |-> s, key |-> o, path |-> path, closed |-> c] \in PathEntries
  BY BoundsAssumption DEF PathEntries, Sessions
<1>3. FreePath \in PathEntries
  BY BoundsAssumption DEF FreePath, Free, PathEntries, Paths
<1>4. \A e \in PathEntries : e.session = s => [e EXCEPT !.closed = TRUE] \in PathEntries
  BY PathEntryTyped DEF Sessions
<1>5. (Slot(table, s, o) # {} /\ table[SlotFor(table, s, o)].closed) \in BOOLEAN
  OBVIOUS
<1>6. RememberDomainPath(table, s, o, path) \in [1..n -> PathEntries]
  BY <1>1, <1>2, <1>5 DEF RememberDomainPath
<1>7. QED
  BY <1>3, <1>4, <1>6 DEF MarkClosed, Slot, Forgotten


\* Min of two numbers (the space there is, and the length of a path).
LEMMA MinOfTwo ==
  ASSUME NEW a \in Nat, NEW b \in Nat
  PROVE  Min({a, b}) = IF a <= b THEN a ELSE b
BY DEF Min

\* A path that is cut keeps its first names.
LEMMA ChildPathIsCut ==
  ASSUME NEW parent \in Paths, NEW c \in Commands
  PROVE  /\ ChildPath(parent, c) \in Paths
         /\ Len(ChildPath(parent, c)) = IF PathLength <= Len(parent) + 1 THEN PathLength
                                                                        ELSE Len(parent) + 1
         /\ \A i \in 1..Len(ChildPath(parent, c)) :
              ChildPath(parent, c)[i] = IF i = Len(parent) + 1 THEN c ELSE parent[i]
<1> DEFINE path == Append(parent, c)
           len == IF PathLength <= Len(parent) + 1 THEN PathLength ELSE Len(parent) + 1
<1>1. /\ path \in Paths /\ Len(path) = Len(parent) + 1 /\ Len(parent) \in Nat
      /\ \A i \in 1..Len(parent) : path[i] = parent[i]
      /\ path[Len(parent) + 1] = c
  BY DEF Paths
<1>2. PathLength \in Nat /\ PathLength >= 1
  BY SlotsAssumption
<1>3. Min({PathLength, Len(path)}) = len /\ len \in 1..Len(path)
  BY <1>1, <1>2, MinOfTwo
<1>4. ChildPath(parent, c) = SubSeq(path, 1, len)
  BY <1>3 DEF ChildPath
<1> HIDE DEF path, len
<1>5. /\ SubSeq(path, 1, len) \in Paths
      /\ Len(SubSeq(path, 1, len)) = len
      /\ \A i \in 1..len : SubSeq(path, 1, len)[i] = path[i]
  BY <1>1, <1>3, SubSeqProperties DEF Paths
<1>6. QED
  BY <1>1, <1>3, <1>4, <1>5 DEF len

LEMMA RelativePathTyped ==
  ASSUME TablesTyped, NEW s \in Sessions, NEW o \in Objects
  PROVE  RelativePath(s, o) \in Paths
<1>1. PICK size \in TableSizes : paths \in [1..size[4] -> PathEntries]
  BY DEF TablesTyped
<1>2. \A i \in DOMAIN paths : paths[i].path \in Paths
  BY <1>1, PathEntryTyped
<1>3. Slot(paths, s, o) # {} => First(Slot(paths, s, o)) \in DOMAIN paths
  <2>1. Slot(paths, s, o) \subseteq DOMAIN paths /\ DOMAIN paths \subseteq Nat
    BY <1>1, SlotsAssumption DEF Slot
  <2>2. QED BY <2>1, FirstIsLeast
<1>4. <<o>> \in Paths
  BY DEF Paths
<1>5. QED
  BY <1>2, <1>3, <1>4 DEF RelativePath

-----------------------------------------------------------------------------
(* Type correctness. *)

LEMMA InitTyped == Init => TablesTyped /\ OneEntryPerObject /\ WorldTyped
<1> SUFFICES ASSUME Init PROVE TablesTyped /\ OneEntryPerObject /\ WorldTyped
  OBVIOUS
<1>1. PICK size \in TableSizes :
        /\ sessions = [i \in 1..size[1] |-> 0]
        /\ handles = [i \in 1..size[2] |-> FreeHandle]
        /\ clones = [i \in 1..size[3] |-> FreeHandle]
        /\ paths = [i \in 1..size[4] |-> FreePath]
  BY DEF Init
<1>2. FreeHandle \in HandleEntries /\ FreePath \in PathEntries /\ FreePath.session = 0
  BY BoundsAssumption DEF FreePath, FreeHandle, Free, PathEntries, HandleEntries, Paths
<1>3. TablesTyped /\ OneEntryPerObject
  BY <1>1, <1>2, BoundsAssumption DEF TablesTyped, OneEntryPerObject, OneEntryEach
<1>4. \A s \in Sessions : live[s] \in [{} -> Paths]
  BY DEF Init, NoObjects
<1>5. QED
  BY <1>3, <1>4, BoundsAssumption DEF Init, WorldTyped

LEMMA WorldStaysTyped ==
  ASSUME TablesTyped, WorldTyped, [Next]_vars
  PROVE  WorldTyped'
<1> USE BoundsAssumption DEF Sessions, Handles
<1>1. CASE Accept
  BY <1>1 DEF Accept, OpenHandle, WorldTyped
<1>2. CASE AcceptFails
  BY <1>2 DEF AcceptFails, WorldTyped
<1>3. ASSUME NEW s \in Sessions, CloneSession(s) PROVE WorldTyped'
  <2>1. open' \in [Sessions -> SUBSET Handles] /\ nextHandle' \in 1..MaxHandles + 1
    BY <1>3 DEF CloneSession, OpenHandle, WorldTyped
  <2>2. QED
    BY <1>3, <2>1 DEF CloneSession, WorldTyped
<1>4. ASSUME NEW s \in Sessions, NEW h \in Handles, CloseHandle(s, h) PROVE WorldTyped'
  <2>1. NoObjects \in [{} -> Paths]
    BY DEF NoObjects
  <2>2. live' = live \/ live' = [live EXCEPT ![s] = NoObjects]
    BY <1>4 DEF CloseHandle
  <2>3. DOMAIN live' = Sessions /\ \A t \in Sessions : \E D \in SUBSET Objects : live'[t] \in [D -> Paths]
    BY <2>1, <2>2 DEF WorldTyped
  <2>4. disconnects' \in [Sessions -> Nat]
    BY <1>4 DEF CloseHandle, WorldTyped
  <2>5. QED
    BY <1>4, <2>3, <2>4 DEF CloseHandle, WorldTyped
<1>5. ASSUME NEW s \in Sessions, NEW o \in Objects, ConvertToDomain(s, o) PROVE WorldTyped'
  <2>1. [x \in {o} |-> <<"root">>] \in [{o} -> Paths]
    BY DEF Paths
  <2>2. \A t \in Sessions : \E D \in SUBSET Objects : live'[t] \in [D -> Paths]
    BY <1>5, <2>1 DEF ConvertToDomain, WorldTyped
  <2>3. QED
    BY <1>5, <2>2 DEF ConvertToDomain, WorldTyped
<1>6. ASSUME NEW s \in Sessions, NEW o \in Objects, CloseObject(s, o) PROVE WorldTyped'
  <2>1. PICK D \in SUBSET Objects : live[s] \in [D -> Paths]
    BY DEF WorldTyped
  <2>2. live'[s] \in [D \ {o} -> Paths]
    BY <1>6, <2>1 DEF CloseObject, Restrict, WorldTyped
  <2>3. \A t \in Sessions : \E E \in SUBSET Objects : live'[t] \in [E -> Paths]
    BY <1>6, <2>2 DEF CloseObject, WorldTyped
  <2>4. QED
    BY <1>6, <2>3 DEF CloseObject, WorldTyped
<1>7. ASSUME NEW s \in Sessions, NEW p \in Objects, NEW o \in Objects, NEW c \in Commands,
             ReturnObject(s, p, c, o)
      PROVE  WorldTyped'
  <2>1. PICK D \in SUBSET Objects : live[s] \in [D -> Paths]
    BY DEF WorldTyped
  <2>2. Append(live[s][p], c) \in Paths
    BY <1>7, <2>1 DEF ReturnObject, Paths
  <2>3. live'[s] \in [D \cup {o} -> Paths]
    BY <1>7, <2>1, <2>2 DEF ReturnObject, WorldTyped
  <2>4. \A t \in Sessions : \E E \in SUBSET Objects : live'[t] \in [E -> Paths]
    BY <1>7, <2>3 DEF ReturnObject, WorldTyped
  <2>5. QED
    BY <1>7, <2>4 DEF ReturnObject, WorldTyped
<1>8. CASE UNCHANGED vars
  BY <1>8 DEF vars, WorldTyped
<1>9. QED
  BY <1>1, <1>2, <1>3, <1>4, <1>5, <1>6, <1>7, <1>8 DEF Next


\* Each hook writes entries into the tables and never changes their size.
LEMMA TablesStayTyped ==
  ASSUME TablesTyped, WorldTyped, [Next]_vars
  PROVE  /\ TablesTyped'
         /\ DOMAIN sessions' = DOMAIN sessions /\ DOMAIN handles' = DOMAIN handles
         /\ DOMAIN clones' = DOMAIN clones /\ DOMAIN paths' = DOMAIN paths
<1> DEFINE Goal ==
      \A size \in TableSizes :
        /\ sessions \in [1..size[1] -> 0..MaxSessions] => sessions' \in [1..size[1] -> 0..MaxSessions]
        /\ handles \in [1..size[2] -> HandleEntries] => handles' \in [1..size[2] -> HandleEntries]
        /\ clones \in [1..size[3] -> HandleEntries] => clones' \in [1..size[3] -> HandleEntries]
        /\ paths \in [1..size[4] -> PathEntries] => paths' \in [1..size[4] -> PathEntries]
<1>0. \A size \in TableSizes : \A i \in 1..4 : size[i] \in Nat \ {0}
  BY SlotsAssumption
<1>1. ASSUME Accept PROVE Goal
  <2> DEFINE s == nextSession
             h == nextHandle
             victim == sessions[1]
             free == {i \in DOMAIN sessions : sessions[i] = 0}
  <2>1. s \in Sessions /\ h \in Handles
    BY <1>1, BoundsAssumption DEF Accept, OpenHandle, WorldTyped, Sessions, Handles
  <2>2. RememberSession(s)
    BY <1>1 DEF Accept
  <2>3. s \in 0..MaxSessions
    BY <2>1 DEF Sessions
  <2>4. victim \in 0..MaxSessions
    BY <1>0 DEF TablesTyped
  <2>5. ASSUME NEW size \in TableSizes, sessions \in [1..size[1] -> 0..MaxSessions]
        PROVE  sessions' \in [1..size[1] -> 0..MaxSessions]
    <3>1. free # {} => First(free) \in free
      <4>1. free \subseteq 1..size[1] /\ 1..size[1] \subseteq Nat
        BY <2>5
      <4>2. QED
        BY <4>1, FirstIsLeast
    <3>2. QED
      BY <2>2, <2>3, <2>5, <3>1 DEF RememberSession
  <2>6. ASSUME NEW size \in TableSizes, handles \in [1..size[2] -> HandleEntries]
        PROVE  handles' \in [1..size[2] -> HandleEntries]
    <3>1. RememberHandle(handles, s, h) \in [1..size[2] -> HandleEntries]
      BY <2>1, <2>6, <1>0, HandleTables
    <3>2. Forgotten(RememberHandle(handles, s, h), victim, FreeHandle) \in [1..size[2] -> HandleEntries]
      BY <2>1, <3>1, <1>0, <2>4, HandleTables
    <3>3. QED
      BY <2>2, <3>1, <3>2 DEF RememberSession
  <2>7. ASSUME NEW size \in TableSizes, clones \in [1..size[3] -> HandleEntries]
        PROVE  clones' \in [1..size[3] -> HandleEntries]
    <3>1. Forgotten(clones, victim, FreeHandle) \in [1..size[3] -> HandleEntries]
      BY <2>1, <2>7, <1>0, <2>4, HandleTables
    <3>2. QED
      BY <2>2, <2>7, <3>1 DEF RememberSession
  <2>8. ASSUME NEW size \in TableSizes, paths \in [1..size[4] -> PathEntries]
        PROVE  paths' \in [1..size[4] -> PathEntries]
    <3>1. FreePath \in PathEntries
      BY BoundsAssumption DEF FreePath, Free, PathEntries, Paths
    <3>2. Forgotten(paths, victim, FreePath) \in [1..size[4] -> PathEntries]
      BY <2>8, <3>1 DEF Forgotten
    <3>3. QED
      BY <2>2, <2>8, <3>2 DEF RememberSession
  <2>9. QED
    BY <2>5, <2>6, <2>7, <2>8
<1>2. ASSUME UNCHANGED tables PROVE Goal
  BY <1>2 DEF tables
<1>3. ASSUME NEW s \in Sessions, CloneSession(s)
      PROVE  Goal
  <2>1. nextHandle \in Handles
    BY <1>3 DEF CloneSession, OpenHandle, WorldTyped, Handles
  <2>2. \A size \in TableSizes :
          /\ handles \in [1..size[2] -> HandleEntries] => handles' \in [1..size[2] -> HandleEntries]
          /\ clones \in [1..size[3] -> HandleEntries] => clones' \in [1..size[3] -> HandleEntries]
    BY <1>0, <1>3, <2>1, HandleTables, BoundsAssumption DEF CloneSession
  <2>3. QED
    BY <1>3, <2>2 DEF CloneSession
<1>4. ASSUME NEW s \in Sessions, NEW h \in Handles, CloseHandle(s, h)
      PROVE  Goal
  <2>1. s \in 0..MaxSessions
    BY DEF Sessions
  <2>2. ASSUME NEW size \in TableSizes, sessions \in [1..size[1] -> 0..MaxSessions]
        PROVE  sessions' \in [1..size[1] -> 0..MaxSessions]
    BY <1>4, <2>2, BoundsAssumption DEF CloseHandle
  <2>3. ASSUME NEW size \in TableSizes, handles \in [1..size[2] -> HandleEntries]
        PROVE  handles' \in [1..size[2] -> HandleEntries]
    <3>1. MarkClosed(handles, s, h) \in [1..size[2] -> HandleEntries]
      BY <2>1, <2>3, <1>0, HandleTables
    <3>2. Forgotten(MarkClosed(handles, s, h), s, FreeHandle) \in [1..size[2] -> HandleEntries]
      BY <2>1, <3>1, <1>0, HandleTables
    <3>3. QED
      BY <1>4, <3>1, <3>2 DEF CloseHandle
  <2>4. ASSUME NEW size \in TableSizes, clones \in [1..size[3] -> HandleEntries]
        PROVE  clones' \in [1..size[3] -> HandleEntries]
    <3>1. /\ MarkClosed(clones, s, h) \in [1..size[3] -> HandleEntries]
          /\ Forgotten(clones, s, FreeHandle) \in [1..size[3] -> HandleEntries]
      BY <2>1, <2>4, <1>0, HandleTables
    <3>2. QED
      BY <1>4, <3>1 DEF CloseHandle
  <2>5. ASSUME NEW size \in TableSizes, paths \in [1..size[4] -> PathEntries]
        PROVE  paths' \in [1..size[4] -> PathEntries]
    <3>1. FreePath \in PathEntries
      BY BoundsAssumption DEF FreePath, Free, PathEntries, Paths
    <3>2. Forgotten(paths, s, FreePath) \in [1..size[4] -> PathEntries]
      BY <2>5, <3>1 DEF Forgotten
    <3>3. QED
      BY <1>4, <2>5, <3>2 DEF CloseHandle
  <2>6. QED
    BY <2>2, <2>3, <2>4, <2>5
<1>5. ASSUME NEW s \in Sessions, NEW o \in Objects, ConvertToDomain(s, o)
      PROVE  Goal
  <2>1. <<"root">> \in Paths
    BY DEF Paths
  <2>2. \A size \in TableSizes :
          paths \in [1..size[4] -> PathEntries] => paths' \in [1..size[4] -> PathEntries]
    BY <1>0, <1>5, <2>1, PathTables DEF ConvertToDomain
  <2>3. QED
    BY <1>5, <2>2 DEF ConvertToDomain
<1>6. ASSUME NEW s \in Sessions, NEW o \in Objects, CloseObject(s, o)
      PROVE  Goal
  <2>1. <<"root">> \in Paths
    BY DEF Paths
  <2>2. ASSUME NEW size \in TableSizes, paths \in [1..size[4] -> PathEntries]
        PROVE  paths' \in [1..size[4] -> PathEntries]
    <3>1. MarkClosed(paths, s, o) \in [1..size[4] -> PathEntries]
      BY <1>0, <2>1, <2>2, PathTables
    <3>2. QED
      BY <1>6, <3>1 DEF CloseObject
  <2>3. QED
    BY <1>6, <2>2 DEF CloseObject
<1>7. ASSUME NEW s \in Sessions, NEW p \in Objects, NEW o \in Objects, NEW c \in Commands,
             ReturnObject(s, p, c, o)
      PROVE  Goal
  <2>1. ChildPath(RelativePath(s, p), c) \in Paths
    BY RelativePathTyped, ChildPathIsCut
  <2>2. \A size \in TableSizes :
          paths \in [1..size[4] -> PathEntries] => paths' \in [1..size[4] -> PathEntries]
    BY <1>0, <1>7, <2>1, PathTables DEF ReturnObject
  <2>3. QED
    BY <1>7, <2>2 DEF ReturnObject
<1>8. Goal
  BY <1>1, <1>2, <1>3, <1>4, <1>5, <1>6, <1>7 DEF Next, vars, tables, AcceptFails
<1>9. QED
  BY <1>8 DEF TablesTyped


-----------------------------------------------------------------------------
(* An object has one entry. *)

\* RememberDomainPath writes one entry, over the object's own if it has one.
LEMMA RememberedPath ==
  ASSUME NEW n \in Nat \ {0}, NEW table \in [1..n -> PathEntries],
         NEW s \in Sessions, NEW o \in Objects, NEW path \in Paths
  PROVE  \E k \in 1..n :
           LET T == RememberDomainPath(table, s, o, path)
           IN /\ T[k].session = s /\ T[k].key = o /\ T[k].path = path
              /\ \A i \in 1..n \ {k} : T[i] = table[i]
              /\ (\E i \in 1..n : table[i].session = s /\ table[i].key = o) =>
                   table[k].session = s /\ table[k].key = o
              /\ (\E i \in 1..n : table[i].session = 0) =>
                   \/ table[k].session = 0
                   \/ table[k].session = s /\ table[k].key = o
<1> DEFINE k == SlotFor(table, s, o)
<1>1. k \in 1..n /\ (Slot(table, s, o) # {} => k \in Slot(table, s, o))
      /\ (Slot(table, s, o) = {} /\ FreeSlots(table) # {} => k \in FreeSlots(table))
  BY SlotForIsSlot
<1> HIDE DEF k
<1>2. RememberDomainPath(table, s, o, path) =
        [table EXCEPT ![k] = [session |-> s, key |-> o, path |-> path,
                              closed |-> Slot(table, s, o) # {} /\ @.closed]]
  BY DEF RememberDomainPath, k
<1>3. QED
  BY <1>1, <1>2 DEF Slot, FreeSlots

LEMMA OneEntryKept ==
  ASSUME NEW n \in Nat \ {0}, NEW table \in [1..n -> PathEntries], OneEntryEach(table),
         NEW s \in Sessions, NEW o \in Objects
  PROVE  /\ \A path \in Paths : OneEntryEach(RememberDomainPath(table, s, o, path))
         /\ OneEntryEach(MarkClosed(table, s, o))
<1>1. ASSUME NEW path \in Paths PROVE OneEntryEach(RememberDomainPath(table, s, o, path))
  <2> DEFINE T == RememberDomainPath(table, s, o, path)
  <2>1. T \in [1..n -> PathEntries]
    BY PathTables
  <2>2. PICK k \in 1..n :
           /\ T[k].session = s /\ T[k].key = o
           /\ \A i \in 1..n \ {k} : T[i] = table[i]
           /\ (\E i \in 1..n : table[i].session = s /\ table[i].key = o) =>
                table[k].session = s /\ table[k].key = o
    BY RememberedPath
  <2> HIDE DEF T
  <2>3. OneEntryEach(T)
    BY <2>1, <2>2 DEF OneEntryEach, Sessions
  <2>4. QED
    BY <2>3 DEF T
<1>2. OneEntryEach(MarkClosed(table, s, o))
  <2> DEFINE T == MarkClosed(table, s, o)
  <2>1. DOMAIN T = 1..n /\ \A i \in 1..n : T[i].session = table[i].session /\ T[i].key = table[i].key
    BY DEF MarkClosed, PathEntries
  <2> HIDE DEF T
  <2>2. OneEntryEach(T)
    BY <2>1 DEF OneEntryEach
  <2>3. QED
    BY <2>2 DEF T
<1>3. QED
  BY <1>1, <1>2

LEMMA OneEntryStep ==
  ASSUME TablesTyped, WorldTyped, OneEntryPerObject, [Next]_vars
  PROVE  OneEntryPerObject'
<1>1. PICK size \in TableSizes :
        sessions \in [1..size[1] -> 0..MaxSessions] /\ paths \in [1..size[4] -> PathEntries]
  BY DEF TablesTyped
<1>2. size[1] \in Nat \ {0} /\ size[4] \in Nat \ {0}
  BY SlotsAssumption
<1>3. ASSUME NEW v \in 0..MaxSessions PROVE OneEntryEach(Forgotten(paths, v, FreePath))
  <2> DEFINE T == Forgotten(paths, v, FreePath)
  <2>1. DOMAIN T = 1..size[4] /\ \A i \in 1..size[4] : T[i] = paths[i] \/ T[i].session = 0
    BY <1>1 DEF Forgotten, FreePath, Free
  <2> HIDE DEF T
  <2>2. OneEntryEach(T)
    BY <1>1, <2>1 DEF OneEntryEach, OneEntryPerObject
  <2>3. QED
    BY <2>2 DEF T
<1>4. CASE Accept
  <2>1. sessions[1] \in 0..MaxSessions
    BY <1>1, <1>2
  <2>2. paths' = paths \/ paths' = Forgotten(paths, sessions[1], FreePath)
    BY <1>4 DEF Accept, RememberSession
  <2>3. QED
    BY <1>3, <2>1, <2>2 DEF OneEntryPerObject
<1>5. ASSUME NEW s \in Sessions, NEW h \in Handles, CloseHandle(s, h) PROVE OneEntryPerObject'
  <2>1. s \in 0..MaxSessions
    BY DEF Sessions
  <2>2. paths' = paths \/ paths' = Forgotten(paths, s, FreePath)
    BY <1>5 DEF CloseHandle
  <2>3. QED
    BY <1>3, <2>1, <2>2 DEF OneEntryPerObject
<1>6. ASSUME NEW s \in Sessions, NEW o \in Objects, ConvertToDomain(s, o) PROVE OneEntryPerObject'
  <2>1. <<"root">> \in Paths
    BY DEF Paths
  <2>2. QED
    BY <1>1, <1>2, <1>6, <2>1, OneEntryKept DEF ConvertToDomain, OneEntryPerObject
<1>7. ASSUME NEW s \in Sessions, NEW o \in Objects, CloseObject(s, o) PROVE OneEntryPerObject'
  BY <1>1, <1>2, <1>7, OneEntryKept DEF CloseObject, OneEntryPerObject
<1>8. ASSUME NEW s \in Sessions, NEW p \in Objects, NEW o \in Objects, NEW c \in Commands,
             ReturnObject(s, p, c, o)
      PROVE  OneEntryPerObject'
  <2>1. ChildPath(RelativePath(s, p), c) \in Paths
    BY RelativePathTyped, ChildPathIsCut
  <2>2. QED
    BY <1>1, <1>2, <1>8, <2>1, OneEntryKept DEF ReturnObject, OneEntryPerObject
<1>9. CASE UNCHANGED paths
  BY <1>9 DEF OneEntryPerObject
<1>10. QED
  BY <1>4, <1>5, <1>6, <1>7, <1>8, <1>9 DEF Next, vars, tables, AcceptFails, CloneSession


-----------------------------------------------------------------------------
(* Nothing is kept after the last close, whatever a full table lost. *)

\* T is table with the entry of (s, h) in slot k: its own, or a free one.
Writes(T, table, n, k, s, h) ==
  /\ T[k] = [session |-> s, key |-> h, closed |-> FALSE, path |-> <<>>]
  /\ \A i \in 1..n \ {k} : T[i] = table[i]
  /\ (\E i \in 1..n : table[i].session = 0) =>
       \/ table[k].session = 0
       \/ table[k].session = s /\ table[k].key = h

LEMMA RememberedHandle ==
  ASSUME NEW n \in Nat \ {0}, NEW table \in [1..n -> HandleEntries],
         NEW s \in Sessions, NEW h \in Handles
  PROVE  \E k \in 1..n : Writes(RememberHandle(table, s, h), table, n, k, s, h)
<1> DEFINE k == SlotFor(table, s, h)
<1>1. k \in 1..n /\ (Slot(table, s, h) # {} => k \in Slot(table, s, h))
      /\ (Slot(table, s, h) = {} /\ FreeSlots(table) # {} => k \in FreeSlots(table))
  BY SlotForIsSlot
<1> HIDE DEF k
<1>2. RememberHandle(table, s, h) =
        [table EXCEPT ![k] = [session |-> s, key |-> h, closed |-> FALSE, path |-> <<>>]]
  BY DEF RememberHandle, k
<1>3. QED
  BY <1>1, <1>2 DEF Slot, FreeSlots, Writes

\* Mark*CloseObserved* on an entry of a handle.
LEMMA MarkedHandle ==
  ASSUME NEW n \in Nat, NEW table \in [1..n -> HandleEntries], NEW s, NEW h, NEW i \in 1..n
  PROVE  /\ MarkClosed(table, s, h)[i].session = table[i].session
         /\ MarkClosed(table, s, h)[i].key = table[i].key
         /\ MarkClosed(table, s, h)[i].closed <=>
              table[i].closed \/ (table[i].session = s /\ table[i].key = h)
<1>1. table[i] \in HandleEntries
  OBVIOUS
<1>2. MarkClosed(table, s, h)[i] =
        IF i \in Slot(table, s, h) THEN [table[i] EXCEPT !.closed = TRUE] ELSE table[i]
  BY DEF MarkClosed
<1>3. i \in Slot(table, s, h) <=> table[i].session = s /\ table[i].key = h
  BY DEF Slot
<1>4. QED
  BY <1>1, <1>2, <1>3 DEF HandleEntries

\* Tables as TypeOK has them, with a name for the size of each.
LEMMA TableSizesTyped ==
  ASSUME TablesTyped
  PROVE  \E a, b, c, d \in Nat \ {0} :
           /\ sessions \in [1..a -> 0..MaxSessions]
           /\ handles \in [1..b -> HandleEntries]
           /\ clones \in [1..c -> HandleEntries]
           /\ paths \in [1..d -> PathEntries]
<1>1. PICK size \in TableSizes :
        /\ sessions \in [1..size[1] -> 0..MaxSessions]
        /\ handles \in [1..size[2] -> HandleEntries]
        /\ clones \in [1..size[3] -> HandleEntries]
        /\ paths \in [1..size[4] -> PathEntries]
  BY DEF TablesTyped
<1>2. \A i \in 1..4 : size[i] \in Nat \ {0}
  BY SlotsAssumption
<1>3. size[1] \in Nat \ {0} /\ size[2] \in Nat \ {0} /\ size[3] \in Nat \ {0} /\ size[4] \in Nat \ {0}
  BY <1>2
<1>4. QED
  BY <1>1, <1>3

\* Entries a hook adds are those of the session it is about.
OnlyFor(s) ==
  /\ \A i \in DOMAIN sessions : sessions'[i] \in {sessions[i], 0, s}
  /\ \A i \in DOMAIN handles : handles'[i].session \in {handles[i].session, 0, s}
  /\ \A i \in DOMAIN clones : clones'[i].session \in {clones[i].session, 0, s}
  /\ \A i \in DOMAIN paths : paths'[i].session \in {paths[i].session, 0, s}

LEMMA AcceptOnlyFor ==
  ASSUME TablesTyped, WorldTyped, Accept
  PROVE  /\ OnlyFor(nextSession)
         /\ \A i \in DOMAIN handles :
              \/ handles'[i] = handles[i]
              \/ handles'[i].session = 0
              \/ handles'[i].session = nextSession /\ handles'[i].key = nextHandle
<1> DEFINE s == nextSession
           h == nextHandle
           R == RememberHandle(handles, s, h)
           victim == sessions[1]
<1>1. PICK a, b, c, d \in Nat \ {0} :
           /\ sessions \in [1..a -> 0..MaxSessions]
           /\ handles \in [1..b -> HandleEntries]
           /\ clones \in [1..c -> HandleEntries]
           /\ paths \in [1..d -> PathEntries]
  BY TableSizesTyped
<1>2. s \in Sessions /\ h \in Handles
  BY BoundsAssumption DEF Accept, OpenHandle, WorldTyped, Sessions, Handles
<1>3. PICK k \in 1..b : Writes(R, handles, b, k, s, h)
  BY <1>1, <1>2, RememberedHandle
<1>4. R \in [1..b -> HandleEntries]
  BY <1>1, <1>2, HandleTables, BoundsAssumption
<1>5. RememberSession(s)
  BY DEF Accept
<1>6. handles' = R \/ handles' = Forgotten(R, victim, FreeHandle)
  BY <1>5 DEF RememberSession
<1> HIDE DEF s, h, R, victim
<1>7. \A i \in 1..b : handles'[i] = R[i] \/ handles'[i].session = 0
  BY <1>4, <1>6 DEF Forgotten, FreeHandle, Free
<1>8. \A i \in 1..b :
         \/ handles'[i] = handles[i]
         \/ handles'[i].session = 0
         \/ handles'[i].session = s /\ handles'[i].key = h
  BY <1>3, <1>7 DEF Writes
<1>9. \A i \in 1..c : clones'[i].session \in {clones[i].session, 0}
  <2>1. clones' = clones \/ clones' = Forgotten(clones, victim, FreeHandle)
    BY <1>5 DEF RememberSession, victim
  <2>2. QED
    BY <1>1, <2>1 DEF Forgotten, FreeHandle, Free
<1>10. \A i \in 1..d : paths'[i].session \in {paths[i].session, 0}
  <2>1. paths' = paths \/ paths' = Forgotten(paths, victim, FreePath)
    BY <1>5 DEF RememberSession, victim
  <2>2. QED
    BY <1>1, <2>1 DEF Forgotten, FreePath, Free
<1>11. \A i \in 1..a : sessions'[i] \in {sessions[i], s}
  BY <1>1, <1>5 DEF RememberSession
<1>12. QED
  BY <1>1, <1>8, <1>9, <1>10, <1>11 DEF OnlyFor, s, h

LEMMA CloneOnlyFor ==
  ASSUME TablesTyped, WorldTyped, NEW s \in Sessions, CloneSession(s)
  PROVE  /\ OnlyFor(s)
         /\ \A i \in DOMAIN handles :
              \/ handles'[i] = handles[i]
              \/ handles'[i].session = s /\ handles'[i].key = nextHandle
<1> DEFINE h == nextHandle
           R == RememberHandle(handles, s, h)
           Q == RememberHandle(clones, s, h)
<1>1. PICK a, b, c, d \in Nat \ {0} :
           /\ sessions \in [1..a -> 0..MaxSessions]
           /\ handles \in [1..b -> HandleEntries]
           /\ clones \in [1..c -> HandleEntries]
           /\ paths \in [1..d -> PathEntries]
  BY TableSizesTyped
<1>2. h \in Handles
  BY BoundsAssumption DEF CloneSession, OpenHandle, WorldTyped, Handles
<1>3. PICK k \in 1..b : Writes(R, handles, b, k, s, h)
  BY <1>1, <1>2, RememberedHandle
<1>4. PICK m \in 1..c : Writes(Q, clones, c, m, s, h)
  BY <1>1, <1>2, RememberedHandle
<1>5. handles' = R /\ clones' = Q /\ sessions' = sessions /\ paths' = paths
  BY DEF CloneSession
<1> HIDE DEF h, R, Q
<1>6. \A i \in 1..b :
        handles'[i] = handles[i] \/ (handles'[i].session = s /\ handles'[i].key = h)
  BY <1>3, <1>5 DEF Writes
<1>7. \A i \in 1..c : clones'[i] = clones[i] \/ clones'[i].session = s
  BY <1>4, <1>5 DEF Writes
<1>8. QED
  BY <1>1, <1>5, <1>6, <1>7 DEF OnlyFor, h

\* The hooks of a domain only write paths.
LEMMA PathOnlyFor ==
  ASSUME TablesTyped, WorldTyped, NEW s \in Sessions, NEW o \in Objects,
         \/ ConvertToDomain(s, o)
         \/ CloseObject(s, o)
         \/ \E p \in Objects, c \in Commands : ReturnObject(s, p, c, o)
  PROVE  /\ OnlyFor(s) /\ open[s] # {}
         /\ UNCHANGED <<sessions, handles, clones, open, nextHandle, nextSession, root, disconnects>>
<1>1. PICK d \in Nat \ {0} : paths \in [1..d -> PathEntries]
  BY TableSizesTyped
<1>2. \A path \in Paths : \A i \in 1..d :
        RememberDomainPath(paths, s, o, path)[i].session \in {paths[i].session, s}
  BY <1>1, RememberedPath
<1>3. \A i \in 1..d : MarkClosed(paths, s, o)[i].session = paths[i].session
  BY <1>1 DEF MarkClosed, PathEntries
<1>4. <<"root">> \in Paths
  BY DEF Paths
<1>5. \A p \in Objects, c \in Commands : ChildPath(RelativePath(s, p), c) \in Paths
  BY RelativePathTyped, ChildPathIsCut
<1>6. \/ paths' = MarkClosed(paths, s, o)
      \/ \E path \in Paths : paths' = RememberDomainPath(paths, s, o, path)
  BY <1>4, <1>5 DEF ConvertToDomain, CloseObject, ReturnObject
<1>7. \A i \in DOMAIN paths : paths'[i].session \in {paths[i].session, s}
  BY <1>1, <1>2, <1>3, <1>6
<1>8. UNCHANGED <<sessions, handles, clones, open, nextHandle, nextSession, root, disconnects>> /\ open[s] # {}
  BY DEF ConvertToDomain, CloseObject, ReturnObject
<1>9. QED
  BY <1>7, <1>8 DEF OnlyFor


\* The Close hook: marks the handle, or forgets the session.
LEMMA CloseEntries ==
  ASSUME TablesTyped, NEW s \in Sessions, NEW h \in Handles, CloseHandle(s, h)
  PROVE  LET final == Active(MarkClosed(handles, s, h), s) = {}
         IN /\ final <=> \A i \in DOMAIN handles :
                           handles[i].session = s /\ ~handles[i].closed => handles[i].key = h
            /\ final =>
                 /\ \A i \in DOMAIN sessions : sessions'[i] = IF sessions[i] = s THEN 0 ELSE sessions[i]
                 /\ \A i \in DOMAIN handles :
                      IF handles[i].session = s THEN handles'[i].session = 0 ELSE handles'[i] = handles[i]
                 /\ \A i \in DOMAIN clones :
                      IF clones[i].session = s THEN clones'[i].session = 0 ELSE clones'[i] = clones[i]
                 /\ \A i \in DOMAIN paths :
                      IF paths[i].session = s THEN paths'[i].session = 0 ELSE paths'[i] = paths[i]
            /\ ~final =>
                 /\ sessions' = sessions /\ paths' = paths
                 /\ handles' = MarkClosed(handles, s, h) /\ clones' = MarkClosed(clones, s, h)
<1> DEFINE M == MarkClosed(handles, s, h)
           final == Active(M, s) = {}
<1>1. PICK a, b, c, d \in Nat \ {0} :
           /\ sessions \in [1..a -> 0..MaxSessions]
           /\ handles \in [1..b -> HandleEntries]
           /\ clones \in [1..c -> HandleEntries]
           /\ paths \in [1..d -> PathEntries]
  BY TableSizesTyped
<1>2. M \in [1..b -> HandleEntries]
  BY <1>1, HandleTables
<1>3. \A i \in 1..b : M[i].session = handles[i].session /\ M[i].key = handles[i].key
        /\ (M[i].closed <=> handles[i].closed \/ (handles[i].session = s /\ handles[i].key = h))
  <2> TAKE i \in 1..b
  <2>1. b \in Nat /\ handles \in [1..b -> HandleEntries]
    BY <1>1
  <2>2. QED
    BY ONLY <2>1, MarkedHandle, i \in 1..b
<1>4. /\ sessions' = [i \in DOMAIN sessions |-> IF final /\ sessions[i] = s THEN 0 ELSE sessions[i]]
      /\ handles' = IF final THEN Forgotten(M, s, FreeHandle) ELSE M
      /\ clones' = IF final THEN Forgotten(clones, s, FreeHandle) ELSE MarkClosed(clones, s, h)
      /\ paths' = IF final THEN Forgotten(paths, s, FreePath) ELSE paths
  BY DEF CloseHandle
<1> HIDE DEF M
<1>5. final <=> \A i \in 1..b : ~ (M[i].session = s /\ ~M[i].closed)
  BY <1>2 DEF Active
<1>6. final <=> \A i \in DOMAIN handles : handles[i].session = s /\ ~handles[i].closed => handles[i].key = h
  BY <1>1, <1>3, <1>5
<1> HIDE DEF final
<1>7. ASSUME final
      PROVE  \A i \in DOMAIN handles :
               IF handles[i].session = s THEN handles'[i].session = 0 ELSE handles'[i] = handles[i]
  <2>1. \A i \in 1..b : handles'[i] = IF M[i].session = s THEN FreeHandle ELSE M[i]
    BY <1>2, <1>4, <1>7 DEF Forgotten
  <2>2. \A i \in 1..b : M[i].session = s \/ M[i] = handles[i]
    BY <1>1, <1>3 DEF M, MarkClosed, Slot
  <2>3. FreeHandle.session = 0
    BY DEF FreeHandle, Free
  <2>4. QED
    BY <1>1, <1>3, <2>1, <2>2, <2>3
<1>8. ASSUME final
      PROVE  /\ \A i \in DOMAIN clones :
                  IF clones[i].session = s THEN clones'[i].session = 0 ELSE clones'[i] = clones[i]
             /\ \A i \in DOMAIN paths :
                  IF paths[i].session = s THEN paths'[i].session = 0 ELSE paths'[i] = paths[i]
  BY <1>1, <1>4, <1>8 DEF Forgotten, FreeHandle, FreePath, Free
<1>9. ~final => sessions' = sessions
  BY <1>1, <1>4
<1>10. final => \A i \in DOMAIN sessions : sessions'[i] = IF sessions[i] = s THEN 0 ELSE sessions[i]
  BY <1>1, <1>4
<1>11. ~final => paths' = paths /\ handles' = M /\ clones' = MarkClosed(clones, s, h)
  BY <1>4
<1>12. QED
  BY <1>6, <1>7, <1>8, <1>9, <1>10, <1>11 DEF final, M

\* As far as a session's entries can tell, what NothingKeptAfterClose says.
NothingOf(s) ==
  /\ \A i \in DOMAIN sessions : sessions[i] # s
  /\ \A i \in DOMAIN handles : handles[i].session # s
  /\ \A i \in DOMAIN clones : clones[i].session # s
  /\ \A i \in DOMAIN paths : paths[i].session # s

LEMMA NothingOfGone ==
  ASSUME TablesTyped
  PROVE  NothingKeptAfterClose <=> \A s \in Sessions : open[s] = {} => NothingOf(s)
<1>1. \A s \in Sessions : s \in Tracked <=> \E i \in DOMAIN sessions : sessions[i] = s
  BY DEF Tracked, Range, Sessions
<1>2. QED
  BY <1>1 DEF NothingKeptAfterClose, NothingOf, Connected

\* A hook about a session that is connected leaves nothing of one that is not.
LEMMA OnlyForKeeps ==
  ASSUME TablesTyped, NothingKeptAfterClose, [Next]_vars, WorldTyped,
         NEW s \in Sessions, OnlyFor(s), open'[s] # {},
         \A t \in Sessions : open[t] \subseteq open'[t]
  PROVE  NothingKeptAfterClose'
<1>1. /\ TablesTyped'
      /\ DOMAIN sessions' = DOMAIN sessions /\ DOMAIN handles' = DOMAIN handles
      /\ DOMAIN clones' = DOMAIN clones /\ DOMAIN paths' = DOMAIN paths
  BY TablesStayTyped
<1>2. ASSUME NEW t \in Sessions, open'[t] = {} PROVE NothingOf(t)'
  <2>1. t # s /\ t # 0 /\ open[t] = {}
    BY <1>2 DEF Sessions
  <2>2. NothingOf(t)
    BY <2>1, NothingOfGone
  <2>3. QED
    BY <1>1, <2>1, <2>2 DEF NothingOf, OnlyFor
<1>3. \A t \in Sessions : t \in Tracked' => \E i \in DOMAIN sessions' : sessions'[i] = t
  BY DEF Tracked, Range
<1>4. QED
  BY <1>1, <1>2, <1>3 DEF NothingKeptAfterClose, NothingOf, Connected


\* The steps that open a handle h' for session s: Accept and CloneSession.
Opens(s) ==
  /\ nextHandle <= MaxHandles
  /\ open' = [open EXCEPT ![s] = @ \cup {nextHandle}]
  /\ nextHandle' = nextHandle + 1

LEMMA SafeKept ==
  ASSUME TablesTyped, WorldTyped, NothingKeptAfterClose, KnownIsOpen, [Next]_vars
  PROVE  NothingKeptAfterClose' /\ KnownIsOpen'
<1>0. /\ TablesTyped'
      /\ DOMAIN sessions' = DOMAIN sessions /\ DOMAIN handles' = DOMAIN handles
      /\ DOMAIN clones' = DOMAIN clones /\ DOMAIN paths' = DOMAIN paths
  BY TablesStayTyped
<1>a. \A i \in DOMAIN handles : handles[i].session \in 0..MaxSessions
  BY TableSizesTyped DEF HandleEntries
<1>b. \A i \in DOMAIN handles : handles[i].session # 0 => handles[i].session \in Sessions
  BY <1>a, BoundsAssumption DEF Sessions
<1>1. CASE Accept
  <2>1. nextSession \in Sessions /\ Opens(nextSession) /\ nextHandle \in Handles
    BY <1>1, BoundsAssumption DEF Accept, OpenHandle, Opens, WorldTyped, Handles
  <2>2. open'[nextSession] # {} /\ nextHandle \in open'[nextSession]
        /\ \A t \in Sessions : open[t] \subseteq open'[t]
    BY <2>1 DEF Opens, WorldTyped
  <2>3. NothingKeptAfterClose'
    BY <1>1, <2>1, <2>2, AcceptOnlyFor, OnlyForKeeps
  <2>4. KnownIsOpen'
    <3>1. \A i \in DOMAIN handles :
            \/ handles'[i] = handles[i]
            \/ handles'[i].session = 0
            \/ handles'[i].session = nextSession /\ handles'[i].key = nextHandle
      BY <1>1, AcceptOnlyFor
    <3>2. QED
      BY <1>0, <1>b, <2>2, <3>1 DEF KnownIsOpen
  <2>5. QED
    BY <2>3, <2>4
<1>2. ASSUME NEW s \in Sessions, CloneSession(s) PROVE NothingKeptAfterClose' /\ KnownIsOpen'
  <2>1. Opens(s) /\ nextHandle \in Handles
    BY <1>2, BoundsAssumption DEF CloneSession, OpenHandle, Opens, WorldTyped, Handles
  <2>2. open'[s] # {} /\ nextHandle \in open'[s]
        /\ \A t \in Sessions : open[t] \subseteq open'[t]
    BY <2>1 DEF Opens, WorldTyped
  <2>3. NothingKeptAfterClose'
    BY <1>2, <2>1, <2>2, CloneOnlyFor, OnlyForKeeps
  <2>4. KnownIsOpen'
    <3>1. \A i \in DOMAIN handles :
            \/ handles'[i] = handles[i]
            \/ handles'[i].session = s /\ handles'[i].key = nextHandle
      BY <1>2, CloneOnlyFor
    <3>2. QED
      BY <1>0, <1>b, <2>2, <3>1 DEF KnownIsOpen
  <2>5. QED
    BY <2>3, <2>4
<1>3. ASSUME NEW s \in Sessions, NEW h \in Handles, CloseHandle(s, h)
      PROVE  NothingKeptAfterClose' /\ KnownIsOpen'
  <2> DEFINE final == Active(MarkClosed(handles, s, h), s) = {}
  <2>1. /\ final <=> \A i \in DOMAIN handles :
                       handles[i].session = s /\ ~handles[i].closed => handles[i].key = h
        /\ final =>
             /\ \A i \in DOMAIN sessions : sessions'[i] = IF sessions[i] = s THEN 0 ELSE sessions[i]
             /\ \A i \in DOMAIN handles :
                  IF handles[i].session = s THEN handles'[i].session = 0 ELSE handles'[i] = handles[i]
             /\ \A i \in DOMAIN clones :
                  IF clones[i].session = s THEN clones'[i].session = 0 ELSE clones'[i] = clones[i]
             /\ \A i \in DOMAIN paths :
                  IF paths[i].session = s THEN paths'[i].session = 0 ELSE paths'[i] = paths[i]
        /\ ~final =>
             /\ sessions' = sessions /\ paths' = paths
             /\ handles' = MarkClosed(handles, s, h) /\ clones' = MarkClosed(clones, s, h)
    BY <1>3, CloseEntries
  <2> HIDE DEF final
  <2>2. open' = [open EXCEPT ![s] = @ \ {h}] /\ h \in open[s] /\ s # 0
    BY <1>3 DEF CloseHandle, Sessions
  <2>3. \A i \in DOMAIN handles :
          /\ MarkClosed(handles, s, h)[i].session = handles[i].session
          /\ MarkClosed(handles, s, h)[i].key = handles[i].key
          /\ MarkClosed(handles, s, h)[i].closed <=>
               handles[i].closed \/ (handles[i].session = s /\ handles[i].key = h)
    <3>1. PICK b \in Nat : handles \in [1..b -> HandleEntries]
      BY TableSizesTyped
    <3>2. QED
      BY <3>1, MarkedHandle
  <2>4. \A i \in DOMAIN clones : MarkClosed(clones, s, h)[i].session = clones[i].session
    <3>1. PICK c \in Nat : clones \in [1..c -> HandleEntries]
      BY TableSizesTyped
    <3>2. QED
      BY <3>1, MarkedHandle
  <2>5. open[s] = {h} => final
    BY <2>1 DEF KnownIsOpen, Sessions
  <2>6. ASSUME NEW t \in Sessions, open'[t] = {} PROVE NothingOf(t)'
    <3>1. CASE t = s
      <4>1. final
        BY <2>2, <2>5, <2>6, <3>1 DEF WorldTyped
      <4>2. QED
        BY <1>0, <2>1, <2>2, <3>1, <4>1 DEF NothingOf
    <3>2. CASE t # s
      <4>1. open[t] = {}
        BY <2>2, <2>6, <3>2 DEF WorldTyped
      <4>2. NothingOf(t) /\ t # 0
        BY <4>1, NothingOfGone DEF Sessions
      <4>3. CASE final
        BY <1>0, <2>1, <3>2, <4>2, <4>3 DEF NothingOf
      <4>4. CASE ~final
        BY <1>0, <2>1, <2>3, <2>4, <4>2, <4>4 DEF NothingOf
      <4>5. QED
        BY <4>3, <4>4
    <3>3. QED
      BY <3>1, <3>2
  <2>7. NothingKeptAfterClose'
    <3>1. \A t \in Sessions : t \in Tracked' => \E i \in DOMAIN sessions' : sessions'[i] = t
      BY DEF Tracked, Range
    <3>2. QED
      BY <2>6, <3>1 DEF NothingKeptAfterClose, NothingOf, Connected
  <2>8. KnownIsOpen'
    <3>1. ASSUME NEW i \in DOMAIN handles, handles'[i].session # 0, ~handles'[i].closed
          PROVE  handles'[i].key \in open'[handles'[i].session]
      <4>1. CASE final
        BY <1>b, <2>1, <2>2, <3>1, <4>1 DEF KnownIsOpen, WorldTyped
      <4>2. CASE ~final
        <5>1. /\ handles'[i].session = handles[i].session /\ handles'[i].key = handles[i].key
              /\ ~handles[i].closed /\ (handles[i].session = s => handles[i].key # h)
          BY <2>1, <2>3, <3>1, <4>2
        <5>2. QED
          BY <1>b, <2>2, <3>1, <5>1 DEF KnownIsOpen, WorldTyped
      <4>3. QED
        BY <4>1, <4>2
    <3>2. QED
      BY <1>0, <3>1 DEF KnownIsOpen
  <2>9. QED
    BY <2>7, <2>8
<1>4. ASSUME NEW s \in Sessions, NEW o \in Objects,
             \/ ConvertToDomain(s, o)
             \/ CloseObject(s, o)
             \/ \E p \in Objects, c \in Commands : ReturnObject(s, p, c, o)
      PROVE  NothingKeptAfterClose' /\ KnownIsOpen'
  <2>1. OnlyFor(s) /\ open[s] # {} /\ open' = open /\ handles' = handles
    BY <1>4, PathOnlyFor
  <2>2. NothingKeptAfterClose'
    BY <2>1, OnlyForKeeps
  <2>3. QED
    BY <2>1, <2>2 DEF KnownIsOpen
<1>5. CASE UNCHANGED <<tables, open>>
  BY <1>5 DEF tables, NothingKeptAfterClose, KnownIsOpen, Tracked, Connected
<1>6. QED
  BY <1>1, <1>2, <1>3, <1>4, <1>5 DEF Next, vars, AcceptFails


TypedInv == TablesTyped /\ OneEntryPerObject /\ WorldTyped
SafeInv == TypedInv /\ NothingKeptAfterClose /\ KnownIsOpen

LEMMA SafeInit == Init => SafeInv
<1> SUFFICES ASSUME Init PROVE SafeInv
  OBVIOUS
<1>1. TypedInv
  BY InitTyped DEF TypedInv
<1>2. \A i \in DOMAIN handles : handles[i].session = 0
  BY DEF Init, FreeHandle, Free
<1>3. \A i \in DOMAIN clones : clones[i].session = 0
  BY DEF Init, FreeHandle, Free
<1>4. \A i \in DOMAIN paths : paths[i].session = 0
  BY DEF Init, FreePath, Free
<1>5. \A i \in DOMAIN sessions : sessions[i] = 0
  BY DEF Init
<1>6. \A s \in Sessions : NothingOf(s)
  BY <1>2, <1>3, <1>4, <1>5 DEF NothingOf, Sessions
<1>7. NothingKeptAfterClose /\ KnownIsOpen
  BY <1>1, <1>2, <1>6, NothingOfGone DEF KnownIsOpen, TypedInv
<1>8. QED
  BY <1>1, <1>7 DEF SafeInv

LEMMA SafeStep == SafeInv /\ [Next]_vars => SafeInv'
<1> SUFFICES ASSUME SafeInv, [Next]_vars PROVE SafeInv'
  OBVIOUS
<1>1. TablesTyped' /\ WorldTyped' /\ OneEntryPerObject'
  BY TablesStayTyped, WorldStaysTyped, OneEntryStep DEF SafeInv, TypedInv
<1>2. NothingKeptAfterClose' /\ KnownIsOpen'
  BY SafeKept DEF SafeInv, TypedInv
<1>3. QED
  BY <1>1, <1>2 DEF SafeInv, TypedInv

LEMMA SafeAlways == Spec => []SafeInv
BY SafeInit, SafeStep, PTL DEF Spec

LEMMA TypedIsTypeOK == TypedInv => TypeOK
<1> SUFFICES ASSUME TypedInv PROVE TypeOK
  OBVIOUS
<1>1. PICK size \in TableSizes :
        /\ sessions \in [1..size[1] -> 0..MaxSessions]
        /\ handles \in [1..size[2] -> HandleEntries]
        /\ clones \in [1..size[3] -> HandleEntries]
        /\ paths \in [1..size[4] -> PathEntries]
  BY DEF TypedInv, TablesTyped
<1>2. size \in [1..4 -> Nat \ {0}]
  BY SlotsAssumption
<1>3. Len(sessions) = size[1] /\ Len(handles) = size[2] /\ Len(clones) = size[3] /\ Len(paths) = size[4]
  <2>1. size[1] \in Nat /\ size[2] \in Nat /\ size[3] \in Nat /\ size[4] \in Nat
    BY <1>2
  <2>2. QED
    BY <1>1, <2>1, IsASeq, LenProperties
<1>4. <<Len(sessions), Len(handles), Len(clones), Len(paths)>> = size
  BY <1>2, <1>3
<1>5. Range(sessions) \subseteq 0..MaxSessions
  BY <1>1 DEF Range
<1>6. Range(handles) \cup Range(clones) \subseteq HandleEntries
  BY <1>1 DEF Range
<1>7. \A i \in DOMAIN paths : paths[i].session \in 0..MaxSessions /\ paths[i].path \in Paths
  BY <1>1, PathEntryTyped
<1>8. QED
  BY <1>4, <1>5, <1>6, <1>7 DEF TypeOK, TypedInv, WorldTyped, OneEntryPerObject, OneEntryEach

\* The tables hold what they are declared for, and one entry for an object of
\* a session (RememberDomainPath overwrites the entry it finds).
THEOREM TypeCorrect == Spec => []TypeOK
<1>1. SafeInv => TypeOK
  BY TypedIsTypeOK DEF SafeInv
<1>2. QED
  BY <1>1, SafeAlways, PTL

\* When the last handle of a session closes, no table holds anything of it
\* (Forget*ForSessionLocked), also when a full table has lost entries before.
THEOREM NothingKept == Spec => []NothingKeptAfterClose
<1>1. SafeInv => NothingKeptAfterClose
  BY DEF SafeInv
<1>2. QED
  BY <1>1, SafeAlways, PTL


-----------------------------------------------------------------------------
(* Handles and session ids are not given out twice, so no table has two      *)
(* entries for one.                                                          *)

LEMMA NumberedStep ==
  ASSUME WorldTyped, Numbered, [Next]_vars
  PROVE  Numbered'
<1>0. nextHandle \in Nat /\ nextSession \in Nat /\ Sessions \subseteq Nat /\ Handles \subseteq Nat
  BY DEF WorldTyped, Sessions, Handles
<1>1. CASE Accept
  <2>1. /\ open' = [open EXCEPT ![nextSession] = @ \cup {nextHandle}]
        /\ nextHandle' = nextHandle + 1 /\ nextSession' = nextSession + 1
        /\ root' = [root EXCEPT ![nextSession] = nextHandle]
        /\ UNCHANGED <<live, disconnects>> /\ nextSession \in Sessions /\ nextHandle >= 1
    BY <1>1 DEF Accept, OpenHandle, WorldTyped
  <2>2. QED
    BY <1>0, <2>1 DEF Numbered, WorldTyped
<1>2. CASE AcceptFails
  BY <1>0, <1>2 DEF AcceptFails, Numbered
<1>3. ASSUME NEW s \in Sessions, CloneSession(s) PROVE Numbered'
  <2>1. /\ open' = [open EXCEPT ![s] = @ \cup {nextHandle}] /\ open[s] # {}
        /\ nextHandle' = nextHandle + 1
        /\ UNCHANGED <<nextSession, root, live, disconnects>>
    BY <1>3 DEF CloneSession, OpenHandle
  <2>2. QED
    BY <1>0, <2>1 DEF Numbered, WorldTyped
<1>4. ASSUME NEW s \in Sessions, NEW h \in Handles, CloseHandle(s, h) PROVE Numbered'
  <2>1. /\ open' = [open EXCEPT ![s] = @ \ {h}] /\ h \in open[s]
        /\ live' = IF open[s] = {h} THEN [live EXCEPT ![s] = NoObjects] ELSE live
        /\ disconnects' = disconnects \/ \E d \in Nat : disconnects' = [disconnects EXCEPT ![s] = d]
        /\ UNCHANGED <<nextSession, nextHandle, root>>
    BY <1>4 DEF CloseHandle, WorldTyped
  <2>2. DOMAIN NoObjects = {}
    BY DEF NoObjects
  <2>3. ASSUME NEW t \in Sessions
        PROVE  /\ \A g \in open'[t] : g < nextHandle'
               /\ root'[t] < nextHandle'
               /\ t >= nextSession' => open'[t] = {} /\ root'[t] = 0 /\ disconnects'[t] = 0
               /\ open'[t] # {} => root'[t] # 0
               /\ open'[t] = {} => DOMAIN live'[t] = {}
    <3>1. CASE t = s
      <4>1. open'[s] = open[s] \ {h} /\ ~(s >= nextSession)
        BY <2>1 DEF Numbered, WorldTyped
      <4>2. open'[s] = {} => open[s] = {h}
        BY <2>1, <4>1
      <4>3. open[s] = {h} => live'[s] = NoObjects
        BY <2>1 DEF WorldTyped
      <4>4. QED
        BY <2>1, <2>2, <3>1, <4>1, <4>2, <4>3 DEF Numbered
    <3>2. CASE t # s
      <4>1. open'[t] = open[t] /\ live'[t] = live[t] /\ disconnects'[t] = disconnects[t]
        BY <2>1, <3>2 DEF WorldTyped
      <4>2. QED
        BY <2>1, <4>1 DEF Numbered
    <3>3. QED
      BY <3>1, <3>2
  <2>4. QED
    BY <2>3 DEF Numbered
<1>5. ASSUME NEW s \in Sessions, open[s] # {},
             \A t \in Sessions : t # s => live'[t] = live[t],
             UNCHANGED <<open, nextHandle, nextSession, root, disconnects>>
      PROVE  Numbered'
  BY <1>5 DEF Numbered
<1>6. ASSUME NEW s \in Sessions, NEW o \in Objects, ConvertToDomain(s, o) PROVE Numbered'
  BY <1>5, <1>6 DEF ConvertToDomain, WorldTyped
<1>7. ASSUME NEW s \in Sessions, NEW o \in Objects, CloseObject(s, o) PROVE Numbered'
  BY <1>5, <1>7 DEF CloseObject, WorldTyped
<1>8. ASSUME NEW s \in Sessions, NEW p \in Objects, NEW o \in Objects, NEW c \in Commands,
             ReturnObject(s, p, c, o)
      PROVE  Numbered'
  BY <1>5, <1>8 DEF ReturnObject, WorldTyped
<1>9. CASE UNCHANGED vars
  BY <1>9 DEF vars, Numbered
<1>10. QED
  BY <1>1, <1>2, <1>3, <1>4, <1>6, <1>7, <1>8, <1>9 DEF Next

LEMMA KeysKept ==
  ASSUME NEW n \in Nat \ {0}, NEW table \in [1..n -> HandleEntries], NEW b \in Nat,
         KeysUnder(table, b)
  PROVE  /\ \A T, k, s : /\ k \in 1..n /\ DOMAIN T = 1..n /\ b >= 1
                         /\ Writes(T, table, n, k, s, b)
                         => KeysUnder(T, b + 1)
         /\ \A T : /\ DOMAIN T = 1..n
                   /\ \A i \in 1..n : T[i] = table[i] \/ T[i].session = 0
                   => KeysUnder(T, b)
         /\ \A s, h : KeysUnder(MarkClosed(table, s, h), b)
<1>1. ASSUME NEW T, NEW k, NEW s, k \in 1..n, DOMAIN T = 1..n, b >= 1, Writes(T, table, n, k, s, b)
      PROVE  KeysUnder(T, b + 1)
  <2>1. T[k].key = b /\ \A i \in 1..n \ {k} : T[i] = table[i]
    BY <1>1 DEF Writes
  <2>2. QED
    BY <1>1, <2>1 DEF KeysUnder
<1>2. ASSUME NEW T, DOMAIN T = 1..n, \A i \in 1..n : T[i] = table[i] \/ T[i].session = 0
      PROVE  KeysUnder(T, b)
  BY <1>2 DEF KeysUnder
<1>3. ASSUME NEW s, NEW h PROVE KeysUnder(MarkClosed(table, s, h), b)
  <2> DEFINE T == MarkClosed(table, s, h)
  <2>1. DOMAIN T = 1..n
    BY DEF MarkClosed
  <2>2. \A i \in 1..n : T[i].session = table[i].session /\ T[i].key = table[i].key
    BY MarkedHandle
  <2> HIDE DEF T
  <2>3. KeysUnder(T, b)
    BY <2>1, <2>2 DEF KeysUnder
  <2>4. QED
    BY <2>3 DEF T
<1>4. QED
  BY <1>1, <1>2, <1>3


\* What Accept does to the handles: the new one is written, then those of
\* a victim are forgotten.
LEMMA AcceptHandles ==
  ASSUME NEW b \in Nat \ {0}, handles \in [1..b -> HandleEntries], WorldTyped, Accept
  PROVE  \E T \in [1..b -> HandleEntries], k \in 1..b :
           /\ Writes(T, handles, b, k, nextSession, nextHandle)
           /\ handles' \in [1..b -> HandleEntries]
           /\ \A i \in 1..b : handles'[i] = T[i] \/ handles'[i].session = 0
<1> DEFINE s == nextSession
           h == nextHandle
           T == RememberHandle(handles, s, h)
           victim == sessions[1]
<1>1. s \in Sessions /\ h \in Handles
  BY BoundsAssumption DEF Accept, OpenHandle, WorldTyped, Sessions, Handles
<1>2. PICK k \in 1..b : Writes(T, handles, b, k, s, h)
  BY <1>1, RememberedHandle
<1>3. T \in [1..b -> HandleEntries]
  BY <1>1, HandleTables
<1>4. FreeHandle \in HandleEntries /\ FreeHandle.session = 0
  BY BoundsAssumption DEF FreeHandle, Free, HandleEntries
<1>5. handles' = T \/ handles' = Forgotten(T, victim, FreeHandle)
  BY DEF Accept, RememberSession
<1> HIDE DEF T, s, h, victim
<1>6. handles' \in [1..b -> HandleEntries] /\ \A i \in 1..b : handles'[i] = T[i] \/ handles'[i].session = 0
  BY <1>3, <1>4, <1>5 DEF Forgotten
<1>7. QED
  BY <1>2, <1>3, <1>5, <1>6 DEF s, h



LEMMA OnceStep ==
  ASSUME SafeInv, Numbered, Once, [Next]_vars
  PROVE  Once'
<1> USE DEF SafeInv, TypedInv
<1>0. PICK a, b, c, d \in Nat \ {0} :
           /\ sessions \in [1..a -> 0..MaxSessions]
           /\ handles \in [1..b -> HandleEntries]
           /\ clones \in [1..c -> HandleEntries]
           /\ paths \in [1..d -> PathEntries]
  BY TableSizesTyped
<1>1. /\ DOMAIN sessions' = 1..a /\ DOMAIN handles' = 1..b /\ DOMAIN clones' = 1..c
      /\ nextHandle \in Nat /\ nextHandle >= 1
  BY <1>0, TablesStayTyped DEF WorldTyped
<1>2. CASE Accept
  <2>1. nextSession \in Sessions /\ nextHandle' = nextHandle + 1
    BY <1>2 DEF Accept, OpenHandle
  <2>2. PICK T \in [1..b -> HandleEntries], k \in 1..b :
           /\ Writes(T, handles, b, k, nextSession, nextHandle)
           /\ handles' \in [1..b -> HandleEntries]
           /\ \A i \in 1..b : handles'[i] = T[i] \/ handles'[i].session = 0
    BY <1>0, <1>2, AcceptHandles
  <2>3. KeysUnder(T, nextHandle + 1)
    BY <1>0, <1>1, <2>2, KeysKept DEF Once
  <2>4. KeysUnder(handles', nextHandle + 1)
    BY <1>1, <2>2, <2>3, KeysKept
  <2>5. \A i \in 1..c : clones'[i] = clones[i] \/ clones'[i].session = 0
    <3>1. clones' = clones \/ clones' = Forgotten(clones, sessions[1], FreeHandle)
      BY <1>2 DEF Accept, RememberSession
    <3>2. QED
      BY <1>0, <3>1 DEF Forgotten, FreeHandle, Free
  <2>6. KeysUnder(clones', nextHandle)
    BY <1>0, <1>1, <2>5, KeysKept DEF Once
  <2>7. KeysUnder(clones', nextHandle + 1)
    BY <1>1, <2>6 DEF KeysUnder
  <2>8. NothingOf(nextSession)
    BY <2>1, NothingOfGone DEF Numbered, WorldTyped
  <2>9. SessionsOnce'
    <3>1. \E k1 \in 1..a : sessions' = [sessions EXCEPT ![k1] = nextSession]
      <4>1. {i \in 1..a : sessions[i] = 0} # {} =>
              First({i \in 1..a : sessions[i] = 0}) \in {i \in 1..a : sessions[i] = 0}
        <5>1. {i \in 1..a : sessions[i] = 0} \subseteq Nat
          OBVIOUS
        <5>2. QED
          BY <5>1, FirstIsLeast
      <4>2. {i \in DOMAIN sessions : sessions[i] = 0} = {i \in 1..a : sessions[i] = 0}
        BY <1>0
      <4>3. \/ /\ {i \in 1..a : sessions[i] = 0} # {}
               /\ sessions' = [sessions EXCEPT ![First({i \in 1..a : sessions[i] = 0})] = nextSession]
            \/ sessions' = [sessions EXCEPT ![1] = nextSession]
        BY <1>2, <4>2 DEF Accept, RememberSession
      <4>4. QED
        BY <4>1, <4>3
    <3>2. QED
      BY <1>0, <2>8, <3>1 DEF SessionsOnce, Once, NothingOf
  <2>10. QED
    BY <2>1, <2>4, <2>7, <2>9 DEF Once
<1>3. ASSUME NEW s \in Sessions, CloneSession(s) PROVE Once'
  <2>1. nextHandle \in Handles /\ nextHandle' = nextHandle + 1 /\ sessions' = sessions
        /\ handles' = RememberHandle(handles, s, nextHandle)
        /\ clones' = RememberHandle(clones, s, nextHandle)
    BY <1>3, BoundsAssumption DEF CloneSession, OpenHandle, WorldTyped, Handles
  <2>2. PICK k \in 1..b : Writes(handles', handles, b, k, s, nextHandle)
    BY <1>0, <2>1, RememberedHandle
  <2>3. PICK m \in 1..c : Writes(clones', clones, c, m, s, nextHandle)
    BY <1>0, <2>1, RememberedHandle
  <2>4. KeysUnder(handles', nextHandle + 1)
    BY <1>0, <1>1, <2>2, KeysKept DEF Once
  <2>5. KeysUnder(clones', nextHandle + 1)
    BY <1>0, <1>1, <2>3, KeysKept DEF Once
  <2>6. QED
    BY <2>1, <2>4, <2>5 DEF Once, SessionsOnce
<1>4. ASSUME NEW s \in Sessions, NEW h \in Handles, CloseHandle(s, h) PROVE Once'
  <2> DEFINE M == MarkClosed(handles, s, h)
  <2>1. /\ handles' = M \/ handles' = Forgotten(M, s, FreeHandle)
        /\ clones' = MarkClosed(clones, s, h) \/ clones' = Forgotten(clones, s, FreeHandle)
        /\ nextHandle' = nextHandle
        /\ \A i \in DOMAIN sessions : sessions'[i] = sessions[i] \/ sessions'[i] = 0
    BY <1>4 DEF CloseHandle
  <2>2. M \in [1..b -> HandleEntries] /\ KeysUnder(M, nextHandle)
    BY <1>0, <1>1, HandleTables, KeysKept DEF Once
  <2>3. KeysUnder(MarkClosed(clones, s, h), nextHandle)
    BY <1>0, <1>1, KeysKept DEF Once
  <2> HIDE DEF M
  <2>4. \A i \in 1..b : handles'[i] = M[i] \/ handles'[i].session = 0
    BY <2>1, <2>2 DEF Forgotten, FreeHandle, Free
  <2>5. KeysUnder(handles', nextHandle)
    BY <1>1, <2>2, <2>4, KeysKept
  <2>6. KeysUnder(Forgotten(clones, s, FreeHandle), nextHandle)
    <3>1. DOMAIN Forgotten(clones, s, FreeHandle) = 1..c
          /\ \A i \in 1..c : \/ Forgotten(clones, s, FreeHandle)[i] = clones[i]
                             \/ Forgotten(clones, s, FreeHandle)[i].session = 0
      BY <1>0 DEF Forgotten, FreeHandle, Free
    <3>2. QED
      BY <1>0, <1>1, <3>1, KeysKept DEF Once
  <2>7. QED
    BY <1>0, <1>1, <2>1, <2>3, <2>5, <2>6 DEF Once, SessionsOnce
<1>5. ASSUME NEW s \in Sessions, NEW o \in Objects,
             \/ ConvertToDomain(s, o)
             \/ CloseObject(s, o)
             \/ \E p \in Objects, c1 \in Commands : ReturnObject(s, p, c1, o)
      PROVE  Once'
  <2>1. UNCHANGED <<sessions, handles, clones, nextHandle>>
    BY <1>5, PathOnlyFor
  <2>2. QED
    BY <2>1 DEF Once, SessionsOnce
<1>6. CASE UNCHANGED <<tables, nextHandle>>
  BY <1>6 DEF tables, Once, SessionsOnce
<1>7. QED
  BY <1>2, <1>3, <1>4, <1>5, <1>6 DEF Next, vars, AcceptFails


-----------------------------------------------------------------------------
(* Tables with room: none of them is ever full when a hook needs a slot.    *)

\* Fits, of the lengths the tables have.
LEMMA FitsLengths ==
  ASSUME NEW a \in Nat, NEW b \in Nat, NEW c \in Nat, NEW d \in Nat,
         sessions \in [1..a -> 0..MaxSessions], handles \in [1..b -> HandleEntries],
         clones \in [1..c -> HandleEntries], paths \in [1..d -> PathEntries]
  PROVE  Fits <=> /\ a >= MaxSessions /\ b >= MaxHandles /\ c >= MaxHandles
                  /\ d >= MaxSessions * Cardinality(Objects)
<1>1. Len(sessions) = a /\ Len(handles) = b /\ Len(clones) = c /\ Len(paths) = d
  BY IsASeq, LenProperties
<1>2. QED
  BY <1>1 DEF Fits

LEMMA FitsKept ==
  ASSUME TablesTyped, WorldTyped, [Next]_vars
  PROVE  Fits' <=> Fits
<1>1. PICK a, b, c, d \in Nat \ {0} :
           /\ sessions \in [1..a -> 0..MaxSessions]
           /\ handles \in [1..b -> HandleEntries]
           /\ clones \in [1..c -> HandleEntries]
           /\ paths \in [1..d -> PathEntries]
  BY TableSizesTyped
<1>2. /\ sessions' \in [1..a -> 0..MaxSessions]
      /\ handles' \in [1..b -> HandleEntries]
      /\ clones' \in [1..c -> HandleEntries]
      /\ paths' \in [1..d -> PathEntries]
  BY <1>1, TablesStayTyped DEF TablesTyped
<1>3. /\ Len(sessions) = a /\ Len(handles) = b /\ Len(clones) = c /\ Len(paths) = d
      /\ Len(sessions') = a /\ Len(handles') = b /\ Len(clones') = c /\ Len(paths') = d
  BY <1>1, <1>2, IsASeq, LenProperties
<1>4. QED
  BY <1>3 DEF Fits

\* As many slots as handles, and one handle not in the table: a slot is free.
LEMMA RoomForHandle ==
  ASSUME NEW n \in Nat \ {0}, NEW table \in [1..n -> HandleEntries], NEW h \in Handles,
         n >= MaxHandles, KeysUnder(table, h)
  PROVE  \E i \in 1..n : table[i].session = 0
<1> SUFFICES ASSUME \A i \in 1..n : table[i].session # 0 PROVE FALSE
  OBVIOUS
<1> DEFINE f == [i \in 1..n |-> table[i].key]
           Keys == 1..h - 1
           I == 1..n
<1>1. f \in [I -> Keys]
  BY DEF KeysUnder
<1>2. \A i, j \in 1..n : f[i] = f[j] => i = j
  BY DEF KeysUnder
<1>3. h \in Nat /\ 1 <= h /\ h <= n
  BY BoundsAssumption DEF Handles
<1>4. IsFiniteSet(I) /\ Cardinality(I) = n /\ IsFiniteSet(Keys) /\ Cardinality(Keys) = h - 1
  BY <1>3, FS_Interval
<1>5. Cardinality(Keys) < Cardinality(I)
  BY <1>3, <1>4
<1> HIDE DEF f, Keys, I
<1>6. \E x, y \in I : x # y /\ f[x] = f[y]
  BY <1>1, <1>4, <1>5, FS_PigeonHole
<1>7. QED
  BY <1>2, <1>6 DEF I

\* So it is for sessions: a new session finds a slot.
LEMMA RoomForSession ==
  ASSUME NEW n \in Nat \ {0}, sessions \in [1..n -> 0..MaxSessions], n >= MaxSessions,
         SessionsOnce, NEW s \in Sessions, \A i \in 1..n : sessions[i] # s
  PROVE  \E i \in 1..n : sessions[i] = 0
<1> SUFFICES ASSUME \A i \in 1..n : sessions[i] # 0 PROVE FALSE
  OBVIOUS
<1>1. sessions \in [1..n -> Sessions \ {s}]
  BY DEF Sessions
<1>2. IsFiniteSet(1..n) /\ Cardinality(1..n) = n
      /\ IsFiniteSet(Sessions) /\ Cardinality(Sessions) = MaxSessions
  BY FS_Interval, BoundsAssumption DEF Sessions
<1>3. IsFiniteSet(Sessions \ {s}) /\ Cardinality(Sessions \ {s}) = MaxSessions - 1
  BY <1>2, FS_RemoveElement
<1>4. \E x, y \in 1..n : x # y /\ sessions[x] = sessions[y]
  BY <1>1, <1>2, <1>3, FS_PigeonHole, BoundsAssumption
<1>5. QED
  BY <1>4 DEF SessionsOnce

\* And for objects: one that has no entry finds a slot.
LEMMA RoomForObject ==
  ASSUME NEW n \in Nat \ {0}, paths \in [1..n -> PathEntries],
         n >= MaxSessions * Cardinality(Objects), OneEntryPerObject,
         NEW s \in Sessions, NEW o \in Objects,
         \A i \in 1..n : ~ (paths[i].session = s /\ paths[i].key = o)
  PROVE  \E i \in 1..n : paths[i].session = 0
<1> SUFFICES ASSUME \A i \in 1..n : paths[i].session # 0 PROVE FALSE
  OBVIOUS
<1> DEFINE P == Sessions \X Objects
           f == [i \in 1..n |-> <<paths[i].session, paths[i].key>>]
<1>1. f \in [1..n -> P \ {<<s, o>>}]
  BY DEF Sessions, PathEntries, FreePath, Free
<1>2. \A i, j \in 1..n : f[i] = f[j] => i = j
  BY DEF OneEntryPerObject, OneEntryEach
<1>3. IsFiniteSet(1..n) /\ Cardinality(1..n) = n
      /\ IsFiniteSet(Sessions) /\ Cardinality(Sessions) = MaxSessions
  BY FS_Interval, BoundsAssumption DEF Sessions
<1>4. IsFiniteSet(P) /\ Cardinality(P) = MaxSessions * Cardinality(Objects)
  BY <1>3, FS_Product, ObjectsAssumption
<1>5. Cardinality(Objects) \in Nat /\ Cardinality(P) \in Nat
  BY <1>4, FS_CardinalityType, ObjectsAssumption
<1>6. <<s, o>> \in P
  OBVIOUS
<1> HIDE DEF P, f
<1>7. IsFiniteSet(P \ {<<s, o>>}) /\ Cardinality(P \ {<<s, o>>}) = Cardinality(P) - 1
  BY <1>4, <1>6, FS_RemoveElement
<1>8. Cardinality(P \ {<<s, o>>}) < n
  BY <1>4, <1>5, <1>7
<1>9. \E x, y \in 1..n : x # y /\ f[x] = f[y]
  BY <1>1, <1>3, <1>7, <1>8, FS_PigeonHole
<1>10. QED
  BY <1>2, <1>9


-----------------------------------------------------------------------------
(* While no table is full, the tables say what is open. *)

\* A handle written over a free slot is one more active handle of its session.
LEMMA ActiveWritten ==
  ASSUME NEW n \in Nat \ {0}, NEW table \in [1..n -> HandleEntries],
         NEW T \in [1..n -> HandleEntries],
         NEW k \in 1..n, NEW s \in Sessions, NEW h \in Handles, Writes(T, table, n, k, s, h),
         table[k].session = 0, NEW t \in Sessions
  PROVE  Active(T, t) = IF t = s THEN Active(table, s) \cup {h} ELSE Active(table, t)
<1>1. T[k].session = s /\ T[k].key = h /\ ~T[k].closed /\ \A i \in 1..n \ {k} : T[i] = table[i]
  BY DEF Writes
<1>2. \A x : x \in Active(T, t) <=>
               \E i \in 1..n : T[i].session = t /\ ~T[i].closed /\ T[i].key = x
  BY DEF Active
<1>3. \A x, u : x \in Active(table, u) <=>
               \E i \in 1..n : table[i].session = u /\ ~table[i].closed /\ table[i].key = x
  BY DEF Active
<1>4. t # 0 /\ s # 0
  BY DEF Sessions
<1>5. ASSUME NEW x
      PROVE  x \in Active(T, t) <=> x \in Active(table, t) \/ (t = s /\ x = h)
  <2>1. x \in Active(T, t) => x \in Active(table, t) \/ (t = s /\ x = h)
    BY <1>1, <1>2, <1>3
  <2>2. x \in Active(table, t) => x \in Active(T, t)
    BY <1>1, <1>2, <1>3, <1>4
  <2>3. t = s /\ x = h => x \in Active(T, t)
    BY <1>1, <1>2
  <2>4. QED
    BY <2>1, <2>2, <2>3
<1>6. QED
  BY <1>5

\* A new handle in a table with room.
LEMMA ActiveRemembered ==
  ASSUME NEW n \in Nat \ {0}, NEW table \in [1..n -> HandleEntries], n >= MaxHandles,
         NEW s \in Sessions, NEW h \in Handles, KeysUnder(table, h), NEW t \in Sessions
  PROVE  Active(RememberHandle(table, s, h), t) =
           IF t = s THEN Active(table, s) \cup {h} ELSE Active(table, t)
<1> DEFINE T == RememberHandle(table, s, h)
<1>1. PICK k \in 1..n : Writes(T, table, n, k, s, h)
  BY RememberedHandle
<1>2. \E i \in 1..n : table[i].session = 0
  BY RoomForHandle
<1>3. table[k].session = 0
  <2>1. table[k].session # 0 => table[k].key \in 1..h - 1
    BY DEF KeysUnder
  <2>2. table[k].session = 0 \/ (table[k].session = s /\ table[k].key = h)
    BY <1>1, <1>2 DEF Writes
  <2>3. QED
    BY <2>1, <2>2 DEF Sessions, Handles
<1>4. T \in [1..n -> HandleEntries]
  BY HandleTables
<1> HIDE DEF T
<1>5. Active(T, t) = IF t = s THEN Active(table, s) \cup {h} ELSE Active(table, t)
  BY <1>1, <1>3, <1>4, ActiveWritten
<1>6. QED
  BY <1>5 DEF T

\* A handle marked closed is one active handle less of its session.
LEMMA ActiveMarked ==
  ASSUME NEW n \in Nat \ {0}, NEW table \in [1..n -> HandleEntries],
         NEW s \in Sessions, NEW h \in Handles, NEW t \in Sessions
  PROVE  Active(MarkClosed(table, s, h), t) =
           IF t = s THEN Active(table, s) \ {h} ELSE Active(table, t)
<1> DEFINE T == MarkClosed(table, s, h)
<1>1. DOMAIN T = 1..n
  BY DEF MarkClosed
<1>2. \A i \in 1..n : T[i].session = table[i].session /\ T[i].key = table[i].key
        /\ (T[i].closed <=> table[i].closed \/ (table[i].session = s /\ table[i].key = h))
  BY MarkedHandle
<1>3. \A x : x \in Active(table, t) <=>
               \E i \in 1..n : table[i].session = t /\ ~table[i].closed /\ table[i].key = x
  BY DEF Active
<1> HIDE DEF T
<1>4. \A x : x \in Active(T, t) <=>
               \E i \in 1..n : T[i].session = t /\ ~T[i].closed /\ T[i].key = x
  BY <1>1 DEF Active
<1>5. \A x : x \in Active(T, t) <=> x \in Active(table, t) /\ ~(t = s /\ x = h)
  BY <1>2, <1>3, <1>4
<1>6. Active(T, t) = IF t = s THEN Active(table, s) \ {h} ELSE Active(table, t)
  BY <1>5
<1>7. QED
  BY <1>6 DEF T

\* T is table without the entries of s.
Forgets(T, table, n, s) ==
  \A i \in 1..n : IF table[i].session = s THEN T[i].session = 0 ELSE T[i] = table[i]

\* Entries of other sessions that are forgotten take nothing from a session.
LEMMA ActiveForgotten ==
  ASSUME NEW n \in Nat \ {0}, NEW table \in [1..n -> HandleEntries],
         NEW T \in [1..n -> HandleEntries], NEW s \in Sessions,
         Forgets(T, table, n, s), NEW t \in Sessions
  PROVE  (t = s => Active(T, t) = {}) /\ (t # s => Active(T, t) = Active(table, t))
<1>1. t # 0
  BY DEF Sessions
<1>2. \A x : x \in Active(T, t) <=>
               \E i \in 1..n : T[i].session = t /\ ~T[i].closed /\ T[i].key = x
  BY DEF Active
<1>3. \A x : x \in Active(table, t) <=>
               \E i \in 1..n : table[i].session = t /\ ~table[i].closed /\ table[i].key = x
  BY DEF Active
<1>4. \A x : x \in Active(T, t) <=> t # s /\ x \in Active(table, t)
  BY <1>1, <1>2, <1>3 DEF Forgets
<1>5. QED
  BY <1>4

\* What TrackedWhileOpen says of the tables; of a session that is not
\* connected it says that none of its handles is active.
TrackedNow ==
  /\ Tracked = Connected
  /\ \A s \in Sessions : Active(handles, s) = open[s] /\ Active(clones, s) = open[s] \ {root[s]}

FullInv == SafeInv /\ Numbered /\ Once

LEMMA AcceptTracks ==
  ASSUME Fits, FullInv, TrackedNow, Accept, [Next]_vars
  PROVE  TrackedNow' /\ UNCHANGED <<clones, paths>>
<1> USE DEF SafeInv, TypedInv, FullInv
<1>0. PICK a, b, c, d \in Nat \ {0} :
           /\ sessions \in [1..a -> 0..MaxSessions]
           /\ handles \in [1..b -> HandleEntries]
           /\ clones \in [1..c -> HandleEntries]
           /\ paths \in [1..d -> PathEntries]
  BY TableSizesTyped
<1>1. a >= MaxSessions /\ b >= MaxHandles
  BY <1>0, FitsLengths
<1> DEFINE s == nextSession
           h == nextHandle
<1>2. /\ s \in Sessions /\ h \in Handles /\ open[s] = {} /\ root[s] = 0
      /\ open' = [open EXCEPT ![s] = {h}] /\ root' = [root EXCEPT ![s] = h]
  <2>1. /\ s \in Sessions /\ h <= MaxHandles /\ root' = [root EXCEPT ![s] = h]
        /\ open' = [open EXCEPT ![s] = @ \cup {h}]
    BY DEF Accept, OpenHandle
  <2>2. h \in Handles /\ s >= s
    BY <2>1, BoundsAssumption DEF WorldTyped, Handles
  <2>3. open[s] = {} /\ root[s] = 0
    BY <2>1, <2>2 DEF Numbered
  <2>4. QED
    BY <2>1, <2>2, <2>3 DEF WorldTyped
<1>3. NothingOf(s)
  BY <1>2, NothingOfGone
<1>4. PICK f0 \in 1..a : sessions[f0] = 0
  BY <1>0, <1>1, <1>2, <1>3, RoomForSession DEF Once, NothingOf
<1> DEFINE free == {i \in DOMAIN sessions : sessions[i] = 0}
<1>5. free # {} /\ First(free) \in free
  <2>1. free \subseteq 1..a /\ 1..a \subseteq Nat /\ f0 \in free
    BY <1>0, <1>4
  <2>2. QED
    BY <2>1, FirstIsLeast
<1>6. /\ sessions' = [sessions EXCEPT ![First(free)] = s]
      /\ UNCHANGED <<clones, paths>>
  BY <1>5 DEF Accept, RememberSession
<1>7. handles' = RememberHandle(handles, s, h)
  BY <1>5 DEF Accept, RememberSession
<1>8. KeysUnder(handles, h)
  BY DEF Once
<1> HIDE DEF s, h
<1>9. \A t \in Sessions :
        Active(handles', t) = IF t = s THEN Active(handles, s) \cup {h} ELSE Active(handles, t)
  BY <1>0, <1>1, <1>2, <1>7, <1>8, ActiveRemembered
<1> HIDE DEF free
<1>10. f0 \in 1..a /\ First(free) \in 1..a /\ sessions[First(free)] = 0
  BY <1>0, <1>5 DEF free
<1>11. \A t \in Sessions : t \in Tracked' <=> t \in Tracked \/ t = s
  <2>1. \A t \in Sessions : t \in Tracked <=> \E i \in 1..a : sessions[i] = t
    BY <1>0 DEF Tracked, Range, Sessions
  <2>2. DOMAIN sessions' = 1..a
    BY <1>0, <1>6
  <2>3. \A t \in Sessions : t \in Tracked' <=> \E i \in 1..a : sessions'[i] = t
    BY <2>2 DEF Tracked, Range, Sessions
  <2>4. QED
    BY <1>0, <1>2, <1>6, <1>10, <2>1, <2>3 DEF Sessions
<1>12. \A t \in Sessions : t \in Connected' <=> t \in Connected \/ t = s
  BY <1>2 DEF Connected, WorldTyped
<1>13. Tracked' \subseteq Sessions
  <2>1. sessions' \in [1..a -> 0..MaxSessions]
    BY <1>0, <1>2, <1>6, <1>10 DEF Sessions
  <2>2. QED
    BY <2>1 DEF Tracked, Range, Sessions
<1>14. Tracked' = Connected'
  BY <1>11, <1>12, <1>13 DEF TrackedNow, Connected
<1>15. \A t \in Sessions : Active(handles', t) = open'[t]
  BY <1>2, <1>9 DEF TrackedNow, WorldTyped
<1>16. \A t \in Sessions : Active(clones, t) = open'[t] \ {root'[t]}
  BY <1>2 DEF TrackedNow, WorldTyped
<1>17. QED
  BY <1>6, <1>14, <1>15, <1>16 DEF TrackedNow


LEMMA CloneTracks ==
  ASSUME Fits, FullInv, TrackedNow, NEW s \in Sessions, CloneSession(s), [Next]_vars
  PROVE  TrackedNow'
<1> USE DEF SafeInv, TypedInv, FullInv
<1>0. PICK a, b, c, d \in Nat \ {0} :
           /\ sessions \in [1..a -> 0..MaxSessions]
           /\ handles \in [1..b -> HandleEntries]
           /\ clones \in [1..c -> HandleEntries]
           /\ paths \in [1..d -> PathEntries]
  BY TableSizesTyped
<1>1. b >= MaxHandles /\ c >= MaxHandles
  BY <1>0, FitsLengths
<1> DEFINE h == nextHandle
<1>2. /\ h \in Handles /\ open[s] # {} /\ open' = [open EXCEPT ![s] = @ \cup {h}]
      /\ handles' = RememberHandle(handles, s, h) /\ clones' = RememberHandle(clones, s, h)
      /\ UNCHANGED <<sessions, root>>
  BY BoundsAssumption DEF CloneSession, OpenHandle, WorldTyped, Handles
<1>3. root[s] # h
  BY DEF Numbered, WorldTyped
<1>4. KeysUnder(handles, h) /\ KeysUnder(clones, h)
  BY DEF Once
<1> HIDE DEF h
<1>5. \A t \in Sessions :
        Active(handles', t) = IF t = s THEN Active(handles, s) \cup {h} ELSE Active(handles, t)
  BY <1>0, <1>1, <1>2, <1>4, ActiveRemembered
<1>6. \A t \in Sessions :
        Active(clones', t) = IF t = s THEN Active(clones, s) \cup {h} ELSE Active(clones, t)
  BY <1>0, <1>1, <1>2, <1>4, ActiveRemembered
<1>7. Tracked' = Tracked /\ Connected' = Connected
  BY <1>2 DEF Tracked, Connected, WorldTyped
<1>8. \A t \in Sessions : Active(handles', t) = open'[t]
  BY <1>2, <1>5 DEF TrackedNow, WorldTyped
<1>9. \A t \in Sessions : Active(clones', t) = open'[t] \ {root'[t]}
  BY <1>2, <1>3, <1>6 DEF TrackedNow, WorldTyped
<1>10. QED
  BY <1>7, <1>8, <1>9 DEF TrackedNow

\* The hook takes a close for the last one exactly when it is.
LEMMA CloseTracks ==
  ASSUME FullInv, TrackedNow, NEW s \in Sessions, NEW h \in Handles, CloseHandle(s, h), [Next]_vars
  PROVE  TrackedNow' /\ (Active(MarkClosed(handles, s, h), s) = {} <=> open[s] = {h})
<1> USE DEF SafeInv, TypedInv, FullInv
<1>0. PICK a, b, c, d \in Nat \ {0} :
           /\ sessions \in [1..a -> 0..MaxSessions]
           /\ handles \in [1..b -> HandleEntries]
           /\ clones \in [1..c -> HandleEntries]
           /\ paths \in [1..d -> PathEntries]
  BY TableSizesTyped
<1>1. /\ sessions' \in [1..a -> 0..MaxSessions]
      /\ handles' \in [1..b -> HandleEntries]
      /\ clones' \in [1..c -> HandleEntries]
  BY <1>0, TablesStayTyped DEF TablesTyped
<1> DEFINE M == MarkClosed(handles, s, h)
           final == Active(M, s) = {}
<1>2. h \in open[s] /\ open' = [open EXCEPT ![s] = @ \ {h}] /\ root' = root
  BY DEF CloseHandle
<1>3. \A t \in Sessions : Active(M, t) = IF t = s THEN Active(handles, s) \ {h} ELSE Active(handles, t)
  BY <1>0, ActiveMarked
<1>4. final <=> open[s] = {h}
  BY <1>2, <1>3 DEF TrackedNow
<1>5. /\ final =>
           /\ \A i \in DOMAIN sessions : sessions'[i] = IF sessions[i] = s THEN 0 ELSE sessions[i]
           /\ \A i \in DOMAIN handles :
                IF handles[i].session = s THEN handles'[i].session = 0 ELSE handles'[i] = handles[i]
           /\ \A i \in DOMAIN clones :
                IF clones[i].session = s THEN clones'[i].session = 0 ELSE clones'[i] = clones[i]
      /\ ~final => sessions' = sessions /\ handles' = M /\ clones' = MarkClosed(clones, s, h)
  BY CloseEntries
<1> HIDE DEF M, final
<1>6. ASSUME ~final PROVE TrackedNow'
  <2>1. \A t \in Sessions :
          Active(clones', t) = IF t = s THEN Active(clones, s) \ {h} ELSE Active(clones, t)
    BY <1>0, <1>5, <1>6, ActiveMarked
  <2>2. Tracked' = Tracked
    BY <1>5, <1>6 DEF Tracked
  <2>3. open[s] # {h}
    BY <1>4, <1>6
  <2>4. Connected' = Connected
    BY <1>2, <2>3 DEF Connected, WorldTyped
  <2>5. \A t \in Sessions : Active(handles', t) = open'[t]
    BY <1>2, <1>3, <1>5, <1>6 DEF TrackedNow, WorldTyped
  <2>6. \A t \in Sessions : Active(clones', t) = open'[t] \ {root'[t]}
    BY <1>2, <2>1 DEF TrackedNow, WorldTyped
  <2>7. Tracked' = Connected'
    BY <2>2, <2>4 DEF TrackedNow
  <2>8. QED
    BY <2>5, <2>6, <2>7 DEF TrackedNow
<1>7. ASSUME final PROVE TrackedNow'
  <2>0. Forgets(handles', handles, b, s) /\ Forgets(clones', clones, c, s)
    BY <1>0, <1>5, <1>7 DEF Forgets
  <2>1. \A t \in Sessions : Active(handles', t) = IF t = s THEN {} ELSE Active(handles, t)
    BY <1>0, <1>1, <2>0, ActiveForgotten
  <2>2. \A t \in Sessions : Active(clones', t) = IF t = s THEN {} ELSE Active(clones, t)
    BY <1>0, <1>1, <2>0, ActiveForgotten
  <2>3. \A t \in Sessions : open'[t] = IF t = s THEN {} ELSE open[t]
    BY <1>2, <1>4, <1>7 DEF WorldTyped
  <2>4. Tracked' = Tracked \ {s}
    <3>1. \A t : t \in Tracked <=> t # 0 /\ \E i \in 1..a : sessions[i] = t
      BY <1>0 DEF Tracked, Range
    <3>2. \A t : t \in Tracked' <=> t # 0 /\ \E i \in 1..a : sessions'[i] = t
      BY <1>1 DEF Tracked, Range
    <3>3. \A i \in 1..a : sessions'[i] = IF sessions[i] = s THEN 0 ELSE sessions[i]
      BY <1>0, <1>5, <1>7
    <3>4. QED
      BY <3>1, <3>2, <3>3
  <2>5. Connected' = Connected \ {s}
    BY <2>3 DEF Connected
  <2>6. Tracked' = Connected'
    BY <2>4, <2>5 DEF TrackedNow
  <2>7. \A t \in Sessions : Active(handles', t) = open'[t] /\ Active(clones', t) = open'[t] \ {root'[t]}
    BY <1>2, <2>1, <2>2, <2>3 DEF TrackedNow
  <2>8. QED
    BY <2>6, <2>7 DEF TrackedNow
<1>8. QED
  BY <1>4, <1>6, <1>7 DEF final, M


LEMMA OthersTrack ==
  ASSUME FullInv, TrackedNow, [Next]_vars, UNCHANGED <<sessions, handles, clones, open, root>>
  PROVE  TrackedNow'
BY DEF TrackedNow, Tracked, Connected

\* client_disconnected, as long as the hook knows which close is the last.
LEMMA DisconnectStep ==
  ASSUME Fits, FullInv, TrackedNow, DisconnectedAtLastClose, [Next]_vars
  PROVE  DisconnectedAtLastClose'
<1> USE DEF SafeInv, TypedInv, FullInv
<1>1. CASE Accept
  <2> DEFINE s == nextSession
             h == nextHandle
  <2>1. /\ s \in Sessions /\ h # 0 /\ root' = [root EXCEPT ![s] = h]
        /\ open' = [open EXCEPT ![s] = @ \cup {h}] /\ disconnects' = disconnects
    BY <1>1 DEF Accept, OpenHandle, WorldTyped
  <2>2. disconnects[s] = 0
    <3>1. s >= s
      BY DEF WorldTyped
    <3>2. QED
      BY <2>1, <3>1 DEF Numbered
  <2> HIDE DEF s, h
  <2>3. QED
    BY <2>1, <2>2 DEF DisconnectedAtLastClose, WorldTyped
<1>2. ASSUME NEW s \in Sessions, CloneSession(s) PROVE DisconnectedAtLastClose'
  <2>1. /\ open[s] # {} /\ open' = [open EXCEPT ![s] = @ \cup {nextHandle}]
        /\ disconnects' = disconnects /\ root' = root
    BY <1>2 DEF CloneSession, OpenHandle
  <2>2. QED
    BY <2>1 DEF DisconnectedAtLastClose, WorldTyped
<1>3. ASSUME NEW s \in Sessions, NEW h \in Handles, CloseHandle(s, h)
      PROVE  DisconnectedAtLastClose'
  <2>1. Active(MarkClosed(handles, s, h), s) = {} <=> open[s] = {h}
    BY <1>3, CloseTracks
  <2>2. /\ h \in open[s] /\ open' = [open EXCEPT ![s] = @ \ {h}] /\ root' = root
        /\ disconnects' = [disconnects EXCEPT ![s] = IF open[s] = {h} THEN @ + 1 ELSE @]
    BY <1>3, <2>1 DEF CloseHandle
  <2>3. root[s] # 0 /\ disconnects[s] = 0
    BY <2>2 DEF Numbered, DisconnectedAtLastClose
  <2>4. ASSUME NEW t \in Sessions
        PROVE  disconnects'[t] = IF root'[t] # 0 /\ open'[t] = {} THEN 1 ELSE 0
    <3>1. CASE t = s
      <4>1. open'[s] = {} <=> open[s] = {h}
        BY <2>2 DEF WorldTyped
      <4>2. disconnects'[s] = IF open[s] = {h} THEN 1 ELSE 0
        BY <2>2, <2>3 DEF WorldTyped
      <4>3. QED
        BY <2>2, <2>3, <3>1, <4>1, <4>2
    <3>2. CASE t # s
      BY <2>2, <3>2 DEF DisconnectedAtLastClose, WorldTyped
    <3>3. QED
      BY <3>1, <3>2
  <2>5. QED
    BY <2>4 DEF DisconnectedAtLastClose
<1>4. ASSUME NEW s \in Sessions, NEW o \in Objects,
             \/ ConvertToDomain(s, o)
             \/ CloseObject(s, o)
             \/ \E p \in Objects, c \in Commands : ReturnObject(s, p, c, o)
      PROVE  DisconnectedAtLastClose'
  <2>1. UNCHANGED <<open, root, disconnects>>
    BY <1>4, PathOnlyFor
  <2>2. QED
    BY <2>1 DEF DisconnectedAtLastClose
<1>5. CASE UNCHANGED <<open, root, disconnects>>
  BY <1>5 DEF DisconnectedAtLastClose
<1>6. QED
  BY <1>1, <1>2, <1>3, <1>4, <1>5 DEF Next, vars, AcceptFails

LEMMA TrackedStep ==
  ASSUME Fits, FullInv, TrackedNow, [Next]_vars
  PROVE  TrackedNow'
<1>1. ASSUME NEW s \in Sessions, NEW o \in Objects,
             \/ ConvertToDomain(s, o)
             \/ CloseObject(s, o)
             \/ \E p \in Objects, c \in Commands : ReturnObject(s, p, c, o)
      PROVE  TrackedNow'
  BY <1>1, PathOnlyFor, OthersTrack DEF FullInv, SafeInv, TypedInv
<1>2. CASE UNCHANGED <<tables, open, root>>
  BY <1>2, OthersTrack DEF tables
<1>3. QED
  BY <1>1, <1>2, AcceptTracks, CloneTracks, CloseTracks DEF Next, vars, AcceptFails

-----------------------------------------------------------------------------
(* While no table is full, an object is known under its path. *)

LEMMA HeadOfChild ==
  ASSUME NEW known \in Paths, NEW real \in Paths, IsHeadOf(known, real), NEW c \in Commands
  PROVE  IsHeadOf(ChildPath(known, c), Append(real, c))
<1>1. /\ Len(ChildPath(known, c)) = IF PathLength <= Len(known) + 1 THEN PathLength
                                                                    ELSE Len(known) + 1
      /\ \A i \in 1..Len(ChildPath(known, c)) :
           ChildPath(known, c)[i] = IF i = Len(known) + 1 THEN c ELSE known[i]
  BY ChildPathIsCut
<1>2. /\ Len(known) \in Nat /\ Len(real) \in Nat /\ PathLength \in Nat
      /\ Len(Append(real, c)) = Len(real) + 1 /\ Append(real, c)[Len(real) + 1] = c
      /\ \A i \in 1..Len(real) : Append(real, c)[i] = real[i]
  BY SlotsAssumption DEF Paths
<1>3. Len(known) = (IF PathLength <= Len(real) THEN PathLength ELSE Len(real))
      /\ \A i \in 1..Len(known) : known[i] = real[i]
  BY <1>2, MinOfTwo DEF IsHeadOf
<1>4. Min({PathLength, Len(real) + 1}) =
        IF PathLength <= Len(real) + 1 THEN PathLength ELSE Len(real) + 1
  BY <1>2, MinOfTwo
<1>5. Len(ChildPath(known, c)) = Min({PathLength, Len(Append(real, c))})
  BY <1>1, <1>2, <1>3, <1>4
<1>6. ASSUME NEW i \in 1..Len(ChildPath(known, c))
      PROVE  ChildPath(known, c)[i] = Append(real, c)[i]
  <2>1. CASE i = Len(known) + 1
    BY <1>1, <1>2, <1>3, <2>1
  <2>2. CASE i # Len(known) + 1
    <3>1. i \in 1..Len(known) /\ i \in 1..Len(real)
      BY <1>1, <1>2, <1>3, <2>2
    <3>2. QED
      BY <1>1, <1>2, <1>3, <2>2, <3>1
  <2>3. QED
    BY <2>1, <2>2
<1>7. QED
  BY <1>5, <1>6 DEF IsHeadOf

\* The entry of an object is the one a lookup finds.
LEMMA LookupFinds ==
  ASSUME TypedInv, NEW s \in Sessions, NEW o \in Objects, NEW i \in DOMAIN paths,
         paths[i].session = s, paths[i].key = o
  PROVE  RelativePath(s, o) = paths[i].path
<1>1. Slot(paths, s, o) = {i}
  BY DEF Slot, TypedInv, OneEntryPerObject, OneEntryEach, Sessions
<1>2. {i} \subseteq Nat
  BY TableSizesTyped DEF TypedInv
<1>3. First({i}) = i
  BY <1>2, FirstIsLeast
<1>4. QED
  BY <1>1, <1>3 DEF RelativePath


\* With room, an entry that is remembered takes the place of none.
LEMMA RememberedWithRoom ==
  ASSUME NEW d \in Nat \ {0}, paths \in [1..d -> PathEntries], OneEntryPerObject, Fits,
         NEW s \in Sessions, NEW o \in Objects, NEW path \in Paths,
         paths' = RememberDomainPath(paths, s, o, path)
  PROVE  \E k \in 1..d :
           /\ paths'[k].session = s /\ paths'[k].key = o /\ paths'[k].path = path
           /\ \A i \in 1..d : paths[i].session # 0 /\ <<paths[i].session, paths[i].key>> # <<s, o>>
                                => paths'[i] = paths[i]
<1>1. PICK k \in 1..d :
        /\ paths'[k].session = s /\ paths'[k].key = o /\ paths'[k].path = path
        /\ \A i \in 1..d \ {k} : paths'[i] = paths[i]
        /\ (\E i \in 1..d : paths[i].session = s /\ paths[i].key = o) =>
             paths[k].session = s /\ paths[k].key = o
        /\ (\E i \in 1..d : paths[i].session = 0) =>
             \/ paths[k].session = 0
             \/ paths[k].session = s /\ paths[k].key = o
  BY RememberedPath
<1>2. d >= MaxSessions * Cardinality(Objects)
  <2>1. Len(paths) = d
    BY IsASeq, LenProperties
  <2>2. QED
    BY <2>1 DEF Fits
<1>3. \/ \E i \in 1..d : paths[i].session = s /\ paths[i].key = o
      \/ \E i \in 1..d : paths[i].session = 0
  BY <1>2, RoomForObject
<1>4. paths[k].session = 0 \/ (paths[k].session = s /\ paths[k].key = o)
  BY <1>1, <1>3
<1>5. QED
  BY <1>1, <1>4

LEMMA KnownStep ==
  ASSUME Fits, FullInv, TrackedNow, ObjectsKnown, [Next]_vars
  PROVE  ObjectsKnown'
<1> USE DEF SafeInv, TypedInv, FullInv
<1>0. PICK d \in Nat \ {0} : paths \in [1..d -> PathEntries]
  BY TableSizesTyped
<1>1. DOMAIN paths' = 1..d
  BY <1>0, TablesStayTyped
<1>2. \A s \in Sessions : \E D \in SUBSET Objects : live[s] \in [D -> Paths]
  BY DEF WorldTyped
<1>3. CASE UNCHANGED <<paths, live>>
  BY <1>3 DEF ObjectsKnown, Known
<1>4. CASE Accept
  BY <1>3, <1>4, AcceptTracks DEF Accept
<1>5. ASSUME NEW s \in Sessions, NEW h \in Handles, CloseHandle(s, h) PROVE ObjectsKnown'
  <2> DEFINE final == Active(MarkClosed(handles, s, h), s) = {}
  <2>1. /\ final <=> open[s] = {h}
        /\ final => \A i \in DOMAIN paths :
             IF paths[i].session = s THEN paths'[i].session = 0 ELSE paths'[i] = paths[i]
        /\ ~final => paths' = paths
    BY <1>5, CloseTracks, CloseEntries
  <2>2. live' = IF open[s] = {h} THEN [live EXCEPT ![s] = NoObjects] ELSE live
    BY <1>5 DEF CloseHandle
  <2> HIDE DEF final
  <2>3. CASE ~final
    BY <1>3, <2>1, <2>2, <2>3
  <2>4. CASE final
    <3>1. live' = [live EXCEPT ![s] = NoObjects]
      BY <2>1, <2>2, <2>4
    <3>2. ASSUME NEW t \in Sessions, NEW q \in DOMAIN live'[t] PROVE Known(t, q)'
      <4>1. t # s /\ live'[t] = live[t]
        BY <3>1, <3>2 DEF NoObjects, WorldTyped
      <4>2. PICK i \in DOMAIN paths : /\ paths[i].session = t /\ paths[i].key = q
                                      /\ IsHeadOf(paths[i].path, live[t][q])
        BY <3>2, <4>1 DEF ObjectsKnown, Known
      <4>3. paths'[i] = paths[i]
        BY <2>1, <2>4, <4>1, <4>2
      <4>4. QED
        BY <1>0, <1>1, <4>1, <4>2, <4>3 DEF Known
    <3>3. QED
      BY <3>2 DEF ObjectsKnown
  <2>5. QED
    BY <2>3, <2>4
<1>6. ASSUME NEW s \in Sessions, NEW o \in Objects, NEW path \in Paths,
             paths' = RememberDomainPath(paths, s, o, path),
             \A t \in Sessions : t # s => live'[t] = live[t],
             \A q \in DOMAIN live'[s] : q # o => q \in DOMAIN live[s] /\ live'[s][q] = live[s][q],
             o \in DOMAIN live'[s] => IsHeadOf(path, live'[s][o])
      PROVE  ObjectsKnown'
  <2>1. PICK k \in 1..d :
           /\ paths'[k].session = s /\ paths'[k].key = o /\ paths'[k].path = path
           /\ \A i \in 1..d : paths[i].session # 0 /\ <<paths[i].session, paths[i].key>> # <<s, o>>
                                => paths'[i] = paths[i]
    BY <1>0, <1>6, RememberedWithRoom
  <2>2. ASSUME NEW t \in Sessions, NEW q \in DOMAIN live'[t] PROVE Known(t, q)'
    <3>1. CASE t = s /\ q = o
      BY <1>1, <1>6, <2>1, <2>2, <3>1 DEF Known
    <3>2. CASE ~(t = s /\ q = o)
      <4>1. q \in DOMAIN live[t] /\ live'[t][q] = live[t][q]
        BY <1>6, <2>2, <3>2
      <4>2. PICK i \in 1..d : /\ paths[i].session = t /\ paths[i].key = q
                              /\ IsHeadOf(paths[i].path, live[t][q])
        BY <1>0, <4>1 DEF ObjectsKnown, Known
      <4>3. paths'[i] = paths[i]
        BY <2>1, <3>2, <4>2 DEF Sessions
      <4>4. QED
        BY <1>1, <4>1, <4>2, <4>3 DEF Known
    <3>3. QED
      BY <3>1, <3>2
  <2>3. QED
    BY <2>2 DEF ObjectsKnown
<1>7. ASSUME NEW s \in Sessions, NEW o \in Objects, ConvertToDomain(s, o) PROVE ObjectsKnown'
  <2>1. /\ paths' = RememberDomainPath(paths, s, o, <<"root">>)
        /\ live' = [live EXCEPT ![s] = [x \in {o} |-> <<"root">>]]
    BY <1>7 DEF ConvertToDomain
  <2>2. live'[s] = [x \in {o} |-> <<"root">>] /\ \A t \in Sessions : t # s => live'[t] = live[t]
    BY <2>1 DEF WorldTyped
  <2>3. <<"root">> \in Paths /\ IsHeadOf(<<"root">>, <<"root">>)
    <3>1. Min({PathLength, 1}) = 1
      BY MinOfTwo, SlotsAssumption
    <3>2. QED
      BY <3>1 DEF Paths, IsHeadOf
  <2>4. QED
    BY <1>6, <2>1, <2>2, <2>3
<1>8. ASSUME NEW s \in Sessions, NEW p \in Objects, NEW o \in Objects, NEW c \in Commands,
             ReturnObject(s, p, c, o)
      PROVE  ObjectsKnown'
  <2>1. /\ p \in DOMAIN live[s] /\ o \notin DOMAIN live[s]
        /\ live' = [live EXCEPT ![s] = [x \in DOMAIN live[s] \cup {o} |->
                                          IF x = o THEN Append(live[s][p], c) ELSE live[s][x]]]
        /\ paths' = RememberDomainPath(paths, s, o, ChildPath(RelativePath(s, p), c))
    BY <1>8 DEF ReturnObject
  <2>2. /\ live'[s] = [x \in DOMAIN live[s] \cup {o} |->
                         IF x = o THEN Append(live[s][p], c) ELSE live[s][x]]
        /\ \A t \in Sessions : t # s => live'[t] = live[t]
    BY <2>1 DEF WorldTyped
  <2>3. live'[s][o] = Append(live[s][p], c)
        /\ \A q \in DOMAIN live'[s] : q # o => q \in DOMAIN live[s] /\ live'[s][q] = live[s][q]
    BY <2>2
  <2>4. PICK i \in DOMAIN paths : /\ paths[i].session = s /\ paths[i].key = p
                                  /\ IsHeadOf(paths[i].path, live[s][p])
    BY <2>1 DEF ObjectsKnown, Known
  <2>5. RelativePath(s, p) = paths[i].path /\ RelativePath(s, p) \in Paths
    BY <2>4, LookupFinds, RelativePathTyped
  <2>6. live[s][p] \in Paths
    BY <1>2, <2>1
  <2>7. IsHeadOf(ChildPath(RelativePath(s, p), c), Append(live[s][p], c))
    BY <2>4, <2>5, <2>6, HeadOfChild
  <2>8. ChildPath(RelativePath(s, p), c) \in Paths
    BY <2>5, ChildPathIsCut
  <2> DEFINE path == ChildPath(RelativePath(s, p), c)
  <2>9. path \in Paths /\ IsHeadOf(path, live'[s][o]) /\ paths' = RememberDomainPath(paths, s, o, path)
    BY <2>1, <2>3, <2>7, <2>8
  <2> HIDE DEF path
  <2>10. QED
    BY <1>6, <2>2, <2>3, <2>9
<1>9. ASSUME NEW s \in Sessions, NEW o \in Objects, CloseObject(s, o) PROVE ObjectsKnown'
  <2>1. paths' = MarkClosed(paths, s, o) /\ live' = [live EXCEPT ![s] = Restrict(@, DOMAIN @ \ {o})]
    BY <1>9 DEF CloseObject
  <2>2. \A i \in 1..d : /\ paths'[i].session = paths[i].session /\ paths'[i].key = paths[i].key
                        /\ paths'[i].path = paths[i].path
    <3>1. \A e \in PathEntries : /\ [e EXCEPT !.closed = TRUE].session = e.session
                                 /\ [e EXCEPT !.closed = TRUE].key = e.key
                                 /\ [e EXCEPT !.closed = TRUE].path = e.path
      BY DEF PathEntries, FreePath, Free
    <3>2. QED
      BY <1>0, <2>1, <3>1 DEF MarkClosed
  <2>3. \A t \in Sessions : \A q \in DOMAIN live'[t] :
          q \in DOMAIN live[t] /\ live'[t][q] = live[t][q]
    BY <2>1 DEF Restrict, WorldTyped
  <2>4. QED
    BY <1>0, <1>1, <2>2, <2>3 DEF ObjectsKnown, Known
<1>10. QED
  BY <1>3, <1>4, <1>5, <1>7, <1>8, <1>9 DEF Next, vars, tables, AcceptFails, CloneSession


-----------------------------------------------------------------------------
(* The invariant, and what follows from it. *)

WhileRoom == Fits => TrackedNow /\ DisconnectedAtLastClose /\ ObjectsKnown
IInv == FullInv /\ WhileRoom

LEMMA InvInit == Init => IInv
<1> SUFFICES ASSUME Init PROVE IInv
  OBVIOUS
<1>1. SafeInv
  BY SafeInit
<1>2. /\ \A i \in DOMAIN sessions : sessions[i] = 0
      /\ \A i \in DOMAIN handles : handles[i].session = 0
      /\ \A i \in DOMAIN clones : clones[i].session = 0
  BY DEF Init, FreeHandle, Free
<1>3. \A s \in Sessions : open[s] = {} /\ root[s] = 0 /\ DOMAIN live[s] = {} /\ disconnects[s] = 0
  BY DEF Init, NoObjects
<1>4. Numbered
  BY <1>3 DEF Numbered, Init
<1>5. Once
  BY <1>2 DEF Once, KeysUnder, SessionsOnce
<1>6. TrackedNow
  <2>1. Tracked = {} /\ Connected = {}
    BY <1>2, <1>3 DEF Tracked, Range, Connected
  <2>2. \A s \in Sessions : Active(handles, s) = {} /\ Active(clones, s) = {}
    BY <1>2 DEF Active, Sessions
  <2>3. QED
    BY <1>3, <2>1, <2>2 DEF TrackedNow
<1>7. DisconnectedAtLastClose /\ ObjectsKnown
  BY <1>3 DEF DisconnectedAtLastClose, ObjectsKnown
<1>8. QED
  BY <1>1, <1>4, <1>5, <1>6, <1>7 DEF IInv, FullInv, WhileRoom

LEMMA InvStep == IInv /\ [Next]_vars => IInv'
<1> SUFFICES ASSUME IInv, [Next]_vars PROVE IInv'
  OBVIOUS
<1>1. FullInv /\ WhileRoom /\ TablesTyped /\ WorldTyped
  BY DEF IInv, FullInv, SafeInv, TypedInv
<1>2. FullInv'
  BY <1>1, SafeStep, NumberedStep, OnceStep DEF FullInv
<1>3. ASSUME Fits' PROVE TrackedNow' /\ DisconnectedAtLastClose' /\ ObjectsKnown'
  <2>1. Fits
    BY <1>1, <1>3, FitsKept
  <2>2. TrackedNow /\ DisconnectedAtLastClose /\ ObjectsKnown
    BY <1>1, <2>1 DEF WhileRoom
  <2>3. QED
    BY <1>1, <2>1, <2>2, TrackedStep, DisconnectStep, KnownStep
<1>4. QED
  BY <1>2, <1>3 DEF IInv, WhileRoom

LEMMA InvAlways == Spec => []IInv
BY InvInit, InvStep, PTL DEF Spec

\* While no table is full, a session is counted as long as it has an open
\* handle, and each of its handles and clones is known as open
\* (Remember*Locked, Count*ForSessionLocked).
THEOREM TrackedAsOpen == Spec => []TrackedWhileOpen
<1>1. IInv => TrackedWhileOpen
  BY DEF IInv, WhileRoom, TrackedNow, TrackedWhileOpen, Connected
<1>2. QED
  BY <1>1, InvAlways, PTL

\* While no table is full, client_disconnected is logged once for a session, at
\* the close that leaves it no handle (LogSessionTrace, Close).
THEOREM DisconnectsOnce == Spec => []DisconnectedIfRoom
<1>1. IInv => DisconnectedIfRoom
  BY DEF IInv, WhileRoom, DisconnectedIfRoom
<1>2. QED
  BY <1>1, InvAlways, PTL

\* While no table is full, an object is known under the path of the calls that
\* created it, or its head (RememberReturnedDomainObjects, GetRelativeDomainPath).
THEOREM PathsAreCalls == Spec => []PathsFollowCalls
<1>1. IInv => PathsFollowCalls
  <2> SUFFICES ASSUME IInv, Fits, NEW s \in Connected, NEW o \in DOMAIN live[s]
               PROVE  LET known == RelativePath(s, o)
                          real == live[s][o]
                      IN /\ Len(known) = Min({PathLength, Len(real)})
                         /\ \A i \in DOMAIN known : known[i] = real[i]
    BY DEF PathsFollowCalls
  <2>1. TypedInv /\ ObjectsKnown /\ s \in Sessions
    BY DEF IInv, FullInv, SafeInv, WhileRoom, Connected
  <2>2. o \in Objects
    BY <2>1 DEF TypedInv, WorldTyped
  <2>3. PICK i \in DOMAIN paths : /\ paths[i].session = s /\ paths[i].key = o
                                  /\ IsHeadOf(paths[i].path, live[s][o])
    BY <2>1 DEF ObjectsKnown, Known
  <2>4. RelativePath(s, o) = paths[i].path /\ RelativePath(s, o) \in Paths
    BY <2>1, <2>2, <2>3, LookupFinds, RelativePathTyped DEF TypedInv
  <2>5. DOMAIN RelativePath(s, o) = 1..Len(RelativePath(s, o))
    BY <2>4 DEF Paths
  <2>6. QED
    BY <2>3, <2>4, <2>5 DEF IsHeadOf
<1>2. QED
  BY <1>1, InvAlways, PTL

=============================================================================
