-------------------------- MODULE RuntimeConfigFile --------------------------
(***************************************************************************)
(* The settings of the toolbox: the file they are read from and written    *)
(* to, and the pages that edit them (toolbox/src/runtime_config.cpp and    *)
(* the edit callbacks of app_ui.cpp).                                      *)
(*                                                                         *)
(* A line of the file is the setting it makes.  A line that has no '=',    *)
(* names no setting or whose value does not parse leaves the configuration *)
(* as it was: a stuttering step.  Of the unsigned settings the range is    *)
(* kept, of a name what trimming makes of it.  Writing the file safely is  *)
(* the matter of ConfigStore.                                              *)
(***************************************************************************)
EXTENDS Integers, Sequences

CONSTANTS
  Unsigned,         \* the unsigned settings looked at
  Most,             \* the largest value Validate accepts; one more still parses
  MaximumProfiles,
  MaxSteps          \* bound: lines read and edits made

\* What a module that instantiates this one assumes.
Parameters ==
  /\ Unsigned \subseteq {"udp.payload_bytes", "udp.datagram_count", "udp.pacing_ms",
       "udp.concurrent_flows", "udp.receive_deadline_ms", "udp.payload_seed",
       "tcp.receive_deadline_ms", "run.next_workload_id"}
  /\ {"udp.datagram_count", "udp.concurrent_flows"} \subseteq Unsigned
  /\ Most \in Nat \ {0} /\ MaximumProfiles \in Nat \ {0} /\ MaxSteps \in Nat

VARIABLES
  pc,      \* "reading" the file at the start, then "running"
  config,  \* report.config while reading, model->config afterwards
  file,    \* <<>>, or <<the configuration that was saved last>>
  steps    \* bound

vars == <<pc, config, file, steps>>

Scenario == {"udp", "tcp", "bsd udp", "bsd tcp", "contract"}
Outcome == {"echo", "no reply", "closure"}
Flag == {"echo", "clone", "mixed", "reject", "writable"}
Value == 0..Most + 1

\* Settings of which every value is valid, and those that may be zero.
Free == {"udp.payload_seed", "run.next_workload_id"}
Valid(key, v) == key \in Free \/ (v <= Most /\ (v > 0 \/ key = "udp.pacing_ms"))

\* What a line keeps of a name: no blanks around it, and no line at all for a
\* blank one.
Name == {"Default", "Lab", "Lab ", " ", ""}
Trimmed(name) == CASE name = "Lab " -> "Lab" [] name = " " -> "" [] OTHER -> name

Address == {"a1", "a2"}      \* IsValidIpv4
Port == 0..1

DefaultProfile ==
  [name |-> "Default", tunnel |-> "a1", bsd |-> "a1", udp_port |-> 1, tcp_port |-> 1]

CompiledRuntimeDefaults ==
  [ scenario |-> "udp", active |-> 0, profiles |-> <<DefaultProfile>>,
    unsigned |-> [key \in Unsigned |-> 1],
    flags |-> [flag \in Flag |-> flag \notin {"reject", "writable"}], outcome |-> "echo" ]

Count(c) == Len(c.profiles)
HasActive(c) == c.active < Count(c)    \* ActiveRuntimeProfile # nullptr
Active(c) == c.active + 1

-----------------------------------------------------------------------------
(* ValidateRuntimeConfig. *)

ValidProfile(p) ==
  p.name # "" /\ {p.tunnel, p.bsd} \subseteq Address /\ p.udp_port # 0 /\ p.tcp_port # 0

OneDatagram(c) == c.unsigned["udp.datagram_count"] = 1 /\ c.unsigned["udp.concurrent_flows"] = 1

ValidOutcome(c) ==
  CASE c.scenario # "bsd udp" -> TRUE
    [] c.outcome = "no reply" -> ~c.flags["echo"] /\ OneDatagram(c)
    [] c.outcome = "closure" -> c.flags["echo"] /\ ~c.flags["writable"] /\ OneDatagram(c)
    [] OTHER -> TRUE

ValidateRuntimeConfig(c) ==
  /\ Count(c) \in 1..MaximumProfiles /\ HasActive(c)
  /\ \A i \in 1..Count(c) : ValidProfile(c.profiles[i])
  /\ \A key \in Unsigned : Valid(key, c.unsigned[key])
  /\ ValidOutcome(c)
  /\ c.scenario = "contract" => c.flags["clone"] \/ c.flags["mixed"]

-----------------------------------------------------------------------------
(* ApplySetting: the configuration after a line whose value parses. *)

\* profiles.count: vector::resize with the first profile as the filler.
\* Faulty variant: the limit is not looked at.
SetCountUnlimited(c, n) ==
  IF n = 0 THEN c
  ELSE [c EXCEPT !.profiles = [i \in 1..n |-> IF i <= Len(@) THEN @[i] ELSE @[1]]]

SetCount(c, n) ==
  IF n \notin 1..MaximumProfiles THEN c
  ELSE [c EXCEPT !.profiles = [i \in 1..n |-> IF i <= Len(@) THEN @[i] ELSE @[1]]]

\* profile.<i>.<field>: a port is assigned before zero is rejected, an address is not.
SetProfile(c, i, field, v) ==
  IF i < Count(c) THEN [c EXCEPT !.profiles[i + 1][field] = v] ELSE c

SetName(c, i, name) == IF Trimmed(name) = "" THEN c ELSE SetProfile(c, i, "name", Trimmed(name))

\* The settings of the format before profiles, applied to the profile that is
\* active as they are read.  The others of that format are settings below.
LegacyLine(c) ==
  HasActive(c) /\
  \/ config' \in {[c EXCEPT !.scenario = s] : s \in {"udp", "bsd udp", "contract"}}
  \/ config' \in {[c EXCEPT !.profiles[Active(c)].tunnel = a, !.profiles[Active(c)].bsd = a] : a \in Address}
  \/ config' \in {[c EXCEPT !.profiles[Active(c)].udp_port = p] : p \in Port}

ProfileLine(c) == \E i \in 0..MaximumProfiles :
  \/ config' \in {SetName(c, i, name) : name \in Name}
  \/ \E f \in {"tunnel", "bsd"} : config' \in {SetProfile(c, i, f, a) : a \in Address}
  \/ \E f \in {"udp_port", "tcp_port"} : config' \in {SetProfile(c, i, f, p) : p \in Port}

\* The settings that a line and an edit make alike; a page takes only a value
\* within the range (AssignUnsigned), though zero as well.
Setting(c, values) ==
  \/ \E key \in Unsigned : config' \in {[c EXCEPT !.unsigned[key] = v] : v \in values[key]}
  \/ \E flag \in Flag : config' = [c EXCEPT !.flags[flag] = ~@]
  \/ config' \in {[c EXCEPT !.outcome = o] : o \in Outcome}
  \/ config' \in {[c EXCEPT !.scenario = s] : s \in Scenario}

Line(c) ==
  \/ Setting(c, [key \in Unsigned |-> Value])
  \/ config' \in {[c EXCEPT !.active = n] : n \in 0..MaximumProfiles}
  \/ config' \in {SetCount(c, n) : n \in 0..MaximumProfiles + 1}
  \/ ProfileLine(c)
  \/ LegacyLine(c)

\* The file SaveRuntimeConfig writes, read from its first line to its last.
Header(c) == [CompiledRuntimeDefaults EXCEPT !.scenario = c.scenario, !.active = c.active]

ReadProfile(c, i, p) ==
  IF i < Count(c)
  THEN [SetName(c, i, p.name) EXCEPT
          !.profiles[i + 1].tunnel = p.tunnel, !.profiles[i + 1].bsd = p.bsd,
          !.profiles[i + 1].udp_port = p.udp_port, !.profiles[i + 1].tcp_port = p.tcp_port]
  ELSE c

ReadProfiles(base, c) ==
  LET Read[i \in 0..Count(c)] ==
        IF i = 0 THEN base ELSE ReadProfile(Read[i - 1], i - 1, c.profiles[i])
  IN Read[Count(c)]

ReadRest(read, c) == [read EXCEPT !.unsigned = c.unsigned, !.flags = c.flags, !.outcome = c.outcome]

\* Faulty variant: profiles.count is written after the profiles.
ReadBackCountLast(c) == ReadRest(SetCount(ReadProfiles(Header(c), c), Count(c)), c)
ReadBack(c) == ReadRest(ReadProfiles(SetCount(Header(c), Count(c)), c), c)

-----------------------------------------------------------------------------
Init == pc = "reading" /\ config = CompiledRuntimeDefaults /\ file = <<>> /\ steps = 0

Step == steps < MaxSteps /\ steps' = steps + 1

ReadLine == pc = "reading" /\ Step /\ Line(config) /\ UNCHANGED <<pc, file>>

Accepted(c) == IF ValidateRuntimeConfig(c) THEN c ELSE CompiledRuntimeDefaults

EndOfFile ==
  /\ pc = "reading" /\ pc' = "running"
  /\ config' = Accepted(config)
  /\ UNCHANGED <<file, steps>>

\* SettingsPage and MainPage.
EditSetting ==
  /\ pc = "running" /\ Step
  /\ Setting(config, [key \in Unsigned |-> IF key \in Free THEN Value ELSE 0..Most])
  /\ UNCHANGED <<pc, file>>

\* The selectors show the profiles there are.
SelectProfile ==
  /\ pc = "running" /\ Step
  /\ config' \in {[config EXCEPT !.active = i] : i \in 0..Count(config) - 1}
  /\ UNCHANGED <<pc, file>>

\* ProfilesPage: the active profile's fields take any text and any port.
EditProfile ==
  /\ pc = "running" /\ Step /\ HasActive(config)
  /\ \/ config' \in {[config EXCEPT !.profiles[Active(config)].name = name] : name \in Name}
     \/ \E f \in {"tunnel", "bsd"} :
          config' \in {[config EXCEPT !.profiles[Active(config)][f] = a] : a \in Address \cup {"text"}}
     \/ \E f \in {"udp_port", "tcp_port"} :
          config' \in {[config EXCEPT !.profiles[Active(config)][f] = p] : p \in Port}
  /\ UNCHANGED <<pc, file>>

\* A copy of the active profile, which then is the active one.
AddProfile ==
  /\ pc = "running" /\ Step /\ Count(config) # MaximumProfiles
  /\ config' = [config EXCEPT
       !.profiles = Append(@, [@[Active(config)] EXCEPT !.name = "Lab"]), !.active = Count(config)]
  /\ UNCHANGED <<pc, file>>

ResetToDefaults ==
  /\ pc = "running" /\ Step /\ config' = CompiledRuntimeDefaults /\ UNCHANGED <<pc, file>>

Save ==
  /\ pc = "running" /\ ValidateRuntimeConfig(config)
  /\ file' = <<config>> /\ UNCHANGED <<pc, config, steps>>

\* The toolbox is left and started again.
Restart ==
  /\ pc = "running" /\ file # <<>>
  /\ config' = Accepted(ReadBack(file[1]))
  /\ UNCHANGED <<pc, file, steps>>

Edit == EditSetting \/ SelectProfile \/ EditProfile \/ AddProfile \/ ResetToDefaults
Next == ReadLine \/ EndOfFile \/ Edit \/ Save \/ Restart

Spec == Init /\ [][Next]_vars

-----------------------------------------------------------------------------
Profile == [name : Name, tunnel : Address \cup {"text"}, bsd : Address \cup {"text"}, udp_port : Port, tcp_port : Port]

Config(c) ==
  /\ c.scenario \in Scenario /\ c.active \in 0..MaximumProfiles /\ c.outcome \in Outcome
  /\ Count(c) \in 1..MaximumProfiles /\ \A i \in 1..Count(c) : c.profiles[i] \in Profile
  /\ c.unsigned \in [Unsigned -> Value] /\ c.flags \in [Flag -> BOOLEAN]

TypeOK ==
  /\ pc \in {"reading", "running"} /\ steps \in 0..MaxSteps
  /\ Config(config) /\ (file # <<>> => Config(file[1]))

\* Whatever the file held and whatever was edited since, there is an active
\* profile: AddProfile copies it without a look (app_ui.cpp:604).
ActiveExists == pc = "running" => HasActive(config)

\* A start after a save finds every setting as it was saved, names trimmed; a
\* blank name is no line, and the profile keeps the name it was filled with.
AsWritten(name) == IF Trimmed(name) = "" THEN DefaultProfile.name ELSE Trimmed(name)
AsStored(p) == [p EXCEPT !.name = AsWritten(p.name)]
Stored(c) == [c EXCEPT !.profiles = [i \in 1..Count(c) |-> AsStored(c.profiles[i])]]
RestartKeeps == Restart => config' = Stored(file[1])
=============================================================================
