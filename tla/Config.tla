------------------------------- MODULE Config -------------------------------
(***************************************************************************)
(* The configuration of the sensor (src/src/config.c, events.c): options   *)
(* arrive one by one, from the command line or from a JSON document, and   *)
(* what they have set is validated at the end.  An option of a group of    *)
(* events applies to the group that was named last, which may have been    *)
(* named before.                                                           *)
(***************************************************************************)
EXTENDS Integers, Sequences, FiniteSets, SequencesExt

CONSTANTS Names,            \* names of groups of events
          Events,           \* events the machine supports
          StorageTypes,     \* storage modules compiled in
          UINT_MAX,         \* largest unsigned int
          ULONG_MAX,        \* largest unsigned long
          Numbers,          \* numbers that may be given
          MaxGroupOptions,  \* bound: options about groups of events
          MaxOptions        \* bound: options, all together

ASSUME ConfigAssumption ==
    /\ {"null", "csv", "socket"} \subseteq StorageTypes
    /\ StorageTypes \subseteq {"null", "csv", "socket", "mongodb"}
    /\ UINT_MAX \in Nat /\ UINT_MAX % 2 = 1 /\ UINT_MAX >= 1000
    /\ ULONG_MAX \in Nat /\ ULONG_MAX >= UINT_MAX
    /\ Numbers \subseteq Int
    /\ MaxGroupOptions \in Nat /\ MaxOptions \in Nat

VARIABLES
    front,      \* "cli" or "file": where the options come from
    current,    \* current_events_group: <<table, name>>, or <<>> for NULL
    config,     \* config->sensor and config->storage
    events      \* events[t][n]: the group n of table t of config->events

\* History, read by the properties only.
VARIABLES
    given,      \* the options about groups of events, in order
    asked,      \* asked[s]: the last number given for setting s
    portGiven,  \* the port has been given
    options     \* number of options

configHistory == <<given, asked, portGiven>>
configVars == <<front, current, config, events, configHistory, options>>

Tables   == {"system", "containers"}
Settings == {"frequency", "callchains_per_report"}
Strings  == {"U_flag", "D_flag", "C_flag"}
NewGroup == [type |-> "MONITOR_ALL_CPU_PER_SOCKET", events |-> <<>>]

DefaultNumbers == [frequency |-> 1000, callchains_per_report |-> 20]
Defaults(port) ==
    [name |-> FALSE, numbers |-> DefaultNumbers,
     type |-> "csv", strings |-> {}, P_flag |-> port]

\* The port is not among the defaults: whatever the memory held.  A port is
\* either 0 or not.
ConfigInit ==
    /\ front \in {"cli", "file"}
    /\ current = <<>>
    /\ \E port \in {0, 1} : config = Defaults(port)
    /\ events = [t \in Tables |-> <<>>]
    /\ given = <<>> /\ asked = DefaultNumbers /\ portGiven = FALSE /\ options = 0

-----------------------------------------------------------------------------
Option == options < MaxOptions /\ options' = options + 1 /\ UNCHANGED front

\* An option that is not about a group: in a document, whose parts may come in
\* any order and twice, it is outside of the group read so far.
OtherOption ==
    /\ Option
    /\ current' = IF front = "cli" THEN current ELSE <<>>
    /\ UNCHANGED <<events, given>>

SetName ==
    /\ OtherOption
    /\ config' = [config EXCEPT !.name = TRUE]
    /\ UNCHANGED <<asked, portGiven>>

\* strtoul accepts a negative number and takes it modulo 2^64; errno tells only
\* of one that does not fit without its sign.
Parsed(n) == IF front = "cli" THEN n % (ULONG_MAX + 1) ELSE n

\* The document has 32-bit integers with a sign; what the command line is parsed
\* to must fit in an unsigned int.
InRange(n) == IF front = "cli" THEN n \in -ULONG_MAX .. ULONG_MAX /\ Parsed(n) <= UINT_MAX
              ELSE 2 * n \in -(UINT_MAX + 1) .. UINT_MAX

\* Variant: a number of the document keeps its sign.
SetNumberSigned(s, n) ==
    /\ OtherOption
    /\ InRange(n)
    /\ config' = [config EXCEPT !.numbers[s] = Parsed(n)]
    /\ asked' = [asked EXCEPT ![s] = n]
    /\ UNCHANGED portGiven

SetNumber(s, n) ==
    /\ OtherOption
    /\ InRange(n)
    /\ config' = [config EXCEPT !.numbers[s] = Parsed(n) % (UINT_MAX + 1)]
    /\ asked' = [asked EXCEPT ![s] = n]
    /\ UNCHANGED portGiven

SetStorageType(type) ==
    /\ OtherOption
    /\ type \in StorageTypes
    /\ config' = [config EXCEPT !.type = type]
    /\ UNCHANGED <<asked, portGiven>>

SetString(s) ==
    /\ OtherOption
    /\ config' = [config EXCEPT !.strings = @ \union {s}]
    /\ UNCHANGED <<asked, portGiven>>

\* Whatever the name of an integer of the output section, it is the port.
SetPort(port) ==
    /\ OtherOption
    /\ config' = [config EXCEPT !.P_flag = port]
    /\ portGiven' = TRUE
    /\ UNCHANGED asked

-----------------------------------------------------------------------------
GroupOption(option) ==
    /\ Option
    /\ Len(given) < MaxGroupOptions
    /\ given' = Append(given, option)
    /\ UNCHANGED <<config, asked, portGiven>>

\* Variant: the group takes the place of the one that has its name.
InsertedOver(table, name, group) ==
    [n \in DOMAIN table \union {name} |-> IF n = name THEN group ELSE table[n]]

\* zhashx_insert keeps the group that has the name already.
Inserted(table, name, group) ==
    [n \in DOMAIN table \union {name} |-> IF n \in DOMAIN table THEN table[n] ELSE group]

StartGroup(t, name) ==
    /\ GroupOption(<<"group", <<t, name>>>>)
    /\ events' = [events EXCEPT ![t] = Inserted(@, name, NewGroup)]
    /\ current' = <<t, name>>

ToCurrent(group) == events' = [events EXCEPT ![current[1]][current[2]] = group]
Current == events[current[1]][current[2]]

\* The command line has a word for one of the two types only.
SetMonitoringType(type) ==
    /\ current # <<>>
    /\ front = "cli" => type = "MONITOR_ONE_CPU_PER_SOCKET"
    /\ GroupOption(<<"type", type>>)
    /\ ToCurrent([Current EXCEPT !.type = type])
    /\ UNCHANGED current

AppendEvent(event) ==
    /\ current # <<>>
    /\ GroupOption(<<"event", event>>)
    /\ ToCurrent([Current EXCEPT !.events = Append(@, event)])
    /\ UNCHANGED current

-----------------------------------------------------------------------------
\* Variant: MongoDB is asked for its address only.
ValidWithoutCollection ==
    /\ config.name
    /\ \E t \in Tables : DOMAIN events[t] # {}
    /\ config.type \in {"csv", "socket", "mongodb"} => "U_flag" \in config.strings
    /\ config.type = "socket" => config.P_flag # 0

Valid ==
    /\ config.name
    /\ \E t \in Tables : DOMAIN events[t] # {}
    /\ config.type \in {"csv", "socket", "mongodb"} => "U_flag" \in config.strings
    /\ config.type = "socket" => config.P_flag # 0
    /\ config.type = "mongodb" => {"D_flag", "C_flag"} \subseteq config.strings

ReadOption ==
    \/ SetName
    \/ \E s \in Settings, n \in Numbers : SetNumber(s, n)
    \/ \E type \in StorageTypes : SetStorageType(type)
    \/ \E s \in Strings : SetString(s)
    \/ \E port \in {0, 1} : SetPort(port)
    \/ \E t \in Tables, name \in Names : StartGroup(t, name)
    \/ \E type \in {"MONITOR_ONE_CPU_PER_SOCKET", "MONITOR_ALL_CPU_PER_SOCKET"} :
           SetMonitoringType(type)
    \/ \E event \in Events : AppendEvent(event)

\* config_destroy: what was given goes with it.
DestroyConfig ==
    /\ events' = [t \in Tables |-> <<>>]
    /\ config' = Defaults(0)
    /\ current' = <<>>
    /\ given' = <<>> /\ asked' = DefaultNumbers /\ portGiven' = FALSE /\ options' = 0
    /\ UNCHANGED front

-----------------------------------------------------------------------------
ConfigTypeOK ==
    /\ front \in {"cli", "file"}
    /\ config \in [name : BOOLEAN, numbers : [Settings -> 0 .. UINT_MAX],
                   type : StorageTypes, strings : SUBSET Strings, P_flag : {0, 1}]
    /\ DOMAIN events = Tables
    /\ \A t \in Tables : DOMAIN events[t] \subseteq Names
    /\ current = <<>> \/ (current[1] \in Tables /\ current[2] \in DOMAIN events[current[1]])

\* What the options mean, read all at once: an option belongs to the group
\* named last before it.
OwnerOf(i) == given[Max({j \in 1 .. i : given[j][1] = "group"})][2]
About(what, group) == {i \in DOMAIN given : given[i][1] = what /\ OwnerOf(i) = group}
TypeMeant(group) ==
    LET types == About("type", group)
    IN  IF types = {} THEN NewGroup.type ELSE given[Max(types)][2]
EventsMeant(group, list) ==
    \E in \in [DOMAIN list -> About("event", group)] :
        /\ \A j, k \in DOMAIN list : j < k => in[j] < in[k]
        /\ \A i \in About("event", group) : \E k \in DOMAIN list : in[k] = i
        /\ \A k \in DOMAIN list : list[k] = given[in[k]][2]

\* However groups of both tables are named, left and named again, each one has
\* exactly the events given for it, in order, and its type (config.c:140-200 and
\* config.c:390-431, with the lookup after zhashx_insert).
GroupsAsGiven ==
    \A t \in Tables :
        /\ DOMAIN events[t] = {n \in Names : About("group", <<t, n>>) # {}}
        /\ \A n \in DOMAIN events[t] :
            /\ events[t][n].type = TypeMeant(<<t, n>>)
            /\ EventsMeant(<<t, n>>, events[t][n].events)

\* The period and the number of callchains are the numbers given, whatever the
\* width they are kept with; a negative one of a file becomes a huge one, and one
\* of the command line is refused, unless it is so far from zero that it wraps
\* into the range (config.c:97 and config.c:263).
NumbersAsGiven ==
    \A s \in Settings :
        \/ config.numbers[s] = asked[s]
        \/ /\ front = "file" /\ asked[s] < 0
           /\ 2 * config.numbers[s] > UINT_MAX
        \/ /\ front = "cli" /\ asked[s] < 0
           /\ config.numbers[s] = asked[s] + ULONG_MAX + 1

\* The configuration is the one the options describe.
AsGiven == GroupsAsGiven /\ NumbersAsGiven
=============================================================================
