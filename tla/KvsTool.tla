------------------------------- MODULE KvsTool -------------------------------
(***************************************************************************)
(* kvs_tool (rust_kvs_tool/kvs_tool.rs), one process per invocation, at    *)
(* work on the files of an instance that an application has open.  main()  *)
(* builds the store in mode Optional, does one operation, and exits with   *)
(* its result; operations that change the map flush it.                    *)
(***************************************************************************)
EXTENDS SharedFiles

CONSTANTS
    App, Tool,      \* the two stores
    AppValues,      \* the values the application sets
    JsonPayloads,   \* payloads that parse as JSON
    TextPayloads,   \* payloads that do not
    NoPayload,
    TestData        \* what createtestdata sets: a map of some of the keys

ASSUME StoresAssumption == Stores = {App, Tool} /\ App # Tool

VARIABLES
    stage,      \* how far main() is; "none" when the tool is not running
    inv,        \* the operation whose map is being flushed, with its arguments
    exit,       \* how the last run of the tool ended
    opened,     \* the document the tool found when it built the store
    flushed     \* the document the tool has generated in this run, 0 for none

toolVars == <<stage, inv, exit, opened, flushed>>
allVars == <<vars, toolVars>>

Payloads == JsonPayloads \cup TextPayloads \cup {NoPayload}

\* The value setkey stores: null without a payload, from_tinyjson of a payload
\* that parses, the text itself of one that does not.
Stored(payload) ==
    IF payload = NoPayload THEN <<"Null">>
    ELSE IF payload \in JsonPayloads THEN <<"from_tinyjson", payload>>
    ELSE <<"String", payload>>

NoInvocation == [op |-> "none"]

ToolInit ==
    /\ Init
    /\ stage = "none"
    /\ inv = NoInvocation
    /\ exit = "Ok"
    /\ opened = 0
    /\ flushed = 0

-----------------------------------------------------------------------------
(* The application *)

AppIdle == pc[App] = "idle"

\* Bound: of the MaxFlush flushes one is kept for a tool that is running.
AppMayFlush == seq + 1 < MaxFlush \/ stage \in {"none", "flush"}

AppStep ==
    /\ \/ OpenIgnored(App)
       \/ \E mode \in Modes : Open(App, mode)
       \/ Step(App)
       \/ AppIdle /\ AppMayFlush /\ Flush(App)
       \/ \E id \in Slots : Restore(App, id)
       \/ Crash(App)
    /\ UNCHANGED toolVars

AppChange(m) ==
    /\ AppIdle
    /\ map' = [map EXCEPT ![App] = m]
    /\ UNCHANGED <<disk, pc, base, InCall, history, turns, toolVars>>

AppSet(k, v) == AppChange([map[App] EXCEPT ![k] = v])
AppRemove(k) == map[App][k] # Missing /\ AppChange([map[App] EXCEPT ![k] = Missing])
AppReset == AppChange(EmptyMap)

-----------------------------------------------------------------------------
(* The tool *)

\* main() returns: the process ends, what is in memory with it.
Exit(code) ==
    /\ Return(Tool, "down", "Ok")
    /\ Remember(Tool, EmptyMap, 0)
    /\ stage' = "none"
    /\ inv' = NoInvocation
    /\ exit' = code
    /\ opened' = 0
    /\ flushed' = 0
    /\ UNCHANGED <<disk, history, turns>>

\* The tool is started on a command line, whose operation and arguments are
\* looked at as they are needed: first --help, then, with the store open, the
\* operation, then its arguments.
Start ==
    /\ stage = "none"
    /\ seq < MaxFlush
    /\ stage' = "build"
    /\ exit' = "Ok"
    /\ UNCHANGED <<vars, inv, opened, flushed>>

Help == stage = "build" /\ Exit("Ok")

Build ==
    /\ stage = "build"
    /\ Open(Tool, "Optional")
    /\ stage' = "open"
    /\ UNCHANGED <<inv, exit, opened, flushed>>

\* Faulty variant: a build that failed is tried again.
BuildFailedRetries ==
    /\ stage = "open" /\ pc[Tool] = "down"
    /\ stage' = "build"
    /\ UNCHANGED <<vars, inv, exit, opened, flushed>>

BuildFailed == stage = "open" /\ pc[Tool] = "down" /\ Exit(result[Tool])

Ready == stage = "open" /\ pc[Tool] = "idle"

\* The operation is not given or not known, or its key or snapshot ID is not
\* given.
BadArguments == Ready /\ Exit("UnmappedError")

\* Nothing is in the defaults: is_value_default of a key that is not in the map
\* is an error, and _getkey returns it.
GetKey(k) == Ready /\ Exit(IF map[Tool][k] # Missing THEN "Ok" ELSE "KeyNotFound")

\* These print what they find and change nothing; with a snapshot ID given, and
\* the backend always a JsonBackend, nothing in them can fail.
ListKeys == Ready /\ Exit("Ok")
PrintSnapshotCount == Ready /\ Exit("Ok")
PrintSnapshotMaxCount == Ready /\ Exit("Ok")
GetKvsFilename == Ready /\ Exit("Ok")
GetHashFilename == Ready /\ Exit("Ok")

PrintOnly ==
    \/ ListKeys \/ PrintSnapshotCount \/ PrintSnapshotMaxCount
    \/ GetKvsFilename \/ GetHashFilename

\* An operation has made m of the map, and flushes it.
ChangeTo(m, i) ==
    /\ FlushMap(Tool, m)
    /\ stage' = "flush"
    /\ inv' = i
    /\ flushed' = seq + 1
    /\ UNCHANGED <<exit, opened>>

SetKey(k, payload) ==
    /\ Ready
    /\ ChangeTo([map[Tool] EXCEPT ![k] = Stored(payload)],
                [op |-> "setkey", key |-> k, payload |-> payload])

RemoveKey(k) ==
    /\ Ready
    /\ \/ /\ map[Tool][k] # Missing
          /\ ChangeTo([map[Tool] EXCEPT ![k] = Missing], [op |-> "removekey", key |-> k])
       \/ map[Tool][k] = Missing /\ Exit("KeyNotFound")

ResetStore == Ready /\ ChangeTo(EmptyMap, [op |-> "reset"])

CreateTestData ==
    /\ Ready
    /\ ChangeTo([k \in Keys |-> IF k \in DOMAIN TestData THEN TestData[k] ELSE map[Tool][k]],
                [op |-> "createtestdata"])

SnapshotRestore(id) ==
    /\ Ready
    /\ Restore(Tool, id)
    /\ stage' = "restore"
    /\ UNCHANGED <<inv, exit, opened, flushed>>

\* A restored snapshot is flushed: it becomes the newest document as well.
Restored ==
    /\ stage = "restore" /\ pc[Tool] = "idle"
    /\ \/ result[Tool] = "Ok" /\ ChangeTo(map[Tool], [op |-> "snapshotrestore"])
       \/ result[Tool] # "Ok" /\ Exit(result[Tool])

\* Faulty variant: the result of flush is dropped.
FlushedUnchecked == stage = "flush" /\ pc[Tool] = "idle" /\ Exit("Ok")

Flushed == stage = "flush" /\ pc[Tool] = "idle" /\ Exit(result[Tool])

ToolCall ==
    /\ Step(Tool)
    /\ opened' = IF stage = "open" THEN base'[Tool] ELSE opened
    /\ UNCHANGED <<stage, inv, exit, flushed>>

ToolCrash ==
    /\ Crash(Tool)
    /\ stage' = "none"
    /\ inv' = NoInvocation
    /\ exit' = "killed"
    /\ opened' = 0
    /\ flushed' = 0

ToolRun ==
    \/ Help \/ Build \/ BuildFailed \/ BadArguments \/ PrintOnly
    \/ \E k \in Keys : GetKey(k) \/ RemoveKey(k)
    \/ \E k \in Keys, v \in Payloads : SetKey(k, v)
    \/ ResetStore \/ CreateTestData
    \/ \E id \in Slots : SnapshotRestore(id)
    \/ Restored \/ Flushed
    \/ ToolCall

Next ==
    \/ AppStep
    \/ \E k \in Keys, v \in AppValues : AppSet(k, v)
    \/ \E k \in Keys : AppRemove(k)
    \/ AppReset
    \/ Start
    \/ ToolRun
    \/ ToolCrash

Spec == ToolInit /\ [][Next]_allVars

-----------------------------------------------------------------------------
(* Properties *)

\* Every variable holds what the code can hold there.
ToolTypeOK ==
    /\ TypeOK
    /\ stage \in {"none", "build", "open", "restore", "flush"}
    /\ inv.op \in {"none", "setkey", "removekey", "reset", "createtestdata", "snapshotrestore"}
    /\ exit \in Results \cup {"KeyNotFound", "killed"}
    /\ opened \in Docs \cup {0}
    /\ flushed \in Docs \cup {0}

\* What an operation makes of a map.
Done(i, m) ==
    CASE i.op = "setkey" -> [m EXCEPT ![i.key] = Stored(i.payload)]
      [] i.op = "removekey" -> [m EXCEPT ![i.key] = Missing]
      [] i.op = "reset" -> EmptyMap
      [] i.op = "createtestdata" ->
            [k \in Keys |-> IF k \in DOMAIN TestData THEN TestData[k] ELSE m[k]]

MapOf(d) == IF d = 0 THEN EmptyMap ELSE content[d]

\* The tool returns from main(); it prints, or has changed the store.
ToolEnds == stage # "none" /\ stage' = "none" /\ exit' # "killed"
Printed == exit' = "Ok" /\ (Help \/ PrintOnly \/ \E k \in Keys : GetKey(k))

\* The exit status tells the truth, whatever the application did to the files
\* meanwhile and whatever failed.  An operation that changes the store exits with
\* Ok when a flush returned Ok for a document that is the one the tool opened with
\* that change and no other (for snapshotrestore, the map of a document that was
\* acknowledged before).  Otherwise no flush of the tool returned Ok, and what it
\* has written cannot be loaded: a hash write that fails leaves the tool's JSON in
\* slot 0, but its hash is in no slot.
ExitTellsOutcome ==
    [][ToolEnds =>
          IF exit' = "Ok" /\ ~Printed
          THEN /\ flushed \in acked \ {opened}
               /\ IF inv.op = "snapshotrestore"
                  THEN \E d \in acked \ {flushed} : content[flushed] = content[d]
                  ELSE content[flushed] = Done(inv, MapOf(opened))
          ELSE /\ flushed \notin acked
               /\ \A s \in Slots : hash[s] # flushed]_allVars

\* The system calls the tool has before it in the load or flush it is in.
CallLeft ==
    CASE pc[Tool] = "read_json" -> 2
      [] pc[Tool] = "read_hash" -> 1
      [] pc[Tool] = "look_json" -> 4 * idx[Tool] + 4
      [] pc[Tool] = "look_hash" -> 4 * idx[Tool] + 3
      [] pc[Tool] = "rename_hash" -> 4 * idx[Tool] + 2
      [] pc[Tool] = "rename_json" -> 4 * idx[Tool] + 1
      [] pc[Tool] = "open_json" -> 4
      [] pc[Tool] = "write_json" -> 3
      [] pc[Tool] = "open_hash" -> 2
      [] pc[Tool] = "write_hash" -> 1
      [] OTHER -> 0

\* The steps a run of the tool has before it: with the longest flush still to
\* come when it restores, and a load before that when the store is just opened.
ToolLeft ==
    CASE stage = "build" -> 4 * MaxCount + 8
      [] stage = "open" -> CallLeft + 4 * MaxCount + 5
      [] stage = "restore" -> CallLeft + 4 * MaxCount + 2
      [] stage = "flush" -> CallLeft + 1
      [] OTHER -> 0

\* Nothing the application does to the files, which both rotate, makes the tool
\* start over: what moves it on brings it nearer to the end of its run, which
\* takes at most 4 * MaxCount + 8 steps.
ToolIsBounded ==
    [][stage # "none" =>
          UNCHANGED <<stage, pc[Tool], idx[Tool]>> \/ ToolLeft' < ToolLeft]_allVars

\* A tool that was started and is scheduled ends, whatever the application does
\* and whatever fails: it always has a next step, and only so many of them.
ToolGetsDone ==
    /\ [](stage # "none" => ENABLED ToolRun)
    /\ ToolIsBounded

=============================================================================
