----------------------------- MODULE Processes -----------------------------
(***************************************************************************)
(* The process table of task.rs and the system calls on it: fork, spawn,   *)
(* exec, exit, wait and kill; descriptors, memory mappings, the current    *)
(* directory, environment, signals and groups.  A process has one thread,  *)
(* and a call runs with interrupts off, but it takes and drops the         *)
(* process-table lock several times, so the calls of processes on other    *)
(* CPUs fall between its steps.  What a call holds meanwhile (references   *)
(* taken, a new address space) is in its call record.                      *)
(***************************************************************************)
EXTENDS Naturals, Sequences, FiniteSets, SequencesExt

CONSTANTS MaxPids,        \* bound on process ids
          MAX_PROCESSES,  \* process table slots
          MAX_ENDPOINTS,  \* IPC namespaces
          Objects,        \* open files and pipe ends
          MaxRefs,        \* capacity of an object's reference count
          Fds,            \* descriptors 3.. of a process
          MapSlots,       \* USER_MMAP arena slots
          Signals,        \* a subset of 1..31
          Names,          \* path components, "." and ".." among them
          Dirs,           \* existing directories, as normalised sequences
          Variables, Values, MAX_ENV_VARS,
          Groups,         \* process groups that setpgid and kill name
          Loads,          \* "spawn", "exec": what programs are loaded for
          None

VARIABLES proc,      \* process table, by process id
          nextPid,   \* NEXT_PROCESS_ID
          spaces,    \* user address spaces: the mapped arena slots of each
          refs,      \* reference counts of files and pipe ends
          endpoints, \* processes with an IPC namespace
          call,      \* what each process is doing in the kernel
          lost,      \* history: references and spaces that error paths drop
          ended      \* history: <<how a process ended, what wait returned>>

processVars == <<proc, nextPid, spaces, refs, endpoints, call, lost, ended>>

Pids == 1..MaxPids
TERMINATING == {2, 9, 15}
UserMode == [op |-> "user"]
Back == [op |-> "return"]
NoFiles == [f \in Fds |-> None]
NoMaps == [m \in MapSlots |-> None]

Files(table) == {table[i] : i \in DOMAIN table} \ {None}
\* References that a descriptor table or a list of mappings holds on an object.
Held(table, o) == Cardinality({i \in DOMAIN table : table[i] = o})

NewProcess(parent, space) ==
    [parent |-> parent, state |-> "Ready", code |-> 0, space |-> space,
     files |-> NoFiles, maps |-> NoMaps, cwd |-> <<>>, env |-> <<>>,
     pending |-> 0, group |-> 0, action |-> [s \in Signals |-> "default"], term |-> 0]

ProcessInit ==
    /\ proc = 1 :> [NewProcess(0, 1) EXCEPT !.group = 1]
    /\ nextPid = 2
    /\ spaces = 1 :> {}
    /\ refs = [o \in Objects |-> 0]
    /\ endpoints = {1}
    /\ call = 1 :> UserMode
    /\ lost = [spaces |-> {}, refs |-> [o \in Objects |-> 0], slots |-> {}]
    /\ ended = <<>>

InUser(p) == p \in DOMAIN proc /\ proc[p].state = "Ready" /\ call[p] = UserMode
In(p, op) == p \in DOMAIN call /\ call[p].op = op
Goto(p, c) == call' = [call EXCEPT ![p] = c]
Released(table) == [o \in Objects |-> refs[o] - Held(table, o)]
Without(f, x) == [y \in DOMAIN f \ {x} |-> f[y]]

NewSpace == LET used == DOMAIN spaces \cup lost.spaces
            IN Min((1..(Cardinality(used) + 1)) \ used)

-----------------------------------------------------------------------------
\* Descriptors.  A reference is taken first, then recorded under the lock.

Open(p) ==
    /\ InUser(p)
    /\ \E o \in Objects : /\ refs[o] = 0
                          /\ refs' = [refs EXCEPT ![o] = 1]
                          /\ Goto(p, [op |-> "open", handle |-> o])
    /\ UNCHANGED <<proc, nextPid, spaces, endpoints, lost, ended>>

FreeFds(p) == {f \in Fds : proc[p].files[f] = None}

\* Without a free descriptor, open returns an error and keeps its reference.
OpenRecord(p) ==
    /\ In(p, "open")
    /\ IF FreeFds(p) # {}
       THEN /\ proc' = [proc EXCEPT ![p].files[Min(FreeFds(p))] = call[p].handle]
            /\ UNCHANGED lost
       ELSE /\ lost' = [lost EXCEPT !.refs[call[p].handle] = @ + 1]
            /\ UNCHANGED proc
    /\ Goto(p, Back)
    /\ UNCHANGED <<nextPid, spaces, refs, endpoints, ended>>

CanRetain(table) == \A o \in Objects : refs[o] + Held(table, o) <= MaxRefs

Dup(p) ==
    /\ InUser(p)
    /\ \E f \in Fds, new \in Fds \cup {None} :
          LET o == proc[p].files[f]
          IN /\ o # None /\ new # f /\ CanRetain(<<o>>)
             /\ refs' = [refs EXCEPT ![o] = @ + 1]
             /\ Goto(p, [op |-> "dup", handle |-> o, from |-> f, to |-> new])
    /\ UNCHANGED <<proc, nextPid, spaces, endpoints, lost, ended>>

\* Mutant: dup2 forgets the descriptor that it replaces.
ForgetPreviousMutant(p, to) == <<>>

Previous(p, to) == <<proc[p].files[to]>>

DupRecord(p) ==
    /\ In(p, "dup")
    /\ LET c == call[p]
           to == IF c.to # None THEN c.to ELSE IF FreeFds(p) # {} THEN Min(FreeFds(p)) ELSE None
       IN IF to # None /\ proc[p].files[c.from] = c.handle
          THEN /\ proc' = [proc EXCEPT ![p].files[to] = c.handle]
               /\ Goto(p, [op |-> "release", handles |-> Previous(p, to)])
          ELSE /\ Goto(p, [op |-> "release", handles |-> <<c.handle>>])
               /\ UNCHANGED proc
    /\ UNCHANGED <<nextPid, spaces, refs, endpoints, lost, ended>>

Close(p) ==
    /\ InUser(p)
    /\ \E f \in Fds : /\ proc[p].files[f] # None
                      /\ proc' = [proc EXCEPT ![p].files[f] = None]
                      /\ Goto(p, [op |-> "release", handles |-> <<proc[p].files[f]>>])
    /\ UNCHANGED <<nextPid, spaces, refs, endpoints, lost, ended>>

ReleaseFiles(p) ==
    /\ In(p, "release")
    /\ refs' = Released(call[p].handles)
    /\ Goto(p, Back)
    /\ UNCHANGED <<proc, nextPid, spaces, endpoints, lost, ended>>

\* Both ends of a new pipe are recorded, or neither.
Pipe(p) ==
    /\ InUser(p)
    /\ \E r, w \in Objects :
          /\ r # w /\ refs[r] = 0 /\ refs[w] = 0
          /\ refs' = [refs EXCEPT ![r] = 1, ![w] = 1]
          /\ Goto(p, [op |-> "pipe", handles |-> <<r, w>>])
    /\ UNCHANGED <<proc, nextPid, spaces, endpoints, lost, ended>>

PipeRecord(p) ==
    /\ In(p, "pipe")
    /\ LET r == Min(FreeFds(p))
           w == Min(FreeFds(p) \ {r})
       IN IF Cardinality(FreeFds(p)) >= 2
          THEN /\ proc' = [proc EXCEPT ![p].files = [@ EXCEPT ![r] = call[p].handles[1],
                                                              ![w] = call[p].handles[2]]]
               /\ Goto(p, Back)
          ELSE /\ Goto(p, [op |-> "release", handles |-> call[p].handles])
               /\ UNCHANGED proc
    /\ UNCHANGED <<nextPid, spaces, refs, endpoints, lost, ended>>

-----------------------------------------------------------------------------
\* Memory mappings: "anonymous" pages, or a lazy mapping that holds its file.

MapHandles(maps) == [m \in MapSlots |-> IF maps[m] = "anonymous" THEN None ELSE maps[m]]

Mmap(p) ==
    /\ InUser(p)
    /\ \E m \in MapSlots, kind \in {"anonymous"} \cup Files(proc[p].files) :
          /\ proc[p].maps[m] = None
          /\ kind # "anonymous" => CanRetain(<<kind>>)
          /\ refs' = IF kind = "anonymous" THEN refs ELSE [refs EXCEPT ![kind] = @ + 1]
          /\ spaces' = [spaces EXCEPT ![proc[p].space] = @ \cup {m}]
          /\ Goto(p, [op |-> "map", slot |-> m, kind |-> kind])
    /\ UNCHANGED <<proc, nextPid, endpoints, lost, ended>>

MmapRecord(p) ==
    /\ In(p, "map")
    /\ proc' = [proc EXCEPT ![p].maps[call[p].slot] = call[p].kind]
    /\ Goto(p, Back)
    /\ UNCHANGED <<nextPid, spaces, refs, endpoints, lost, ended>>

Munmap(p) ==
    /\ InUser(p)
    /\ \E m \in MapSlots :
          /\ proc[p].maps[m] # None
          /\ spaces' = [spaces EXCEPT ![proc[p].space] = @ \ {m}]
          /\ refs' = IF proc[p].maps[m] = "anonymous" THEN refs
                     ELSE [refs EXCEPT ![proc[p].maps[m]] = @ - 1]
          /\ Goto(p, [op |-> "unmap", slot |-> m])
    /\ UNCHANGED <<proc, nextPid, endpoints, lost, ended>>

MunmapRecord(p) ==
    /\ In(p, "unmap")
    /\ proc' = [proc EXCEPT ![p].maps[call[p].slot] = None]
    /\ Goto(p, Back)
    /\ UNCHANGED <<nextPid, spaces, refs, endpoints, lost, ended>>

-----------------------------------------------------------------------------
\* Directory, environment, signal dispositions and groups: one step each.

\* normalize_absolute over the components of a path.
Normalize(path) == FoldLeft(LAMBDA stack, c :
                        CASE c = "." -> stack
                          [] c = ".." -> IF stack = <<>> THEN stack ELSE Front(stack)
                          [] OTHER -> Append(stack, c), <<>>, path)

Resolve(cwd, absolute, path) == Normalize(IF absolute THEN path ELSE cwd \o path)

Chdir(p) ==
    /\ InUser(p)
    /\ \E absolute \in BOOLEAN, path \in {<<n>> : n \in Names} :
          LET target == Resolve(proc[p].cwd, absolute, path)
          IN /\ target \in Dirs
             /\ proc' = [proc EXCEPT ![p].cwd = target]
    /\ Goto(p, Back)
    /\ UNCHANGED <<nextPid, spaces, refs, endpoints, lost, ended>>

CanSetEnv(p, v) == v \in DOMAIN proc[p].env \/ Cardinality(DOMAIN proc[p].env) < MAX_ENV_VARS

EnvSet(p) ==
    /\ InUser(p)
    /\ \E v \in Variables, x \in Values :
          /\ CanSetEnv(p, v)
          /\ proc' = [proc EXCEPT ![p].env = [y \in DOMAIN @ \cup {v} |-> IF y = v THEN x ELSE @[y]]]
    /\ Goto(p, Back)
    /\ UNCHANGED <<nextPid, spaces, refs, endpoints, lost, ended>>

\* Mutant: the disposition of SIGKILL may be set.
AnySignalMutant == Signals

Catchable == Signals \ {9}

Sigaction(p) ==
    /\ InUser(p)
    /\ \E s \in Catchable, a \in {"default", "ignore", "handler"} :
          proc' = [proc EXCEPT ![p].action[s] = a]
    /\ Goto(p, Back)
    /\ UNCHANGED <<nextPid, spaces, refs, endpoints, lost, ended>>

SetProcessGroup(p) ==
    /\ InUser(p)
    /\ \E q \in DOMAIN proc, g \in Groups :
          /\ q = p \/ proc[q].parent = p
          /\ proc' = [proc EXCEPT ![q].group = g]
    /\ Goto(p, Back)
    /\ UNCHANGED <<nextPid, spaces, refs, endpoints, lost, ended>>

-----------------------------------------------------------------------------
\* Signals.  Under the process-table lock a signal is noted; the termination
\* requests it gives rise to are handed to the scheduler afterwards.

Terminates(q, s) == /\ proc[q].action[s] # "ignore"
                    /\ proc[q].action[s] = "handler" => s = 9
                    /\ s \in TERMINATING

Kill(p) ==
    /\ InUser(p)
    /\ \E s \in Signals, targets \in {{q} : q \in DOMAIN proc}
                                  \cup {{q \in DOMAIN proc : proc[q].group = g} : g \in Groups} :
          /\ targets # {}
          /\ proc' = [q \in DOMAIN proc |->
                        IF q \in targets /\ proc[q].action[s] # "ignore"
                        THEN [proc[q] EXCEPT !.pending = s] ELSE proc[q]]
          /\ Goto(p, [op |-> "kill", signal |-> s, targets |-> targets,
                      who |-> {q \in targets : Terminates(q, s) /\ proc[q].state # "Exited"}])
    /\ UNCHANGED <<nextPid, spaces, refs, endpoints, lost, ended>>

\* A target that has exited, or was reaped, in the meantime is passed over.
RequestTermination(p) ==
    /\ In(p, "kill")
    /\ proc' = [q \in DOMAIN proc |-> IF q \in call[p].who /\ proc[q].state # "Exited"
                                      THEN [proc[q] EXCEPT !.term = call[p].signal] ELSE proc[q]]
    /\ Goto(p, Back)
    /\ UNCHANGED <<nextPid, spaces, refs, endpoints, lost, ended>>

\* The scheduler retires a task that is off its CPU, or asleep in the middle of
\* a private file mapping, whose pages then belong to no recorded mapping.
Retire(p) ==
    /\ p \in DOMAIN proc /\ proc[p].state = "Ready" /\ proc[p].term # 0
    /\ call[p] = UserMode \/ (In(p, "map") /\ call[p].kind = "anonymous")
    /\ proc' = [proc EXCEPT ![p].state = "Exited", ![p].code = 128 + proc[p].term,
                            ![p].pending = proc[p].term, ![p].files = NoFiles]
    /\ lost' = IF call[p] = UserMode THEN lost
               ELSE [lost EXCEPT !.slots = @ \cup {<<proc[p].space, call[p].slot>>}]
    /\ ended' = Append(ended, <<p, 128 + proc[p].term>>)
    /\ Goto(p, [op |-> "dying", handles |-> proc[p].files, space |-> None, maps |-> NoMaps])
    /\ UNCHANGED <<nextPid, spaces, refs, endpoints>>

-----------------------------------------------------------------------------
\* Exit.  The zombie is published under the locks with nothing left to it;
\* its files and its address space are released after that.

Exit(p, code) ==
    /\ proc' = [proc EXCEPT ![p].state = "Exited", ![p].code = code, ![p].files = NoFiles,
                            ![p].space = None, ![p].maps = NoMaps]
    /\ ended' = Append(ended, <<p, code>>)
    /\ Goto(p, [op |-> "dying", handles |-> proc[p].files, space |-> proc[p].space,
                maps |-> proc[p].maps])
    /\ UNCHANGED <<nextPid, spaces, refs, endpoints, lost>>

ExitProcess(p) == InUser(p) /\ \E code \in {0, 1} : Exit(p, code)

\* A caught signal is taken; without a handler it stays pending.
TakeSignal(p) ==
    IF proc[p].pending # 0 /\ proc[p].action[proc[p].pending] = "handler"
    THEN [proc EXCEPT ![p].pending = 0] ELSE proc

\* The end of every call: a termination request is obeyed before a caught
\* signal is delivered.
Return(p) ==
    /\ In(p, "return")
    /\ IF proc[p].term # 0 THEN Exit(p, 128 + proc[p].term)
       ELSE /\ proc' = TakeSignal(p)
            /\ Goto(p, UserMode)
            /\ UNCHANGED <<nextPid, spaces, refs, endpoints, lost, ended>>

\* Mutant: mappings of an address space keep their files when it goes.
KeepMappedFilesMutant(maps) == [o \in Objects |-> refs[o]]

Unmapped(maps) == Released(MapHandles(maps))

FinishDying(p) ==
    /\ In(p, "dying")
    /\ LET c == call[p]
       IN \/ /\ Files(c.handles) # {}
             /\ refs' = Released(c.handles)
             /\ Goto(p, [c EXCEPT !.handles = <<>>])
             /\ UNCHANGED spaces
          \/ /\ Files(c.handles) = {}
             /\ refs' = Unmapped(c.maps)
             /\ spaces' = Without(spaces, c.space)
             /\ call' = Without(call, p)
    /\ UNCHANGED <<proc, nextPid, endpoints, lost, ended>>

-----------------------------------------------------------------------------
\* wait: the zombie leaves the table, then its endpoint and, if it was killed,
\* its address space go.

\* Mutant: any process may collect a zombie.
AnyParentMutant(p, q) == proc[q].state = "Exited"

Waitable(p, q) == proc[q].parent = p /\ proc[q].state = "Exited"

Wait(p) ==
    /\ InUser(p)
    /\ \E q \in DOMAIN proc :
          /\ q # p /\ Waitable(p, q)
          /\ proc' = Without(proc, q)
          /\ Goto(p, [op |-> "reap", child |-> q, space |-> proc[q].space, maps |-> proc[q].maps])
    /\ UNCHANGED <<nextPid, spaces, refs, endpoints, lost, ended>>

\* Mutant: the endpoint of a reaped process stays registered.
KeepEndpointMutant(q) == endpoints

Unregistered(q) == endpoints \ {q}

Reap(p) ==
    /\ In(p, "reap")
    /\ LET c == call[p]
       IN /\ endpoints' = Unregistered(c.child)
          /\ refs' = Unmapped(c.maps)
          /\ spaces' = Without(spaces, c.space)
          /\ lost' = [lost EXCEPT !.slots = {x \in @ : x[1] # c.space}]
          /\ Goto(p, Back)
    /\ UNCHANGED <<proc, nextPid, ended>>

-----------------------------------------------------------------------------
\* fork: a snapshot of the parent, its address space and files cloned, and
\* the child published if there is a slot for it.

ForkClone(p) ==
    /\ InUser(p)
    /\ LET both == [o \in Objects |-> Held(proc[p].files, o) + Held(MapHandles(proc[p].maps), o)]
       IN /\ \A o \in Objects : refs[o] + both[o] <= MaxRefs
          /\ refs' = [o \in Objects |-> refs[o] + both[o]]
    /\ spaces' = NewSpace :> {m \in MapSlots : proc[p].maps[m] # None} @@ spaces
    /\ Goto(p, [op |-> "fork", parent |-> proc[p], space |-> NewSpace])
    /\ UNCHANGED <<proc, nextPid, endpoints, lost, ended>>

Room == Cardinality(endpoints) < MAX_ENDPOINTS /\ Cardinality(DOMAIN proc) < MAX_PROCESSES

\* Mutant: a failed fork drops the clone without its descriptors.
LeakFilesMutant(c) == Released(MapHandles(c.parent.maps))

Discarded(c) == [o \in Objects |-> refs[o] - Held(c.parent.files, o)
                                     - Held(MapHandles(c.parent.maps), o)]

ForkPublish(p) ==
    /\ In(p, "fork")
    /\ LET c == call[p]
       IN IF /\ Room /\ proc[p].state = "Ready"
             /\ proc[p].space = c.parent.space /\ proc[p].files = c.parent.files
          THEN /\ nextPid <= MaxPids
               /\ nextPid' = nextPid + 1
               /\ endpoints' = endpoints \cup {nextPid}
               /\ proc' = nextPid :> [c.parent EXCEPT !.parent = p, !.space = c.space,
                                                      !.pending = 0, !.term = 0] @@ proc
               /\ call' = nextPid :> UserMode @@ [call EXCEPT ![p] = Back]
               /\ UNCHANGED <<spaces, refs>>
          ELSE /\ refs' = Discarded(c)
               /\ spaces' = Without(spaces, c.space)
               /\ Goto(p, Back)
               /\ UNCHANGED <<proc, nextPid, endpoints>>
    /\ UNCHANGED <<lost, ended>>

-----------------------------------------------------------------------------
\* Loading a program, for spawn or exec.  A program whose arguments do not fit
\* its stack is dropped together with its address space.

LoadElf(p, then) ==
    /\ spaces' = NewSpace :> {} @@ spaces
    /\ Goto(p, [op |-> then, space |-> NewSpace])
    /\ UNCHANGED lost

ArgumentsTooLong(p) ==
    /\ lost.spaces = {}
    /\ lost' = [lost EXCEPT !.spaces = @ \cup {NewSpace}]
    /\ Goto(p, Back)
    /\ UNCHANGED spaces

SpawnCommand(p) ==
    /\ InUser(p) /\ "spawn" \in Loads
    /\ LoadElf(p, "spawn") \/ ArgumentsTooLong(p)
    /\ UNCHANGED <<proc, nextPid, refs, endpoints, ended>>

ExecCommand(p) ==
    /\ InUser(p) /\ "exec" \in Loads
    /\ LoadElf(p, "exec") \/ ArgumentsTooLong(p)
    /\ UNCHANGED <<proc, nextPid, refs, endpoints, ended>>

Spawned(p) == [NewProcess(p, call[p].space) EXCEPT !.cwd = proc[p].cwd, !.env = proc[p].env,
                                                   !.group = proc[p].group]

SpawnPublish(p) ==
    /\ In(p, "spawn")
    /\ IF Room
       THEN /\ nextPid <= MaxPids
            /\ nextPid' = nextPid + 1
            /\ endpoints' = endpoints \cup {nextPid}
            /\ proc' = nextPid :> Spawned(p) @@ proc
            /\ call' = nextPid :> UserMode @@ [call EXCEPT ![p] = Back]
            /\ UNCHANGED spaces
       ELSE /\ spaces' = Without(spaces, call[p].space)
            /\ Goto(p, Back)
            /\ UNCHANGED <<proc, nextPid, endpoints>>
    /\ UNCHANGED <<refs, lost, ended>>

\* Mutant: the old address space is not destroyed.
KeepImageMutant(p) == spaces

Replaced(p) == Without(spaces, proc[p].space)

\* exec enters the new image directly, with interrupts off until then: the old
\* image and its mappings are gone and no call returns.
ExecReplace(p) ==
    /\ In(p, "exec")
    /\ proc' = [proc EXCEPT ![p].space = call[p].space, ![p].maps = NoMaps]
    /\ spaces' = Replaced(p)
    /\ refs' = Unmapped(proc[p].maps)
    /\ Goto(p, UserMode)
    /\ UNCHANGED <<nextPid, endpoints, lost, ended>>

-----------------------------------------------------------------------------
\* Starts of calls, and their further steps.
ProcessCall(p) ==
    \/ Open(p) \/ Dup(p) \/ Close(p) \/ Pipe(p) \/ Mmap(p) \/ Munmap(p)
    \/ Chdir(p) \/ EnvSet(p) \/ Sigaction(p) \/ SetProcessGroup(p)
    \/ Kill(p) \/ ExitProcess(p) \/ Wait(p) \/ ForkClone(p) \/ SpawnCommand(p) \/ ExecCommand(p)

ProcessStep(p) ==
    \/ OpenRecord(p) \/ DupRecord(p) \/ ReleaseFiles(p) \/ PipeRecord(p)
    \/ MmapRecord(p) \/ MunmapRecord(p) \/ RequestTermination(p) \/ Retire(p)
    \/ Return(p) \/ FinishDying(p) \/ Reap(p)
    \/ ForkPublish(p) \/ SpawnPublish(p) \/ ExecReplace(p)

ProcessNext == \E p \in Pids : ProcessCall(p) \/ ProcessStep(p)

ProcessSpec == ProcessInit /\ [][ProcessNext]_processVars

-----------------------------------------------------------------------------
\* What the kernel holds on an object, and the address spaces it holds.

InCall(o) ==
    LET One(c) == CASE c.op \in {"open", "dup"} -> Held(<<c.handle>>, o)
                    [] c.op \in {"release", "pipe"} -> Held(c.handles, o)
                    [] c.op = "map" -> Held(<<c.kind>>, o)
                    [] c.op = "fork" -> Held(c.parent.files, o) + Held(MapHandles(c.parent.maps), o)
                    [] c.op = "dying" -> Held(c.handles, o) + Held(MapHandles(c.maps), o)
                    [] c.op = "reap" -> Held(MapHandles(c.maps), o)
                    [] OTHER -> 0
    IN FoldFunction(LAMBDA c, n : n + One(c), 0, call)

InTables(o) == FoldFunction(LAMBDA q, n : n + Held(q.files, o) + Held(MapHandles(q.maps), o), 0, proc)

Unmapping(o) == Cardinality({p \in DOMAIN call : call[p].op = "unmap" /\ proc[p].maps[call[p].slot] = o})

\* Every open file and pipe end is referenced exactly as often as descriptor
\* tables, mappings and calls in progress refer to it, through fork, dup2,
\* exec, exit, kill and wait and their failures (clone_file_table,
\* release_file_table, clone_address_space, unmap_anonymous).
DescriptorsExact ==
    \A o \in Objects : refs[o] = InTables(o) + InCall(o) + lost.refs[o] - Unmapping(o)

SpaceOwners == {<<"table", p>> : p \in {p \in DOMAIN proc : proc[p].space # None}}
               \cup {<<"call", p>> : p \in {p \in DOMAIN call :
                        call[p].op \in {"fork", "spawn", "exec", "dying", "reap"} /\ call[p].space # None}}

SpaceOf(x) == IF x[1] = "table" THEN proc[x[2]].space ELSE call[x[2]].space

\* Every user address space has exactly one owner and none is leaked: a process
\* that can still run has its own, a killed zombie keeps its own until it is
\* reaped, and what is mapped in it is what the process table records
\* (exec_current, exit_current_process, complete_process_termination, wait_process).
SpacesOwned ==
    /\ \A x, y \in SpaceOwners : x # y => SpaceOf(x) # SpaceOf(y)
    /\ {SpaceOf(x) : x \in SpaceOwners} = DOMAIN spaces
    /\ \A p \in DOMAIN proc :
          /\ proc[p].state = "Ready" => proc[p].space # None
          /\ proc[p].space # None /\ ~In(p, "map") /\ ~In(p, "unmap") =>
                {m \in MapSlots : proc[p].maps[m] # None}
                   = spaces[proc[p].space] \ {m \in MapSlots : <<proc[p].space, m>> \in lost.slots}

\* A process ends once; its zombie shows the code it ended with until its parent
\* collects it, its endpoint lasts exactly as long ("reaped process has no IPC
\* endpoint" is never raised), and a process id is never used again.
EndedOnce ==
    /\ \A i, j \in DOMAIN ended : ended[i][1] = ended[j][1] => i = j
    /\ \A p \in DOMAIN proc : (proc[p].state = "Exited") = (\E i \in DOMAIN ended : ended[i][1] = p)
    /\ \A i \in DOMAIN ended : ended[i][1] \in DOMAIN proc => proc[ended[i][1]].code = ended[i][2]
    /\ endpoints = DOMAIN proc \cup {call[p].child : p \in {p \in DOMAIN call : call[p].op = "reap"}}
    /\ \A p \in DOMAIN proc : p < nextPid

\* Processes leave the table only through their own parent's wait, and are
\* changed by nobody else except in what signals and setpgid may change
\* (wait_process, kill_process, set_process_group).
OnlyParentReaps ==
    /\ \A q \in DOMAIN proc \ DOMAIN proc' :
          \E p \in DOMAIN proc' : p = proc[q].parent /\ In(p, "reap")' /\ call'[p].child = q
    /\ \A q \in DOMAIN proc \cap DOMAIN proc' :
          q \in DOMAIN call /\ q \in DOMAIN call' /\ call[q] = call'[q] =>
             [proc'[q] EXCEPT !.pending = 0, !.term = 0, !.group = 0]
                = [proc[q] EXCEPT !.pending = 0, !.term = 0, !.group = 0]

\* SIGKILL cannot be caught or ignored: once the killing call is over, its
\* target has a termination request or has ended (kill_process, sigaction_current).
KillCounts ==
    \A p \in DOMAIN call, q \in DOMAIN proc :
       In(p, "kill") /\ call[p].signal = 9 /\ q \in call[p].targets /\ ~In(p, "kill")' =>
          q \in DOMAIN proc' /\ (proc'[q].term # 0 \/ proc'[q].state = "Exited")
=============================================================================
