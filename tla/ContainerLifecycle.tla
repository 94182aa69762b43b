-------------------------- MODULE ContainerLifecycle --------------------------
(***************************************************************************)
(* One container of the daemon: the API requests that act on it, the state *)
(* they share, the restart manager, and the pipeline that brings           *)
(* containerd's events back to it.                                         *)
(*                                                                         *)
(* Actors.  Each element of Ops is a goroutine that serves API requests,   *)
(* one after another: start, stop, kill (SIGKILL and wait), signal (the    *)
(* stop signal, no wait), restart, rm, pause, unpause.  Worker runs the    *)
(* callbacks libcontainerd queues for the container; Monitor is the        *)
(* goroutine StateChanged starts to restart the container.  Every actor    *)
(* has a call stack, because removal kills and stops, stop kills, restart  *)
(* stops and starts, and a failed start removes.                           *)
(*                                                                         *)
(* Steps.  A section under container.Lock that blocks on nothing is one    *)
(* step.  Starting and pausing hold the lock across several steps.  What   *)
(* the code does without the lock (Monitor's SetStopped, the AutoRemove    *)
(* flag in containerRestart) is a step of its own that ignores the lock.   *)
(* containerd serves one request or exit at a time, and its events arrive  *)
(* in order; runc pauses a process that has exited but was not reaped.     *)
(***************************************************************************)
EXTENDS Integers, Sequences, FiniteSets

CONSTANTS
  Ops,        \* goroutines serving API requests
  Worker,     \* runs libcontainerd's queue of callbacks
  Monitor,    \* the restart goroutine of StateChanged
  NoOne,      \* not an actor
  Configs,    \* the containers looked at, with the requests and the failures they meet
  MaxRetry,   \* RestartPolicy.MaximumRetryCount of on-failure (0: no maximum)
  MaxStarts   \* bound: containerd refuses to create more processes than this

AllRequests == {"start", "stop", "kill", "signal", "restart", "rm", "rmforce", "pause", "unpause"}
AllPolicies == {"no", "always", "unless-stopped", "on-failure"}
AllFaults == {"start", "disk", "rpc", "remove"}

ASSUME ActorsAssumption ==
  /\ Worker \notin Ops /\ Monitor \notin Ops /\ Worker # Monitor
  /\ NoOne \notin Ops \cup {Worker, Monitor}
ASSUME ConfigAssumption ==
  /\ Configs \subseteq [policy : AllPolicies, stopSignal : BOOLEAN, autoRemove : BOOLEAN,
                         requests : SUBSET AllRequests, faults : SUBSET AllFaults]
  /\ \A c \in Configs : c.autoRemove => c.policy = "no"
  /\ MaxRetry \in Nat /\ MaxStarts \in Nat \ {0}

Actors == Ops \cup {Worker, Monitor}

VARIABLES
  config,     \* policy, stopSignal (is Config.StopSignal set), autoRemove as configured,
              \* the requests that are made and the faults that may happen; never changes
  st,         \* container.State, HasBeenManuallyStopped, HostConfig.AutoRemove, RestartCount
  lock,       \* the holder of container.Lock across steps
  registered, \* is the container in daemon.containers
  rm,         \* the restart manager: canceled, active, its own restartCount
  ch,         \* the channel ShouldRestart returned: "none", "armed", "fired", "canceled"
  stack,      \* the call stack of each actor, innermost frame first
  ret,        \* what the last call of an actor returned: "nil" or "err"
  wait,       \* WaitStop: "no", "waiting" on the current State.waitChan, "fired": it was closed
  proc,       \* containerd's init process: its generation, state, frozen, killed
  active,     \* is the container in libcontainerd's client map
  stream,     \* containerd's event stream
  queue       \* libcontainerd's callbacks for the container

vars == <<config, st, lock, registered, rm, ch, stack, ret, wait, proc, active, stream, queue>>

Requests == config.requests
Faults == config.faults

NewRM(count) == [canceled |-> FALSE, active |-> FALSE, count |-> count]

Frame(fn, flag) == [fn |-> fn, pc |-> "begin", flag |-> flag]

Init ==
  /\ config \in Configs
  /\ st = [running |-> FALSE, paused |-> FALSE, restarting |-> FALSE, removing |-> FALSE,
           dead |-> FALSE, pid |-> 0, manual |-> FALSE,
           autoRemove |-> config.autoRemove, restartCount |-> 0]
  /\ lock = NoOne
  /\ registered = TRUE
  /\ rm = NewRM(0)
  /\ ch = "none"
  /\ stack = [a \in Actors |-> <<>>]
  /\ ret = [a \in Actors |-> "nil"]
  /\ wait = [a \in Actors |-> "no"]
  /\ proc = [gen |-> 0, state |-> "none", frozen |-> FALSE, killed |-> FALSE]
  /\ active = FALSE
  /\ stream = <<>>
  /\ queue = <<>>
-------------------------------------------------------------------------------
(* Call stacks *)

At(a, fn, pc) == stack[a] # <<>> /\ Head(stack[a]).fn = fn /\ Head(stack[a]).pc = pc

Goto(a, pc) ==
  /\ stack' = [stack EXCEPT ![a] = <<[Head(@) EXCEPT !.pc = pc]>> \o Tail(@)]
  /\ ret' = [ret EXCEPT ![a] = "nil"]

\* Return v; nobody reads what the outermost call returned, and a restart goroutine
\* whose start succeeded has nothing left to do.
Return(a, v) ==
  LET outer == Tail(stack[a])
  IN /\ stack' = [stack EXCEPT ![a] =
                    IF outer # <<>> /\ Head(outer).fn = "Monitor" /\ v = "nil" THEN <<>> ELSE outer]
     /\ ret' = [ret EXCEPT ![a] = IF outer = <<>> THEN "nil" ELSE v]

\* Call fn and continue at pc when it returns.
CallThen(a, pc, fn, flag) ==
  /\ stack' = [stack EXCEPT ![a] = <<Frame(fn, flag), [Head(@) EXCEPT !.pc = pc]>> \o Tail(@)]
  /\ ret' = [ret EXCEPT ![a] = "nil"]

\* The last call of an actor's frame: its result is the frame's.
TailCall(a, fn, flag) ==
  /\ stack' = [stack EXCEPT ![a] = <<Frame(fn, flag)>> \o Tail(@)]
  /\ ret' = [ret EXCEPT ![a] = "nil"]

\* "nil" and "err" as a place to go on at mean: return that.
Continue(a, k) == IF k \in {"nil", "err"} THEN Return(a, k) ELSE Goto(a, k)

LockFree == lock = NoOne
-------------------------------------------------------------------------------
(* container/state.go and container/monitor.go *)

\* Variant: a restarted container still counts as restarting.
SetRunningKeepsRestarting(s, pid) == [s EXCEPT !.running = TRUE, !.pid = pid, !.manual = FALSE]

\* SetRunning, with what StateChanged sets around it.
SetRunning(s, pid) ==
  [s EXCEPT !.running = TRUE, !.restarting = FALSE, !.pid = pid, !.manual = FALSE]

SetStopped(s) ==
  [s EXCEPT !.running = FALSE, !.paused = FALSE, !.restarting = FALSE, !.pid = 0]

\* Variant: a container that waits to be restarted does not count as running.
SetRestartingNotRunning(s) ==
  [s EXCEPT !.running = FALSE, !.restarting = TRUE, !.pid = 0, !.restartCount = @ + 1]

\* The container counts as running while it waits to be restarted.
SetRestarting(s) ==
  [s EXCEPT !.running = TRUE, !.restarting = TRUE, !.pid = 0, !.restartCount = @ + 1]

\* WaitStop, the places it is called from: where a caller goes on when the
\* container is not running or the wait channel is closed, and when the timeout
\* comes first ("never": the caller waits for ever).
WaitPoints ==
  { [fn |-> "Kill", pc |-> "grace",  ok |-> "direct", late |-> "err"],
    [fn |-> "Kill", pc |-> "direct", ok |-> "last",   late |-> "pid"],
    [fn |-> "Kill", pc |-> "last",   ok |-> "nil",    late |-> "never"],
    [fn |-> "Stop", pc |-> "grace",  ok |-> "wait",   late |-> "force"],
    [fn |-> "Stop", pc |-> "wait",   ok |-> "nil",    late |-> "kill"],
    [fn |-> "Stop", pc |-> "last",   ok |-> "nil",    late |-> "never"] }

\* Variant: the wait channel is replaced and the old one is not closed.
FireWaitersNoClose == UNCHANGED wait

\* Close the wait channel and make a new one.
FireWaiters == wait' = [a \in Actors |-> IF wait[a] = "waiting" THEN "fired" ELSE wait[a]]

\* WaitWithContext, under the lock: return at once, or take the current channel.
WaitEnter(a) ==
  /\ LockFree
  /\ wait[a] = "no"
  /\ \E w \in WaitPoints :
       /\ At(a, w.fn, w.pc)
       /\ \/ ~st.running /\ Continue(a, w.ok) /\ UNCHANGED wait
          \/ st.running /\ wait' = [wait EXCEPT ![a] = "waiting"] /\ UNCHANGED <<stack, ret>>
  /\ UNCHANGED <<config, st, lock, registered, rm, ch, proc, active, stream, queue>>

\* WaitWithContext, the select: the channel was closed and the exit code is read under
\* the lock, or the deadline came; when both are ready select takes either.
WaitLeave(a) ==
  /\ wait[a] # "no"
  /\ \E w \in WaitPoints :
       /\ At(a, w.fn, w.pc)
       /\ \/ wait[a] = "fired" /\ LockFree /\ Continue(a, w.ok)
          \/ w.late # "never" /\ Continue(a, w.late)
  /\ wait' = [wait EXCEPT ![a] = "no"]
  /\ UNCHANGED <<config, st, lock, registered, rm, ch, proc, active, stream, queue>>
-------------------------------------------------------------------------------
(* restartmanager *)

\* Cancel; it reaches the goroutine that waits on the timer through RestartTimer.
Cancel(r) == [r EXCEPT !.canceled = TRUE]

\* The decision of ShouldRestart for an exit code.
ShouldRestart(code) ==
  /\ config.policy # "no"
  /\ ~rm.canceled
  /\ ~rm.active
  /\ \/ config.policy = "always"
     \/ config.policy = "unless-stopped" /\ ~st.manual
     \/ config.policy = "on-failure" /\ (MaxRetry = 0 \/ rm.count < MaxRetry) /\ code # 0

\* Variant: a cancel ends the goroutine without a word on the channel.
RestartTimerCancelLost ==
  /\ ch = "armed"
  /\ \/ /\ rm.canceled
        /\ ch' = "none"
        /\ UNCHANGED rm
     \/ /\ ch' = "fired"
        /\ rm' = [rm EXCEPT !.active = FALSE]
  /\ UNCHANGED <<config, st, lock, registered, stack, ret, wait, proc, active, stream, queue>>

\* The goroutine of ShouldRestart: the timer closes the channel, a cancel sends
\* ErrRestartCanceled on it; when both are ready select takes either.
RestartTimer ==
  /\ ch = "armed"
  /\ \/ /\ rm.canceled
        /\ ch' = "canceled"
        /\ UNCHANGED rm
     \/ /\ ch' = "fired"
        /\ rm' = [rm EXCEPT !.active = FALSE]
  /\ UNCHANGED <<config, st, lock, registered, stack, ret, wait, proc, active, stream, queue>>
-------------------------------------------------------------------------------
(* daemon/start.go and libcontainerd's Create *)

\* The error path of containerStart: clean up, and remove the container with the
\* lock given up when AutoRemove is set.
FailStart(a) ==
  /\ lock' = NoOne
  /\ IF st.autoRemove THEN CallThen(a, "removed", "Rm", TRUE) ELSE Return(a, "err")

\* Variant: a container that is being removed may be started.
StartBeginRemoving(a) ==
  /\ At(a, "Start", "begin")
  /\ LockFree
  /\ LET skip == Head(stack[a]).flag /\ st.running
     IN \/ skip /\ Return(a, "nil") /\ UNCHANGED lock
        \/ ~skip /\ Goto(a, "create") /\ lock' = a
  /\ UNCHANGED <<config, st, registered, rm, ch, wait, proc, active, stream, queue>>

\* containerStart takes the lock and decides whether to start at all.  The frame's
\* flag is resetRestartManager.
StartBegin(a) ==
  /\ At(a, "Start", "begin")
  /\ LockFree
  /\ LET skip == Head(stack[a]).flag /\ st.running
         gone == st.removing \/ st.dead
     IN \/ skip /\ Return(a, "nil") /\ UNCHANGED lock
        \/ ~skip /\ gone /\ Return(a, "err") /\ UNCHANGED lock
        \/ ~skip /\ ~gone /\ Goto(a, "create") /\ lock' = a
  /\ UNCHANGED <<config, st, registered, rm, ch, wait, proc, active, stream, queue>>

\* A mount, the network or the spec fails before the restart manager is reset.
StartPrepareFails(a) ==
  /\ At(a, "Start", "create")
  /\ "start" \in Faults
  /\ FailStart(a)
  /\ UNCHANGED <<config, st, registered, rm, ch, wait, proc, active, stream, queue>>

\* ResetRestartManager(true) when the frame's flag says so.
ResetRestartManager(a) ==
  IF Head(stack[a]).flag
  THEN /\ rm' = NewRM(0)
       /\ ch' = IF ch = "armed" THEN "canceled" ELSE ch
  ELSE UNCHANGED <<rm, ch>>

Reset(a, s) == IF Head(stack[a]).flag THEN [s EXCEPT !.restartCount = 0] ELSE s

\* containerd has the container from CreateContainer until it reports the exit.
Known == proc.state \in {"alive", "zombie"}

\* containerd.Create fails: the id is in use, or containerd refuses.
StartCreateFails(a) ==
  /\ At(a, "Start", "create")
  /\ active \/ Known \/ "start" \in Faults \/ proc.gen = MaxStarts
  /\ ResetRestartManager(a)
  /\ st' = Reset(a, st)
  /\ FailStart(a)
  /\ UNCHANGED <<config, registered, wait, proc, active, stream, queue>>

\* containerd.Create succeeds: a new process runs, and StateChanged(StateStart)
\* records it, all under the container's and the client's lock.
StartCreate(a) ==
  /\ At(a, "Start", "create")
  /\ ~active /\ ~Known /\ registered
  /\ proc.gen < MaxStarts
  /\ ResetRestartManager(a)
  /\ proc' = [gen |-> proc.gen + 1, state |-> "alive", frozen |-> FALSE, killed |-> FALSE]
  /\ st' = SetRunning(Reset(a, st), proc.gen + 1)
  /\ active' = TRUE
  /\ lock' = NoOne
  /\ Return(a, "nil")
  /\ UNCHANGED <<config, registered, wait, stream, queue>>

\* The process runs but StateChanged(StateStart) cannot save the container:
\* Create takes the container out of the client map and the start fails.
StartSaveFails(a) ==
  /\ At(a, "Start", "create")
  /\ ~active /\ ~Known /\ registered
  /\ "disk" \in Faults
  /\ proc.gen < MaxStarts
  /\ ResetRestartManager(a)
  /\ proc' = [gen |-> proc.gen + 1, state |-> "alive", frozen |-> FALSE, killed |-> FALSE]
  /\ st' = SetRunning(Reset(a, st), proc.gen + 1)
  /\ FailStart(a)
  /\ UNCHANGED <<config, registered, wait, active, stream, queue>>

\* The error path takes the lock again after the removal, and returns.
StartRemoved(a) ==
  /\ At(a, "Start", "removed")
  /\ LockFree
  /\ Return(a, "err")
  /\ UNCHANGED <<config, st, lock, registered, rm, ch, wait, proc, active, stream, queue>>
-------------------------------------------------------------------------------
(* daemon/kill.go and daemon/stop.go *)

\* killWithSignal, the places it is called from: the signal, and where the caller
\* goes on when it returns nil and when it returns an error.
SignalPoints ==
  { [fn |-> "Kill",   pc |-> "signal", sig |-> "KILL", ok |-> "direct", bad |-> "grace"],
    [fn |-> "Stop",   pc |-> "signal", sig |-> "STOP", ok |-> "wait",   bad |-> "grace"],
    [fn |-> "Stop",   pc |-> "force",  sig |-> "KILL", ok |-> "wait",   bad |-> "err"],
    [fn |-> "Signal", pc |-> "begin",  sig |-> "STOP", ok |-> "nil",    bad |-> "err"] }

\* Variant: a signal does not cancel the restart manager.
SignalCancelsNever(sig) == FALSE

\* ExitOnNext, unless the container has a stop signal and this is another one.
SignalCancels(sig) == ~config.stopSignal \/ sig = "STOP"

KillWithSignal(a) ==
  /\ LockFree
  /\ \E p \in SignalPoints :
       /\ At(a, p.fn, p.pc)
       /\ \/ /\ st.paused \/ ~st.running
             /\ Continue(a, p.bad)
             /\ UNCHANGED <<st, rm, proc>>
          \/ /\ ~st.paused /\ st.running
             /\ rm' = IF SignalCancels(p.sig) THEN Cancel(rm) ELSE rm
             /\ st' = [st EXCEPT !.manual = TRUE]
             /\ \/ \* restarting: no signal; else sent, or there is no such process
                   /\ proc' = [proc EXCEPT !.killed =
                                 @ \/ (~st.restarting /\ p.sig = "KILL" /\ proc.state = "alive")]
                   /\ Continue(a, p.ok)
                \/ \* containerd refuses
                   /\ "rpc" \in Faults /\ ~st.restarting
                   /\ Continue(a, p.bad)
                   /\ UNCHANGED proc
  /\ UNCHANGED <<config, lock, registered, ch, wait, active, stream, queue>>

\* Kill and containerStop look at Running before anything else.
KillBegin(a) ==
  /\ At(a, "Kill", "begin")
  /\ LockFree
  /\ Continue(a, IF st.running THEN "signal" ELSE "err")
  /\ UNCHANGED <<config, st, lock, registered, rm, ch, wait, proc, active, stream, queue>>

StopBegin(a) ==
  /\ At(a, "Stop", "begin")
  /\ LockFree
  /\ Continue(a, IF st.running THEN "signal" ELSE "nil")
  /\ UNCHANGED <<config, st, lock, registered, rm, ch, wait, proc, active, stream, queue>>

\* killProcessDirectly after its timeout: SIGKILL to the pid, if there is one and
\* the process exists; errNoSuchProcess makes Kill return nil at once.
KillDirectly(a) ==
  /\ At(a, "Kill", "pid")
  /\ LockFree
  /\ \/ st.pid = 0 /\ Goto(a, "last") /\ UNCHANGED proc
     \/ st.pid # 0 /\ ~(Known /\ st.pid = proc.gen) /\ Return(a, "nil") /\ UNCHANGED proc
     \/ st.pid # 0 /\ Known /\ st.pid = proc.gen
          /\ proc' = [proc EXCEPT !.killed = proc.state = "alive"]
          /\ Goto(a, "last")
  /\ UNCHANGED <<config, st, lock, registered, rm, ch, wait, active, stream, queue>>

\* containerStop uses the force, and ignores an error of Kill once the container
\* has stopped.
StopKill(a) ==
  /\ \/ At(a, "Stop", "kill") /\ CallThen(a, "killed", "Kill", FALSE)
     \/ At(a, "Stop", "killed") /\ Continue(a, IF ret[a] = "nil" THEN "nil" ELSE "last")
  /\ UNCHANGED <<config, st, lock, registered, rm, ch, wait, proc, active, stream, queue>>
-------------------------------------------------------------------------------
(* daemon/delete.go; the frame's flag is forceRemove *)

\* GetContainer, and once the container is marked the check that no other removal
\* has deregistered it since.
RmLookup(a) ==
  /\ \/ At(a, "Rm", "begin") /\ Continue(a, IF registered THEN "mark" ELSE "err")
     \/ At(a, "Rm", "check") /\ Goto(a, IF registered THEN "running" ELSE "resetnil")
  /\ UNCHANGED <<config, st, lock, registered, rm, ch, wait, proc, active, stream, queue>>

\* SetRemovalInProgress.
RmMark(a) ==
  /\ At(a, "Rm", "mark")
  /\ LockFree
  /\ \/ st.removing /\ Return(a, "err") /\ UNCHANGED st
     \/ ~st.removing /\ Goto(a, "check") /\ st' = [st EXCEPT !.removing = TRUE]
  /\ UNCHANGED <<config, lock, registered, rm, ch, wait, proc, active, stream, queue>>

\* cleanupContainer: refuse, kill, or go on to stop.
RmRunning(a) ==
  /\ At(a, "Rm", "running")
  /\ LockFree
  /\ \/ st.running /\ ~Head(stack[a]).flag /\ Goto(a, "reseterr")
     \/ st.running /\ Head(stack[a]).flag /\ CallThen(a, "killed", "Kill", FALSE)
     \/ ~st.running /\ CallThen(a, "stopped", "Stop", FALSE)
  /\ UNCHANGED <<config, st, lock, registered, rm, ch, wait, proc, active, stream, queue>>

RmStop(a) ==
  /\ \/ /\ At(a, "Rm", "killed")
        /\ IF ret[a] = "err" THEN Goto(a, "reseterr") ELSE CallThen(a, "stopped", "Stop", FALSE)
     \/ /\ At(a, "Rm", "stopped")
        /\ Goto(a, IF ret[a] = "err" THEN "reseterr" ELSE "dead")
  /\ UNCHANGED <<config, st, lock, registered, rm, ch, wait, proc, active, stream, queue>>

\* SetDead.
RmDead(a) ==
  /\ At(a, "Rm", "dead")
  /\ LockFree
  /\ st' = [st EXCEPT !.dead = TRUE]
  /\ Goto(a, "destroy")
  /\ UNCHANGED <<config, lock, registered, rm, ch, wait, proc, active, stream, queue>>

\* Remove the files and the layer; the container leaves the indexes when that
\* worked, or whatever happened under force.
RmDestroy(a) ==
  /\ At(a, "Rm", "destroy")
  /\ \/ Goto(a, "resetnil") /\ registered' = FALSE
     \/ /\ "remove" \in Faults
        /\ Goto(a, "reseterr")
        /\ registered' = (registered /\ ~Head(stack[a]).flag)
  /\ UNCHANGED <<config, st, lock, rm, ch, wait, proc, active, stream, queue>>

\* The deferred ResetRemovalInProgress.
RmReset(a) ==
  /\ LockFree
  /\ \/ At(a, "Rm", "resetnil") /\ Return(a, "nil")
     \/ At(a, "Rm", "reseterr") /\ Return(a, "err")
  /\ st' = [st EXCEPT !.removing = FALSE]
  /\ UNCHANGED <<config, lock, registered, rm, ch, wait, proc, active, stream, queue>>
-------------------------------------------------------------------------------
(* daemon/restart.go; the frame's flag is the saved AutoRemove *)

\* A running container is stopped first, with AutoRemove off meanwhile; the flag
\* is read and written without the lock.
RestartBegin(a) ==
  /\ At(a, "Restart", "begin")
  /\ LockFree
  /\ Goto(a, IF st.running THEN "save" ELSE "start")
  /\ UNCHANGED <<config, st, lock, registered, rm, ch, wait, proc, active, stream, queue>>

RestartSave(a) ==
  /\ At(a, "Restart", "save")
  /\ st' = [st EXCEPT !.autoRemove = FALSE]
  /\ stack' = [stack EXCEPT ![a] =
       <<Frame("Stop", FALSE), [Head(@) EXCEPT !.pc = "restore", !.flag = st.autoRemove]>> \o Tail(@)]
  /\ UNCHANGED <<config, lock, registered, rm, ch, ret, wait, proc, active, stream, queue>>

RestartRestore(a) ==
  /\ At(a, "Restart", "restore")
  /\ st' = [st EXCEPT !.autoRemove = Head(stack[a]).flag]
  /\ Continue(a, IF ret[a] = "err" THEN "err" ELSE "start")
  /\ UNCHANGED <<config, lock, registered, rm, ch, wait, proc, active, stream, queue>>

RestartStart(a) ==
  /\ \/ At(a, "Restart", "start") /\ CallThen(a, "started", "Start", TRUE)
     \/ At(a, "Restart", "started") /\ Return(a, ret[a])
  /\ UNCHANGED <<config, st, lock, registered, rm, ch, wait, proc, active, stream, queue>>

-------------------------------------------------------------------------------
(* daemon/pause.go, daemon/unpause.go and libcontainerd's setState *)

Event(type, code) == [type |-> type, gen |-> proc.gen, code |-> code]

\* Variant: a container whose exit was reported can still be paused.
PauseBeginGone(a) ==
  /\ At(a, "Pause", "begin")
  /\ LockFree
  /\ st.running /\ ~st.paused /\ ~st.restarting
  /\ lock' = a
  /\ proc' = [proc EXCEPT !.frozen = TRUE]
  /\ stream' = Append(stream, Event("pause", 0))
  /\ Goto(a, "event")
  /\ UNCHANGED <<config, st, registered, rm, ch, wait, active, queue>>

\* containerPause up to the wait for the event, which it does with the lock held.
\* containerd accepts while it has the container, a process that has exited but
\* was not reported included.
PauseBegin(a) ==
  /\ At(a, "Pause", "begin")
  /\ LockFree
  /\ LET may == st.running /\ ~st.paused /\ ~st.restarting /\ active /\ Known /\ ~proc.frozen
     IN \/ /\ ~may \/ "rpc" \in Faults
           /\ Return(a, "err")
           /\ UNCHANGED <<lock, proc, stream>>
        \/ /\ may
           /\ lock' = a
           /\ proc' = [proc EXCEPT !.frozen = TRUE]
           /\ stream' = Append(stream, Event("pause", 0))
           /\ Goto(a, "event")
  /\ UNCHANGED <<config, st, registered, rm, ch, wait, active, queue>>

\* containerUnpause; runc resumes only what is frozen.
UnpauseBegin(a) ==
  /\ At(a, "Unpause", "begin")
  /\ LockFree
  /\ LET may == st.paused /\ active /\ Known /\ proc.frozen
     IN \/ /\ ~may \/ "rpc" \in Faults
           /\ Return(a, "err")
           /\ UNCHANGED <<lock, proc, stream>>
        \/ /\ may
           /\ lock' = a
           /\ proc' = [proc EXCEPT !.frozen = FALSE]
           /\ stream' = Append(stream, Event("resume", 0))
           /\ Goto(a, "event")
  /\ UNCHANGED <<config, st, registered, rm, ch, wait, active, queue>>

\* The event came: return, and give the lock back.
PauseReturn(a) ==
  /\ At(a, "Pause", "done") \/ At(a, "Unpause", "done")
  /\ lock' = NoOne
  /\ Return(a, "nil")
  /\ UNCHANGED <<config, st, registered, rm, ch, wait, proc, active, stream, queue>>
-------------------------------------------------------------------------------
(* The process, containerd and libcontainerd *)

\* The init process exits, on its own or killed; a frozen one does not.
ProcessExit ==
  /\ proc.state = "alive"
  /\ ~proc.frozen
  /\ proc' = [proc EXCEPT !.state = "zombie"]
  /\ UNCHANGED <<config, st, lock, registered, rm, ch, stack, ret, wait, active, stream, queue>>

\* containerd handles the exit: the container is deleted and the event sent.
ContainerdExit ==
  /\ proc.state = "zombie"
  /\ proc' = [proc EXCEPT !.state = "gone", !.frozen = FALSE]
  /\ \E code \in {0, 1} : stream' = Append(stream, Event("exit", code))
  /\ UNCHANGED <<config, st, lock, registered, rm, ch, stack, ret, wait, active, queue>>

\* handleEventStream and handleEvent: an event of a container that is not in the
\* client map is dropped; an exit takes the container out of the map.
HandleEvent ==
  /\ stream # <<>>
  /\ stream' = Tail(stream)
  /\ queue' = IF active THEN Append(queue, Head(stream)) ELSE queue
  /\ active' = (active /\ Head(stream).type # "exit")
  /\ UNCHANGED <<config, st, lock, registered, rm, ch, stack, ret, wait, proc>>
-------------------------------------------------------------------------------
(* daemon/monitor.go: StateChanged, called by the queue's worker *)

Callback(type) == stack[Worker] = <<>> /\ queue # <<>> /\ Head(queue).type = type

\* StateExit: restart the container or record that it stopped.
StateExit ==
  /\ Callback("exit")
  /\ queue' = Tail(queue)
  /\ IF ~registered
     THEN UNCHANGED <<st, rm, ch, stack, wait>>
     ELSE /\ LockFree
          /\ FireWaiters
          /\ IF ShouldRestart(Head(queue).code)
             THEN /\ st' = SetRestarting(st)
                  /\ rm' = [rm EXCEPT !.active = TRUE, !.count = @ + 1]
                  /\ ch' = "armed"
                  /\ stack' = [stack EXCEPT ![Monitor] = <<Frame("Monitor", FALSE)>> \o @]
             ELSE /\ st' = SetStopped(st)
                  /\ stack' = [stack EXCEPT ![Worker] = <<Frame("AutoRm", FALSE)>>]
                  /\ UNCHANGED <<rm, ch>>
  /\ UNCHANGED <<config, lock, registered, ret, proc, active, stream>>

\* Variant: the container is removed only when it was stopped by a request.
AutoRmManual(a) ==
  /\ At(a, "AutoRm", "begin")
  /\ LockFree
  /\ IF st.autoRemove /\ st.manual THEN TailCall(a, "Rm", TRUE) ELSE Return(a, "nil")
  /\ UNCHANGED <<config, st, lock, registered, rm, ch, wait, proc, active, stream, queue>>

\* autoRemove: read the flag under the lock, then remove by force.
AutoRm(a) ==
  /\ At(a, "AutoRm", "begin")
  /\ LockFree
  /\ IF st.autoRemove THEN TailCall(a, "Rm", TRUE) ELSE Return(a, "nil")
  /\ UNCHANGED <<config, st, lock, registered, rm, ch, wait, proc, active, stream, queue>>

\* StatePause and StateResume, without taking the lock, and then the goroutine
\* that waits for the event in setState goes on.
StatePause ==
  /\ \E type \in {"pause", "resume"} :
       /\ Callback(type)
       /\ st' = IF registered THEN [st EXCEPT !.paused = type = "pause"] ELSE st
       /\ stack' = [a \in Actors |->
            IF At(a, IF type = "pause" THEN "Pause" ELSE "Unpause", "event")
            THEN <<[Head(stack[a]) EXCEPT !.pc = "done"]>> ELSE stack[a]]
  /\ queue' = Tail(queue)
  /\ UNCHANGED <<config, lock, registered, rm, ch, ret, wait, proc, active, stream>>

\* The restart goroutine: start again when the timer has fired ...
MonitorWake ==
  /\ At(Monitor, "Monitor", "begin")
  /\ \/ ch = "fired" /\ CallThen(Monitor, "started", "Start", FALSE)
     \/ ch = "canceled" /\ Goto(Monitor, "stop")
  /\ ch' = "none"
  /\ UNCHANGED <<config, st, lock, registered, rm, wait, proc, active, stream, queue>>

\* Variant: the failed restart is not recorded.
MonitorStopForgets ==
  /\ At(Monitor, "Monitor", "stop") \/ At(Monitor, "Monitor", "started")
  /\ TailCall(Monitor, "AutoRm", FALSE)
  /\ UNCHANGED <<config, st, lock, registered, rm, ch, wait, proc, active, stream, queue>>

\* ... and when that failed, or the restart was canceled, record that the container
\* stopped: without the lock.
MonitorStop ==
  /\ At(Monitor, "Monitor", "stop") \/ At(Monitor, "Monitor", "started")
  /\ st' = SetStopped(st)
  /\ FireWaiters
  /\ TailCall(Monitor, "AutoRm", FALSE)
  /\ UNCHANGED <<config, lock, registered, rm, ch, proc, active, stream, queue>>

-------------------------------------------------------------------------------
(* The API requests, and the specification *)

Entry == [start |-> Frame("ApiStart", FALSE), stop |-> Frame("ApiStop", FALSE),
          kill |-> Frame("Kill", FALSE), signal |-> Frame("Signal", FALSE),
          restart |-> Frame("Restart", FALSE), rm |-> Frame("Rm", FALSE),
          rmforce |-> Frame("Rm", TRUE), pause |-> Frame("Pause", FALSE),
          unpause |-> Frame("Unpause", FALSE)]

\* A request finds the container (GetContainer) and begins.
Request(a, r) ==
  /\ stack[a] = <<>>
  /\ registered
  /\ stack' = [stack EXCEPT ![a] = <<Entry[r]>>]
  /\ UNCHANGED <<config, st, lock, registered, rm, ch, ret, wait, proc, active, stream, queue>>

\* ContainerStart refuses a paused or running container.
ApiStart(a) ==
  /\ At(a, "ApiStart", "begin")
  /\ LockFree
  /\ IF st.paused \/ st.running THEN Return(a, "err") ELSE TailCall(a, "Start", TRUE)
  /\ UNCHANGED <<config, st, lock, registered, rm, ch, wait, proc, active, stream, queue>>

\* ContainerStop refuses a stopped one.
ApiStop(a) ==
  /\ At(a, "ApiStop", "begin")
  /\ LockFree
  /\ IF st.running THEN TailCall(a, "Stop", FALSE) ELSE Return(a, "err")
  /\ UNCHANGED <<config, st, lock, registered, rm, ch, wait, proc, active, stream, queue>>

\* A step of an actor inside its calls.
Step(a) ==
  \/ WaitEnter(a) \/ WaitLeave(a)
  \/ StartBegin(a) \/ StartPrepareFails(a) \/ StartCreateFails(a) \/ StartCreate(a)
  \/ StartSaveFails(a) \/ StartRemoved(a)
  \/ KillWithSignal(a) \/ KillBegin(a) \/ KillDirectly(a)
  \/ StopBegin(a) \/ StopKill(a)
  \/ RmLookup(a) \/ RmMark(a) \/ RmRunning(a) \/ RmStop(a) \/ RmDead(a) \/ RmDestroy(a) \/ RmReset(a)
  \/ RestartBegin(a) \/ RestartSave(a) \/ RestartRestore(a) \/ RestartStart(a)
  \/ PauseBegin(a) \/ UnpauseBegin(a) \/ PauseReturn(a)
  \/ AutoRm(a) \/ ApiStart(a) \/ ApiStop(a)

MonitorStep == MonitorWake \/ MonitorStop

Next ==
  \/ \E a \in Ops, r \in Requests : Request(a, r)
  \/ \E a \in Actors : Step(a)
  \/ MonitorStep
  \/ RestartTimer
  \/ ProcessExit \/ ContainerdExit \/ HandleEvent
  \/ StateExit \/ StatePause

Spec == Init /\ [][Next]_vars

\* Goroutines that can run do run, timers fire, containerd reports exits and a
\* killed process that is not frozen dies.  No request need be made and no process
\* need exit by itself.
Fairness ==
  /\ \A a \in Actors : WF_vars(Step(a))
  /\ WF_vars(MonitorStep)
  /\ WF_vars(RestartTimer)
  /\ WF_vars(ContainerdExit)
  /\ WF_vars(HandleEvent)
  /\ WF_vars(StateExit \/ StatePause)
  /\ WF_vars(proc.killed /\ ProcessExit)

FairSpec == Spec /\ Fairness
-------------------------------------------------------------------------------
(* Properties *)

Fns == {"ApiStart", "ApiStop", "Start", "Stop", "Kill", "Signal", "Restart", "Rm",
        "Pause", "Unpause", "AutoRm", "Monitor"}
Pcs == {"begin", "create", "started", "removed", "signal", "grace", "direct", "pid", "last",
        "wait", "force", "kill", "killed", "mark", "check", "running", "stopped", "dead",
        "destroy", "resetnil", "reseterr", "save", "restore", "start", "event", "done", "stop"}
Frames == [fn : Fns, pc : Pcs, flag : BOOLEAN]
Events == [type : {"exit", "pause", "resume"}, gen : 1..MaxStarts, code : {0, 1}]
States == [running : BOOLEAN, paused : BOOLEAN, restarting : BOOLEAN, removing : BOOLEAN,
           dead : BOOLEAN, pid : 0..MaxStarts, manual : BOOLEAN, autoRemove : BOOLEAN,
           restartCount : Nat]

TypeOK ==
  /\ config \in Configs
  /\ st \in States
  /\ lock \in Actors \cup {NoOne}
  /\ registered \in BOOLEAN
  /\ rm \in [canceled : BOOLEAN, active : BOOLEAN, count : Nat]
  /\ ch \in {"none", "armed", "fired", "canceled"}
  /\ stack \in [Actors -> Seq(Frames)]
  /\ ret \in [Actors -> {"nil", "err"}]
  /\ wait \in [Actors -> {"no", "waiting", "fired"}]
  /\ proc \in [gen : 0..MaxStarts, state : {"none", "alive", "zombie", "gone"},
               frozen : BOOLEAN, killed : BOOLEAN]
  /\ active \in BOOLEAN
  /\ stream \in Seq(Events)
  /\ queue \in Seq(Events)

Pipeline == queue \o stream   \* the events on their way to StateChanged, oldest first

\* What dockerd says of the process: a running container that is not waiting to be
\* restarted has the pid of the newest process, which lives or whose exit is on its
\* way; any other container has no process (start.go, monitor.go and the unlocked
\* SetStopped at monitor.go:76 never leave a process behind or forget one).
StateMatchesProcess ==
  registered /\ lock = NoOne =>
    IF st.running /\ ~st.restarting
    THEN /\ st.pid = proc.gen
         /\ Known \/ \E i \in DOMAIN Pipeline : Pipeline[i].type = "exit"
    ELSE ~Known /\ st.pid = 0

\* An exit event is applied to the process it is about, never to a successor.
ExitIsForCurrentProcess ==
  registered => \A i \in DOMAIN Pipeline : Pipeline[i].type = "exit" => Pipeline[i].gen = st.pid

\* A start and a removal exclude each other: no process is created for a container
\* that is being removed.
NoStartDuringRemoval ==
  [][proc'.gen # proc.gen => ~st.removing /\ ~st.dead /\ registered]_vars

\* Whoever waits for the container to stop waits for something still to come: a
\* process that lives, an exit on its way, or a restart to be made or given up.
WaitEnds(a) ==
  wait[a] = "waiting" =>
    \/ Known
    \/ registered /\ \E i \in DOMAIN Pipeline : Pipeline[i].type = "exit"
    \/ stack[Monitor] # <<>>

\* No lost wake-up: closing and replacing the wait channel in SetStopped and
\* SetRestarting, the unlocked SetStopped at monitor.go:76 included, never leaves a
\* waiter of a container the daemon knows on a channel nobody will close.
NoLostWaiter == registered => \A a \in Actors : WaitEnds(a)

\* containerPause waits with the lock for an event: that event is under way with no
\* exit in front of it (StateChanged needs the lock for an exit, so it would never come).
\* A start that could not be saved leaves an exit nobody waits for, and breaks it.
PauseEventIsNext ==
  "disk" \notin config.faults =>
    \A a \in Ops : At(a, "Pause", "event") \/ At(a, "Unpause", "event") =>
      Pipeline # <<>> /\ Head(Pipeline).type # "exit"

\* One restart goroutine at a time: the channel it reads is its own.
OneRestartGoroutine ==
  /\ \A i, j \in DOMAIN stack[Monitor] :
       stack[Monitor][i].fn = "Monitor" /\ stack[Monitor][j].fn = "Monitor" => i = j
  /\ st.restarting => stack[Monitor] # <<>>

\* The client starts, stops and signals the container, and at most starting fails.  Where
\* it also removes or pauses the container, or containerd and the disk fail, the four
\* properties below do not hold.
StartsAndStops ==
  /\ config.requests \cap {"rm", "rmforce", "pause", "unpause"} = {}
  /\ config.faults \subseteq {"start"}

\* A request of a single client: when containerStop returns nil the process is gone,
\* and neither the restart policy nor a restart under way starts another: the
\* container is stopped, or its exit is on its way and the restart manager is canceled.
StopReturns(a) ==
  /\ Len(stack[a]) = 1 /\ Head(stack[a]).fn = "Stop" /\ Head(stack[a]).pc # "force"
  /\ stack'[a] = <<>>

StopMeansStopped ==
  [][\A a \in Ops : StartsAndStops /\ StopReturns(a) =>
       /\ proc'.state # "alive"
       /\ ~st'.running \/ (~st'.restarting /\ rm'.canceled)]_vars

\* Every request of a single client to a container that nothing but the client starts or
\* removes returns: the waits without deadline in Kill and containerStop (kill.go:150,
\* stop.go:82) end.
RequestsReturn ==
  \A a \in Ops :
    StartsAndStops /\ config.policy = "no" /\ ~config.autoRemove /\ stack[a] # <<>> ~> stack[a] = <<>>

\* A container that waits to be restarted is restarted or stopped.
RestartResolves == StartsAndStops /\ st.restarting ~> ~st.restarting

\* A container created with AutoRemove is removed once it has run and stopped
\* (monitor.go:33, "if container's AutoRemove flag is set, remove it after clean up"):
\* when nothing is under way any more it is not there.
Quiet == (\A a \in Actors : stack[a] = <<>>) /\ Pipeline = <<>>

AutoRemoved ==
  StartsAndStops /\ config.autoRemove /\ proc.state = "gone" /\ Quiet => ~registered
===============================================================================
