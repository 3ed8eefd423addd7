------------------------------- MODULE Ptrace -------------------------------
(***************************************************************************)
(* The tracees and the Linux kernel, the environment of graftcp's tracer.  *)
(* A tracee issues system calls, gets signals, forks, starts threads and   *)
(* dies; the kernel turns that into the ptrace stops that main.c waits     *)
(* for.  None of this is code of the repository: it is modelled from how   *)
(* main.c uses wait(2) and ptrace(2) without PTRACE_O_TRACESYSGOOD.        *)
(*                                                                         *)
(* Which behaviours the application has is a parameter, so that a property *)
(* can be checked in the environment in which it is meant to hold.         *)
(***************************************************************************)
EXTENDS Integers

CONSTANTS
  Pids,           \* thread ids
  Root,           \* the child graftcp forks and execs
  Fds,            \* file descriptor numbers
  Dests,          \* socket addresses the application connects to
  MaxCalls,       \* BOUND: system calls and signals in all, exits apart
  SockKinds,      \* kinds of socket the application opens
  SockErrs,       \* values (-errno) with which socket(2) may fail
  CloneOpts,      \* option sets clone(2) is called with
  Signals,        \* signals a tracee may receive
  AppRetries,     \* may connect(2) be repeated from the same sockaddr buffer?
  Killable,       \* may a tracee get SIGKILL?
  PidReuse        \* may the kernel hand out the pid of a reaped tracee again?

VARIABLES
  ts,       \* state of each tracee
  grp,      \* thread group of each tracee
  fdt,      \* descriptor table of each thread group: fd -> kind of socket
  regs,     \* orig_rax and the argument registers
  rax,      \* return value register
  buf,      \* the sockaddr in the tracee's memory that connect(2) points to
  calls,    \* system calls and signals left to the tracees (bound)
  used,     \* pids handed out so far
  want,     \* history: the destination the application last put into buf
  noted,    \* history: destination announced during the current system call
  outcome   \* history: what became of the connect(2) each tracee is in

traceeVars == <<ts, grp, fdt, regs, rax, buf, calls, used, want, noted, outcome>>

AllSockKinds == {"tcp", "udp", "raw", "unix"}
AllSignals == {"plain", "sigstop", "stop", "trap"}
AllCloneOpts == {"thread", "untraced", "inherit"}
Ops == {"none", "socket", "connect", "close", "clone", "exec", "exit", "exit_group",
        "other"}

ASSUME PtraceAssumption ==
  /\ Root \in Pids /\ Fds \subseteq Nat /\ MaxCalls \in Nat
  /\ SockKinds \subseteq AllSockKinds /\ Signals \subseteq AllSignals
  /\ CloneOpts \subseteq SUBSET AllCloneOpts
  /\ SockErrs \subseteq {e \in Int : e < 0}

-----------------------------------------------------------------------------

Call(op, fd, kind, opts) == [op |-> op, fd |-> fd, kind |-> kind, opts |-> opts]
NoCall == Call("none", 0, "tcp", {})
Calls ==
  {Call("socket", 0, k, {}) : k \in SockKinds}
    \cup {Call(op, fd, "tcp", {}) : op \in {"connect", "close"}, fd \in Fds}
    \cup {Call("clone", 0, "tcp", opts) : opts \in CloneOpts}
    \cup {Call(op, 0, "tcp", {}) : op \in {"exec", "exit", "exit_group", "other"}}

\* a sockaddr of no use to connect(2)
NoAddr == [fam |-> "unspec", ip |-> "none", port |-> 0]
NoFds == [f \in Fds |-> "closed"]
NoOutcome == [kind |-> "none", want |-> NoAddr, to |-> NoAddr, noted |-> NoAddr]

\* stops reported to the tracer: entry to and exit from a system call, a
\* PTRACE_EVENT, SIGSTOP, delivery of another signal that does ("stop") or does
\* not ("plain") stop the process, delivery of SIGTRAP, group-stop
Stops == {"entry", "exit", "event", "sigstop", "plain", "stop", "trap", "group"}
\* a stop that has been reported, once, and is not ended by the tracer: at the
\* entry to a system call, or another one
HeldStops == {"heldentry", "held"}
Running == Stops \cup HeldStops \cup {"user", "kernel", "finish"}
TraceeState == Running \cup {"absent", "zombie", "escaped"}

\* where a tracee goes from each kind of stop when it is let go; the signal of a
\* "trap" stop is dropped, the one of a "stop" stop leads into group-stop
Resumed == [entry |-> "kernel", exit |-> "user", event |-> "finish",
            sigstop |-> "user", plain |-> "user", stop |-> "group",
            trap |-> "user", group |-> "user",
            heldentry |-> "kernel", held |-> "user"]

ENOSYS == 38
EMFILE == 24

\* fork(2), PTRACE_TRACEME and SIGSTOP have happened
TraceeInit ==
  /\ ts = [p \in Pids |-> IF p = Root THEN "sigstop" ELSE "absent"]
  /\ grp = [p \in Pids |-> p]
  /\ fdt = [p \in Pids |-> NoFds]
  /\ regs = [p \in Pids |-> NoCall]
  /\ rax = [p \in Pids |-> 0]
  /\ buf = [p \in Pids |-> NoAddr]
  /\ calls = MaxCalls
  /\ used = {Root}
  /\ want = [p \in Pids |-> NoAddr]
  /\ noted = [p \in Pids |-> NoAddr]
  /\ outcome = [p \in Pids |-> NoOutcome]

-----------------------------------------------------------------------------
(* The application *)

OpenFds(p) == {f \in Fds : fdt[grp[p]][f] # "closed"}
FreeFds(p) == Fds \ OpenFds(p)

IsExit(op) == op \in {"exit", "exit_group"}

\* a system call; the kernel stops the caller at the entry.  Only the leader of
\* a thread group calls execve(2), the last thread of a group ends with
\* exit_group(2), and where SockErrs is empty the application stays below its
\* limit of open files.
Syscall(p, c) ==
  /\ ts[p] = "user"
  /\ calls > 0 \/ IsExit(c.op)
  /\ c.op = "exec" => p = grp[p]
  /\ c.op = "exit" => \E q \in Pids \ {p} : grp[q] = grp[p] /\ ts[q] \in Running
  /\ c.op = "socket" => FreeFds(p) # {} \/ SockErrs # {}
  /\ ts' = [ts EXCEPT ![p] = "entry"]
  /\ regs' = [regs EXCEPT ![p] = c]
  /\ rax' = [rax EXCEPT ![p] = -ENOSYS]
  /\ calls' = IF IsExit(c.op) THEN calls ELSE calls - 1
  /\ noted' = [noted EXCEPT ![p] = NoAddr]
  /\ outcome' = [outcome EXCEPT ![p] = NoOutcome]
  /\ \/ c.op = "connect" /\ \E d \in Dests :
           /\ buf' = [buf EXCEPT ![p] = d]
           /\ want' = [want EXCEPT ![p] = d]
     \/ /\ c.op = "connect" /\ AppRetries /\ want[p] # NoAddr
        /\ UNCHANGED <<buf, want>>
     \/ c.op # "connect" /\ UNCHANGED <<buf, want>>
  /\ UNCHANGED <<grp, fdt, used>>

\* a signal is about to be delivered; orig_rax still shows the system call the
\* tracee has just left, or -1 when it was interrupted in its own code
Signal(p, s) ==
  /\ ts[p] = "user" /\ calls > 0
  /\ ts' = [ts EXCEPT ![p] = s]
  /\ calls' = calls - 1
  /\ regs' \in {regs, [regs EXCEPT ![p].op = "none"]}
  /\ UNCHANGED <<grp, fdt, rax, buf, used, want, noted, outcome>>

\* the threads of S that live die
Die(S) ==
  ts' = [q \in Pids |-> IF q \in S /\ ts[q] \in Running THEN "zombie" ELSE ts[q]]

Threads(p) == {q \in Pids : grp[q] = grp[p]}

SigKill(p) ==
  /\ Killable /\ ts[p] \in Running
  /\ Die(Threads(p))
  /\ UNCHANGED <<grp, fdt, regs, rax, buf, calls, used, want, noted, outcome>>

-----------------------------------------------------------------------------
(* The kernel *)

\* what only the tracee itself, its creation and the tracer change
memVars == <<regs, buf, want>>

\* a call ends with result r: the caller is stopped at the exit
Return(p, r) ==
  /\ ts' = [ts EXCEPT ![p] = "exit"]
  /\ rax' = [rax EXCEPT ![p] = r]

\* the lowest free descriptor, or an error
KernelSocket(p) ==
  /\ regs[p].op = "socket"
  /\ \/ \E fd \in FreeFds(p) :
          /\ \A f \in FreeFds(p) : fd <= f
          /\ fdt' = [fdt EXCEPT ![grp[p]][fd] = regs[p].kind]
          /\ Return(p, fd)
     \/ /\ \E e \in SockErrs \cup (IF FreeFds(p) = {} THEN {-EMFILE} ELSE {}) :
             Return(p, e)
        /\ UNCHANGED fdt
  /\ UNCHANGED <<grp, used, outcome, memVars>>

\* the kernel reads the sockaddr now, after the entry stop
KernelConnect(p) ==
  /\ regs[p].op = "connect"
  /\ outcome' = IF regs[p].fd \in OpenFds(p)
                THEN [outcome EXCEPT ![p] =
                        [kind |-> fdt[grp[p]][regs[p].fd], want |-> want[p],
                         to |-> buf[p], noted |-> noted[p]]]
                ELSE outcome
  /\ Return(p, 0)
  /\ UNCHANGED <<grp, fdt, used, memVars>>

KernelClose(p) ==
  /\ regs[p].op = "close"
  /\ fdt' = [fdt EXCEPT ![grp[p]][regs[p].fd] = "closed"]
  /\ Return(p, 0)
  /\ UNCHANGED <<grp, used, outcome, memVars>>

FreePids == {q \in Pids : ts[q] = "absent" /\ (PidReuse \/ q \notin used)}

\* the child is a copy of its parent; it is attached to the tracer and stopped
\* with SIGSTOP, and the parent reports an event, unless CLONE_UNTRACED is set
KernelClone(p) ==
  LET opts == regs[p].opts
      traced == "untraced" \notin opts
  IN
  /\ regs[p].op = "clone"
  /\ \/ \E q \in FreePids :
          /\ ts' = [ts EXCEPT ![p] = IF traced THEN "event" ELSE "exit",
                              ![q] = IF traced THEN "sigstop" ELSE "escaped"]
          /\ grp' = [grp EXCEPT ![q] = IF "thread" \in opts THEN grp[p] ELSE q]
          /\ fdt' = IF "thread" \in opts THEN fdt
                    ELSE [fdt EXCEPT ![q] =
                            IF "inherit" \in opts THEN fdt[grp[p]] ELSE NoFds]
          /\ rax' = [rax EXCEPT ![p] = 0, ![q] = 0]
          /\ regs' = [regs EXCEPT ![q] = regs[p]]
          /\ buf' = [buf EXCEPT ![q] = buf[p]]
          /\ want' = [want EXCEPT ![q] = want[p]]
          /\ used' = used \cup {q}
     \/ FreePids = {} /\ Return(p, -1) /\ UNCHANGED <<grp, fdt, used, memVars>>
  /\ UNCHANGED outcome

\* the other threads of the caller die
KernelExec(p) ==
  /\ regs[p].op = "exec"
  /\ ts' = [q \in Pids |-> IF q = p THEN "event"
                           ELSE IF grp[q] = grp[p] /\ ts[q] \in Running THEN "zombie"
                           ELSE ts[q]]
  /\ UNCHANGED <<grp, fdt, rax, used, outcome, memVars>>

\* nothing returns from exit(2) and exit_group(2): there is no exit stop
KernelExit(p) ==
  /\ IsExit(regs[p].op)
  /\ Die(IF regs[p].op = "exit" THEN {p} ELSE Threads(p))
  /\ UNCHANGED <<grp, fdt, rax, used, outcome, memVars>>

KernelOther(p) ==
  /\ regs[p].op = "other"
  /\ Return(p, 0)
  /\ UNCHANGED <<grp, fdt, used, outcome, memVars>>

Kernel(p) ==
  /\ ts[p] = "kernel"
  /\ \/ KernelSocket(p) \/ KernelConnect(p) \/ KernelClose(p) \/ KernelClone(p)
     \/ KernelExec(p) \/ KernelExit(p) \/ KernelOther(p)
  /\ UNCHANGED <<calls, noted>>

\* clone(2) or execve(2) returns after its event stop
Finish(p) ==
  /\ ts[p] = "finish"
  /\ Return(p, 0)
  /\ UNCHANGED <<grp, fdt, regs, buf, calls, used, want, noted, outcome>>

\* does wait(2) report p?  The leader of a group is reported dead as the last one
Waitable(p) ==
  \/ ts[p] \in Stops
  \/ ts[p] = "zombie" /\ (p = grp[p] => \A q \in Threads(p) \ {p} : ts[q] = "absent")

\* the kernel detaches p from a tracer that has ended.  From then on p passes the
\* points at which it used to stop by itself; a stopping signal lasts for a while
Detach(p) ==
  /\ ts[p] \in Stops \cup HeldStops
  /\ ts' = [ts EXCEPT ![p] = Resumed[@]]
  /\ UNCHANGED <<grp, fdt, regs, rax, buf, calls, used, want, noted, outcome>>

TraceeStep(p) ==
  \/ \E c \in Calls : Syscall(p, c)
  \/ \E s \in Signals : Signal(p, s)
  \/ SigKill(p) \/ Kernel(p) \/ Finish(p)

=============================================================================
