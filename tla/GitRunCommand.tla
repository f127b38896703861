---------------------------- MODULE GitRunCommand ----------------------------
(***************************************************************************)
(* Git::run_command (crates/vcs/src/git.rs): the per-instance response     *)
(* cache, a tokio RwLock<HashMap<command line, stdout>>, shared by every   *)
(* Vcs query that concurrent tasks issue.  One caller is one async call of *)
(* run_command; its control points are the awaits of the code:            *)
(*   read().await -> contains_key -> (hit: return | miss: drop guard)      *)
(*   write().await -> exec_capture_output().await? -> insert -> return     *)
(* The working tree the subprocess observes is a version number that the  *)
(* tasks running beside the queries may advance (they write files).        *)
(***************************************************************************)
EXTENDS Naturals, FiniteSets, TLC

CONSTANTS
    Callers,         \* concurrent run_command calls in flight (tasks)
    Commands,        \* distinct command lines, i.e. cache keys
    MaxCalls,        \* run_command calls each caller issues
    MaxRepoChanges,  \* writes to the working tree during the run
    NoOne            \* model value: the write guard is free

VARIABLES
    cache,    \* Git.cache: command line -> captured stdout
    readers,  \* callers holding a read guard
    writer,   \* caller holding the write guard, or NoOne
    repo,     \* version of the working tree
    pc,       \* control point of each caller inside run_command
    cmd,      \* cache key of each caller's current call
    output,   \* stdout captured by each caller's subprocess
    calls,    \* run_command calls each caller has started
    answers   \* history: every Ok(value) run_command has returned

vars == <<cache, readers, writer, repo, pc, cmd, output, calls, answers>>

(* What `git <args>` prints for the working tree at version v: a command   *)
(* line's output is determined by the command and the repository state.   *)
Out(c, v) == [cmd |-> c, rev |-> v]

Outputs == {Out(c, v) : c \in Commands, v \in 0..MaxRepoChanges}

NoOutput == [cmd |-> NoOne, rev |-> 0]

Init ==
    /\ cache = <<>>
    /\ readers = {}
    /\ writer = NoOne
    /\ repo = 0
    /\ pc = [p \in Callers |-> "idle"]
    /\ cmd = [p \in Callers |-> CHOOSE c \in Commands : TRUE]
    /\ output = [p \in Callers |-> NoOutput]
    /\ calls = [p \in Callers |-> 0]
    /\ answers = {}

Goto(p, from, to) ==
    /\ pc[p] = from
    /\ pc' = [pc EXCEPT ![p] = to]

Insert(f, k, v) == [x \in DOMAIN f \cup {k} |-> IF x = k THEN v ELSE f[x]]

(* A Vcs query builds its command and calls run_command; the cache key is *)
(* the command line.                                                       *)
StartCall(p) ==
    /\ calls[p] < MaxCalls
    /\ Goto(p, "idle", "read_lock")
    /\ \E c \in Commands : cmd' = [cmd EXCEPT ![p] = c]
    /\ calls' = [calls EXCEPT ![p] = @ + 1]
    /\ UNCHANGED <<cache, readers, writer, repo, output, answers>>

(* self.cache.read().await: granted while no write guard is held.         *)
AcquireRead(p) ==
    /\ writer = NoOne
    /\ Goto(p, "read_lock", "check")
    /\ readers' = readers \cup {p}
    /\ UNCHANGED <<cache, writer, repo, cmd, output, calls, answers>>

(* contains_key hit: clone the value, drop the read guard, return Ok.     *)
CacheHit(p) ==
    /\ cmd[p] \in DOMAIN cache
    /\ Goto(p, "check", "idle")
    /\ readers' = readers \ {p}
    /\ answers' = answers \cup {cache[cmd[p]]}
    /\ UNCHANGED <<cache, writer, repo, cmd, output, calls>>

(* Variant: the read guard is still alive when write() is awaited (no     *)
(* scoped block around the read), so the writer waits on its own reader.  *)
CacheMissKeepsGuard(p) ==
    /\ cmd[p] \notin DOMAIN cache
    /\ Goto(p, "check", "write_lock")
    /\ UNCHANGED <<cache, readers, writer, repo, cmd, output, calls, answers>>

(* contains_key miss: the block ends and drops the read guard.            *)
CacheMiss(p) ==
    /\ cmd[p] \notin DOMAIN cache
    /\ Goto(p, "check", "write_lock")
    /\ readers' = readers \ {p}
    /\ UNCHANGED <<cache, writer, repo, cmd, output, calls, answers>>

(* self.cache.write().await: exclusive, waits for every read guard.       *)
AcquireWrite(p) ==
    /\ writer = NoOne
    /\ readers = {}
    /\ Goto(p, "write_lock", "exec")
    /\ writer' = p
    /\ UNCHANGED <<cache, readers, repo, cmd, output, calls, answers>>

(* Variant: the write guard is released while git runs and retaken only  *)
(* for the insert, so two subprocesses of one command overlap.            *)
SpawnOutsideLock(p) ==
    /\ Goto(p, "exec", "wait")
    /\ output' = [output EXCEPT ![p] = Out(cmd[p], repo)]
    /\ writer' = NoOne
    /\ UNCHANGED <<cache, readers, repo, cmd, calls, answers>>

(* command.exec_capture_output().await, still holding the write guard:    *)
(* git reads the working tree as it is now.                               *)
Spawn(p) ==
    /\ Goto(p, "exec", "wait")
    /\ output' = [output EXCEPT ![p] = Out(cmd[p], repo)]
    /\ UNCHANGED <<cache, readers, writer, repo, cmd, calls, answers>>

(* The subprocess exits 0: stdout is decoded, inserted under the key and  *)
(* returned; the write guard is dropped on return.                        *)
InsertOutput(p) ==
    /\ Goto(p, "wait", "idle")
    /\ cache' = Insert(cache, cmd[p], output[p])
    /\ writer' = NoOne
    /\ answers' = answers \cup {output[p]}
    /\ UNCHANGED <<readers, repo, cmd, output, calls>>

(* Variant: a failed command's (empty) stdout is cached like an output.  *)
ExecFailCachesEmpty(p) ==
    /\ Goto(p, "wait", "idle")
    /\ cache' = Insert(cache, cmd[p], NoOutput)
    /\ writer' = NoOne
    /\ UNCHANGED <<readers, repo, cmd, output, calls, answers>>

(* Spawn failure or non-zero exit: `?` returns the VcsError and drops the *)
(* write guard; nothing is cached, so the next call runs git again.       *)
ExecFail(p) ==
    /\ Goto(p, "wait", "idle")
    /\ writer' = NoOne
    /\ UNCHANGED <<cache, readers, repo, cmd, output, calls, answers>>

(* A task running concurrently writes into the working tree.              *)
ChangeRepo ==
    /\ repo < MaxRepoChanges
    /\ repo' = repo + 1
    /\ UNCHANGED <<cache, readers, writer, pc, cmd, output, calls, answers>>

Step(p) ==
    \/ AcquireRead(p)
    \/ CacheHit(p)
    \/ CacheMiss(p)
    \/ AcquireWrite(p)
    \/ Spawn(p)
    \/ InsertOutput(p)
    \/ ExecFail(p)

Next ==
    \/ \E p \in Callers : StartCall(p) \/ Step(p)
    \/ ChangeRepo

(* tokio's RwLock queues waiters fairly, the runtime polls every ready    *)
(* task, and git terminates: a started call keeps taking steps.  Callers  *)
(* need not start calls and the tree need not change.                     *)
Spec == Init /\ [][Next]_vars /\ \A p \in Callers : WF_vars(Step(p))

-----------------------------------------------------------------------------

(* The cache only ever holds outputs git printed for its key.            *)
TypeOK ==
    /\ DOMAIN cache \subseteq Commands
    /\ \A c \in DOMAIN cache : cache[c] \in Outputs /\ cache[c].cmd = c
    /\ readers \subseteq Callers
    /\ writer \in Callers \cup {NoOne}
    /\ repo \in 0..MaxRepoChanges
    /\ pc \in [Callers -> {"idle", "read_lock", "check", "write_lock", "exec", "wait"}]
    /\ cmd \in [Callers -> Commands]
    /\ output \in [Callers -> Outputs \cup {NoOutput}]
    /\ calls \in [Callers -> 0..MaxCalls]
    /\ answers \subseteq Outputs

(* The cache never regresses: whatever git output run_command has already *)
(* handed to a caller, the cached stdout of that command line is at least  *)
(* as recent.  It holds because exec_capture_output runs while the write   *)
(* guard is held, so inserts happen in the order the subprocesses ran.     *)
CacheNeverRegresses ==
    \A a \in answers :
        a.cmd \in DOMAIN cache /\ a.rev <= cache[a.cmd].rev

(* Every run_command call returns: both guards are dropped on every path  *)
(* (hit, miss, exec error, insert), so no caller waits on a guard forever. *)
CallsComplete ==
    \A p \in Callers : pc[p] /= "idle" ~> pc[p] = "idle"

(* The abstract cache of Memo, with the same cache, tree and answers.     *)
Abstract == INSTANCE Memo

(* run_command implements Memo: every hit returns the stored output, and  *)
(* every insert stores an output of the key's command for a tree no older *)
(* than the stored one -- the lock steps, failed runs and overlapping     *)
(* misses are all invisible at that level.                                 *)
ImplementsMemo == Abstract!Spec

(* Spec section 5: two calls racing on the same uncached command both run *)
(* git and "both produce the same result", so the second insert changes   *)
(* nothing: every Ok answer for a command line is the same output.         *)
AnswersAgree ==
    \A a, b \in answers : a.cmd = b.cmd => a = b

=============================================================================
