------------------------------- MODULE Service -------------------------------
(***************************************************************************)
(* main.rs, config.rs, service.rs and run of server.rs: the processes of   *)
(* ntgate that the user and Task Scheduler start, and what they share: the *)
(* configuration files, the file that hands the task to schtasks, and the  *)
(* registered task.                                                        *)
(*                                                                         *)
(* One action is one call of the operating system.  Processes run side by  *)
(* side; a logoff, which stands for a crash of the machine as well, ends   *)
(* them wherever they are and leaves the files as they are.  The user's    *)
(* processes are installs: the other commands load a file as an install    *)
(* does and change nothing afterwards that a process would look at, but a  *)
(* run of the user's, which takes the port (Bind).                         *)
(***************************************************************************)
EXTENDS Naturals

CONSTANTS
    Users,      \* installs that the user starts
    Instance,   \* the process of the task: MultipleInstancesPolicy is IgnoreNew
    Paths,      \* configuration files, as the user may type them
    Absolute,   \* those that name the same file wherever a process runs
    Typed,      \* those that an install is started with: a bound
    Dir,        \* the directory a process runs in: the user's, or Task Scheduler's
    Count,      \* how often Task Scheduler restarts an instance that failed
    None

Procs == Users \cup {Instance}

ASSUME ServiceAssumption ==
    /\ Instance \notin Users /\ None \notin Paths /\ "blank" \notin Paths \cup {None}
    /\ Absolute \subseteq Paths /\ \A p \in Users : Typed[p] \subseteq Paths
    /\ Count \in Nat

\* The file that a path is for a process.  No command makes a path absolute, and
\* the task's XML names no working directory.
Opens(p, x) == IF x \in Absolute THEN x ELSE <<Dir[p], x>>

Files == {Opens(p, x) : p \in Procs, x \in Paths}

\* A file: none, one that loads (the example, a user's), and one that does not.
\* Every field has a default: an empty file is Config::default and loads.
Contents == {"none", "good", "bad"}

VARIABLES
    file,       \* the configuration files
    tmp,        \* ntgate-task.xml: None, "blank" or the path it names, as typed
    task,       \* the path in the registered task, as typed, or None
    on,         \* the user is logged on
    retries,    \* how often Task Scheduler will still restart the instance
    at,         \* the next step of a process
    path,       \* the path of its configuration file, as typed, while it needs it
    loaded,     \* history: files that an install has loaded
    disturbed   \* history: installs whose ntgate-task.xml another one has changed

vars      == <<file, tmp, task, on, retries, at, path, loaded, disturbed>>
scheduler == <<task, on, retries>>

\* A process that is gone has no path.
Init ==
    /\ file \in [Files -> Contents]
    /\ tmp = None /\ task = None /\ on = TRUE /\ retries = 0
    /\ at = [p \in Procs |-> "off"] /\ path = [p \in Procs |-> None]
    /\ loaded = {} /\ disturbed = {}

Goto(p, label) == at' = [at EXCEPT ![p] = label] /\ UNCHANGED path
Config(p)      == Opens(p, path[p])
Begin(p, x)    == at' = [at EXCEPT ![p] = "look"] /\ path' = [path EXCEPT ![p] = x]
End(p)         == at' = [at EXCEPT ![p] = "off"]  /\ path' = [path EXCEPT ![p] = None]

\* main returns an error, which Task Scheduler sees of its instance.
Fail(p) ==
    \/ p = Instance /\ retries > 0 /\ at' = [at EXCEPT ![p] = "waiting"]
                                   /\ path' = [path EXCEPT ![p] = None]
    \/ ~(p = Instance /\ retries > 0) /\ End(p)

-----------------------------------------------------------------------------
(* load_or_create *)

\* The user enters ntgate install -c x.
Enter(p) ==
    /\ on /\ at[p] = "off"
    /\ \E x \in Typed[p] : Begin(p, x)
    /\ UNCHANGED <<file, tmp, scheduler, loaded>>

\* write_example_if_missing: path.exists()
Look(p) ==
    /\ at[p] = "look"
    /\ Goto(p, IF file[Config(p)] = "none" THEN "create" ELSE "load")
    /\ UNCHANGED <<file, tmp, scheduler, loaded>>

\* fs::write creates the file, or truncates the one that is there now, and writes
\* the example to it: all of it, nothing, or, if it fails, a part that may load.
Create(p) ==
    /\ at[p] = "create"
    /\ \/ file' = [file EXCEPT ![Config(p)] = "good"] /\ Goto(p, "load")
       \/ \E content \in {file[Config(p)], "good", "bad"} :
             file' = [file EXCEPT ![Config(p)] = content] /\ Fail(p)
    /\ UNCHANGED <<tmp, scheduler, loaded>>

\* Mutant: the result of load_or_create is not looked at before the install.
Load_Ignored(p) ==
    /\ at[p] = "load"
    /\ LET loads == file[Config(p)] = "good"
       IN  \/ ~loads /\ p = Instance /\ Fail(p) /\ UNCHANGED loaded
           \/ loads /\ p = Instance /\ Goto(p, "bind") /\ UNCHANGED loaded
           \/ p \in Users /\ Goto(p, "xml") /\ loaded' = IF loads THEN loaded \cup {Config(p)} ELSE loaded
    /\ UNCHANGED <<file, tmp, scheduler>>

\* Config::load_path, and what the command does next.
Load(p) ==
    /\ at[p] = "load"
    /\ LET loads == file[Config(p)] = "good"
       IN  \/ ~loads /\ Fail(p) /\ UNCHANGED loaded
           \/ loads /\ p = Instance /\ Goto(p, "bind") /\ UNCHANGED loaded
           \/ loads /\ p \in Users /\ Goto(p, "xml") /\ loaded' = loaded \cup {Config(p)}
    /\ UNCHANGED <<file, tmp, scheduler>>

-----------------------------------------------------------------------------
(* run of server.rs, in the instance of the task *)

\* TcpListener::bind: another process may have the port.
Bind(p) ==
    /\ at[p] = "bind"
    /\ Goto(p, "serve") \/ Fail(p)
    /\ UNCHANGED <<file, tmp, scheduler, loaded>>

\* Mutant: run leaves its loop on a failed accept and returns Ok.
AcceptFails_Ok(p) ==
    /\ at[p] = "serve"
    /\ End(p)
    /\ UNCHANGED <<file, tmp, scheduler, loaded>>

\* An accept fails, and run returns the error.
AcceptFails(p) ==
    /\ at[p] = "serve"
    /\ Fail(p)
    /\ UNCHANGED <<file, tmp, scheduler, loaded>>

-----------------------------------------------------------------------------
(* install and uninstall *)

\* Mutant: a file that is there is taken to be the one that has to be written.
CreateXml_Keeps(p) ==
    /\ at[p] = "xml"
    /\ \/ tmp \in Paths /\ UNCHANGED tmp /\ Goto(p, "register")
       \/ tmp \notin Paths /\ tmp' = "blank" /\ Goto(p, "xml text")
    /\ UNCHANGED <<file, scheduler, loaded>>

\* File::create of ntgate-task.xml, the same file for every install,
CreateXml(p) ==
    /\ at[p] = "xml"
    /\ \/ tmp' = "blank" /\ Goto(p, "xml text")
       \/ UNCHANGED tmp /\ Fail(p)
    /\ UNCHANGED <<file, scheduler, loaded>>

\* and what is written to it, the path as it was typed, unless another install
\* has removed the file.
WriteXml(p) ==
    /\ at[p] = "xml text"
    /\ \/ tmp' = (IF tmp = None THEN None ELSE path[p]) /\ Goto(p, "register")
       \/ UNCHANGED tmp /\ Fail(p)
    /\ UNCHANGED <<file, scheduler, loaded>>

\* schtasks /Create /XML /F reads the file.  A task that is replaced does not
\* restart what it has started.
Register(p) ==
    /\ at[p] = "register"
    /\ \/ /\ tmp \in Paths
          /\ task' = tmp /\ retries' = 0
          /\ at' = [at EXCEPT ![p] = "remove", ![Instance] = IF @ = "waiting" THEN "off" ELSE @]
       \/ at' = [at EXCEPT ![p] = "remove, failed"] /\ UNCHANGED <<task, retries>>
    /\ path' = [path EXCEPT ![p] = None]
    /\ UNCHANGED <<file, tmp, on, loaded>>

\* remove_file, after success and failure.
Remove(p) ==
    /\ tmp' = None
    /\ \/ at[p] = "remove" /\ Goto(p, "start")
       \/ at[p] = "remove, failed" /\ Fail(p)
    /\ UNCHANGED <<file, scheduler, loaded>>

\* schtasks /Run, whose result is not looked at: nothing starts if the task is
\* gone, or if an instance of it is still there.
Start(p) ==
    /\ at[p] = "start"
    /\ \/ /\ task # None /\ at[Instance] \in {"off", "waiting"}
          /\ retries' = Count
          /\ at' = [at EXCEPT ![p] = "off", ![Instance] = "look"]
          /\ path' = [path EXCEPT ![p] = None, ![Instance] = task]
       \/ End(p) /\ UNCHANGED retries
    /\ UNCHANGED <<file, tmp, task, on, loaded>>

\* schtasks /Delete /F, the one step of uninstall: a running instance goes on.
Uninstall ==
    /\ on /\ task # None
    /\ task' = None /\ retries' = 0
    /\ at' = [at EXCEPT ![Instance] = IF @ = "waiting" THEN "off" ELSE @]
    /\ UNCHANGED <<file, tmp, on, path, loaded>>

-----------------------------------------------------------------------------
(* The user and Task Scheduler *)

\* The user interrupts an install of his.
Interrupt(p) ==
    /\ at[p] # "off"
    /\ End(p)
    /\ UNCHANGED <<file, tmp, scheduler, loaded>>

Logoff ==
    /\ on
    /\ on' = FALSE /\ retries' = 0
    /\ at' = [p \in Procs |-> "off"] /\ path' = [p \in Procs |-> None]
    /\ UNCHANGED <<file, tmp, task, loaded>>

\* LogonTrigger
Logon ==
    /\ ~on
    /\ on' = TRUE
    /\ \/ task # None /\ retries' = Count /\ Begin(Instance, task)
       \/ task = None /\ UNCHANGED <<retries, at, path>>
    /\ UNCHANGED <<file, tmp, task, loaded>>

\* RestartOnFailure, a minute later.
Retry ==
    /\ at[Instance] = "waiting"
    /\ retries' = retries - 1
    /\ Begin(Instance, task)
    /\ UNCHANGED <<file, tmp, task, on, loaded>>

\* The user writes a configuration, or removes it.
Edit ==
    /\ on
    /\ \E x \in Files, content \in Contents : file' = [file EXCEPT ![x] = content]
    /\ UNCHANGED <<tmp, scheduler, at, path, loaded>>

-----------------------------------------------------------------------------
\* Steps that a process makes by itself.
Runs(p) ==
    \/ Look(p) \/ Create(p) \/ Load(p) \/ Bind(p)
    \/ CreateXml(p) \/ WriteXml(p) \/ Register(p) \/ Remove(p) \/ Start(p)

Step ==
    \/ \E p \in Procs : Runs(p) \/ AcceptFails(p)
    \/ \E p \in Users : Enter(p) \/ Interrupt(p)
    \/ Uninstall \/ Logoff \/ Logon \/ Retry \/ Edit

\* History: an install has the file in hand from its creation to its registration;
\* the file changes in a step that is not its own.
InHand(label) == label \in {"xml text", "register"}

Disturb ==
    disturbed' = {p \in Users : /\ InHand(at[p]) /\ InHand(at'[p])
                                /\ p \in disturbed \/ (tmp' # tmp /\ at'[p] = at[p])}

Next == Step /\ Disturb

Spec == Init /\ [][Next]_vars

\* The instance runs on, and Task Scheduler restarts it when it has failed.
FairSpec == Spec /\ WF_vars(Runs(Instance) /\ Disturb) /\ WF_vars(Retry /\ Disturb)

-----------------------------------------------------------------------------
(* Properties *)

\* The path of the task that is registered names a configuration that an install
\* loaded without an error, where that install ran, however installs get in each
\* other's way on ntgate-task.xml and whoever is interrupted between two calls;
\* an absolute path names it for the instance too (main.rs, Install; service.rs,
\* install).  A relative one is for the instance a file of its own directory,
\* which no install need have looked at.
TaskLoadable ==
    /\ task # None => \E p \in Users : Opens(p, task) \in loaded
    /\ path[Instance] \in Absolute => path[Instance] \in loaded

\* An install registers its own configuration and no other, whatever an install
\* before it has left of ntgate-task.xml; only another one that changes the file
\* in between can make it register another path (service.rs, install).
OwnTask ==
    [][\A p \in Users : at[p] = "register" /\ at'[p] = "remove" /\ p \notin disturbed =>
            task' = path[p]]_vars

Steps == {"off", "look", "create", "load", "bind", "serve", "waiting", "xml", "xml text",
          "register", "remove", "remove, failed", "start"}

\* What the proofs need: an install past load_or_create, and what it has written,
\* are at a path that was loaded; the file is as the install in hand has left it.
InstallInv ==
    /\ at \in [Procs -> Steps] /\ path \in [Procs -> Paths \cup {None}]
    /\ task \in Paths \cup {None}
    /\ \A p \in Procs : at[p] \in {"xml", "xml text", "register"} => p \in Users /\ Config(p) \in loaded
    /\ tmp \in Paths => \E p \in Users : Opens(p, tmp) \in loaded

OwnInv ==
    \A p \in Users \ disturbed :
        /\ at[p] = "xml text" => tmp = "blank"
        /\ at[p] = "register" => tmp = path[p]

\* Whatever fails in the instance, its file, the port, an accept, and however
\* often: it listens again in the end, unless the task's restarts are used up or
\* it is removed, replaced or started anew, or the user logs off.  No failure ends
\* the process as a success or leaves it hanging (service.rs, task_xml: restarts
\* on failure).
Retried ==
    (at[Instance] # "serve" /\ retries > 0) ~>
        \/ at[Instance] = "serve"
        \/ at[Instance] = "off" /\ retries = 0
        \/ \E p \in Users : at[p] = "start"
=============================================================================
