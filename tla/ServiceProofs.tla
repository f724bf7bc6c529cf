---------------------------- MODULE ServiceProofs ----------------------------
(***************************************************************************)
(* Any number of installs, on any configuration files, from any            *)
(* directories: the registered task and the running instance have a file   *)
(* that an install loaded, and an install registers its own.               *)
(***************************************************************************)
EXTENDS Service, TLAPS

\* The invariant that the proof goes by: installs, the file they hand to
\* schtasks, the task and the instance (service.rs, install).
IInv == InstallInv /\ TaskLoadable

\* Nothing is loaded, written or registered at first (main.rs, main).
LEMMA InitIInv == Init => IInv
  BY ServiceAssumption DEF Init, IInv, InstallInv, Steps, TaskLoadable, Procs

\* A process goes on, with its path, or ends; what it leaves alone stays.
LEMMA GoesOn ==
  ASSUME IInv, NEW p \in Procs, NEW label \in Steps, Goto(p, label), UNCHANGED <<tmp, task, loaded>>,
         label \in {"xml", "xml text", "register"} => p \in Users /\ Config(p) \in loaded
  PROVE  IInv'
<1> USE DEF IInv, InstallInv, TaskLoadable, Config, Goto
<1>1. at' \in [Procs -> Steps] /\ path' \in [Procs -> Paths \cup {None}]
  OBVIOUS
<1>2. ASSUME NEW q \in Procs, at'[q] \in {"xml", "xml text", "register"}
      PROVE  q \in Users /\ Config(q)' \in loaded'
  BY <1>2
<1> QED BY <1>1, <1>2

\* The same for one that ends, or fails and may be started again.
LEMMA EndsHere ==
  ASSUME IInv, NEW p \in Procs, End(p) \/ Fail(p), UNCHANGED <<tmp, task, loaded>>
  PROVE  IInv'
<1> USE ServiceAssumption DEF IInv, InstallInv, TaskLoadable, Config
<1>1. PICK label \in {"off", "waiting"} :
        at' = [at EXCEPT ![p] = label] /\ path' = [path EXCEPT ![p] = None]
  BY DEF End, Fail
<1>2. at' \in [Procs -> Steps] /\ path' \in [Procs -> Paths \cup {None}]
  BY <1>1 DEF Steps
<1>3. ASSUME NEW q \in Procs, at'[q] \in {"xml", "xml text", "register"}
      PROVE  q \in Users /\ Config(q)' \in loaded'
  <2>1. at'[q] = at[q] /\ path'[q] = path[q]
    BY <1>1, <1>3
  <2> QED BY <1>3, <2>1
<1>4. path'[Instance] \in Absolute => path'[Instance] \in loaded'
  BY <1>1, <1>2 DEF Procs
<1> QED BY <1>2, <1>3, <1>4

\* The steps of load_or_create and of run leave task and tmp alone; only Load
\* takes an install further, and it adds its file to loaded.
LEMMA LoadKeeps ==
  ASSUME IInv, NEW p \in Procs, Look(p) \/ Create(p) \/ Load(p) \/ Bind(p) \/ AcceptFails(p)
  PROVE  IInv'
<1> USE DEF Steps, scheduler
<1>1. CASE Look(p)
  <2>1. Goto(p, "create") \/ Goto(p, "load")
    BY <1>1 DEF Look, Goto
  <2> QED BY <1>1, <2>1, GoesOn DEF Look
<1>2. CASE Create(p)
  <2>1. Goto(p, "load") \/ Fail(p)
    BY <1>2 DEF Create
  <2> QED BY <1>2, <2>1, GoesOn, EndsHere DEF Create
<1>3. CASE Load(p)
  <2>1. CASE (Fail(p) \/ Goto(p, "bind")) /\ UNCHANGED loaded
    BY <1>3, <2>1, GoesOn, EndsHere DEF Load
  <2>2. CASE p \in Users /\ Goto(p, "xml") /\ loaded' = loaded \cup {Config(p)}
    BY <1>3, <2>2 DEF Load, Goto, IInv, InstallInv, TaskLoadable, Config
  <2> QED BY <1>3, <2>1, <2>2 DEF Load
<1>4. CASE Bind(p)
  BY <1>4, GoesOn, EndsHere DEF Bind
<1>5. CASE AcceptFails(p)
  BY <1>5, EndsHere DEF AcceptFails
<1> QED BY <1>1, <1>2, <1>3, <1>4, <1>5

\* install: what is written is the path of an install that has loaded its file,
\* and only what is written there is registered, whoever wrote it.
LEMMA InstallKeeps ==
  ASSUME IInv, NEW p \in Procs,
         CreateXml(p) \/ WriteXml(p) \/ Register(p) \/ Remove(p) \/ Start(p) \/ Uninstall
  PROVE  IInv'
<1> USE ServiceAssumption DEF scheduler
<1>1. ASSUME NEW label \in Steps, Goto(p, label), UNCHANGED <<task, loaded>>,
             label \in {"xml", "xml text", "register"} => p \in Users /\ Config(p) \in loaded,
             tmp' \in Paths => \E q \in Users : Opens(q, tmp') \in loaded
      PROVE  IInv'
  <2>1. at' \in [Procs -> Steps] /\ path' \in [Procs -> Paths \cup {None}]
    BY <1>1 DEF IInv, InstallInv, Goto
  <2>2. ASSUME NEW q \in Procs, at'[q] \in {"xml", "xml text", "register"}
        PROVE  q \in Users /\ Config(q)' \in loaded'
    BY <1>1, <2>2 DEF IInv, InstallInv, Goto, Config
  <2> QED BY <1>1, <2>1, <2>2 DEF IInv, InstallInv, TaskLoadable, Goto
<1>2. ASSUME tmp' = None, End(p) \/ Fail(p), UNCHANGED <<task, loaded>> PROVE IInv'
  <2>1. PICK label \in {"off", "waiting"} :
          at' = [at EXCEPT ![p] = label] /\ path' = [path EXCEPT ![p] = None]
    BY <1>2 DEF End, Fail
  <2>2. at' \in [Procs -> Steps] /\ path' \in [Procs -> Paths \cup {None}]
    BY <2>1 DEF IInv, InstallInv, Steps
  <2>3. ASSUME NEW q \in Procs, at'[q] \in {"xml", "xml text", "register"}
        PROVE  q \in Users /\ Config(q)' \in loaded'
    <3>1. at'[q] = at[q] /\ path'[q] = path[q]
      BY <2>1, <2>3 DEF IInv, InstallInv
    <3> QED BY <1>2, <2>3, <3>1 DEF IInv, InstallInv, Config
  <2>4. path'[Instance] \in Absolute => path'[Instance] \in loaded'
    BY <1>2, <2>1, <2>2 DEF IInv, InstallInv, TaskLoadable, Procs
  <2> QED BY <1>2, <2>2, <2>3, <2>4 DEF IInv, InstallInv, TaskLoadable
<1>3. CASE CreateXml(p)
  <2>1. CASE tmp' = "blank" /\ Goto(p, "xml text")
    BY <1>1, <1>3, <2>1 DEF CreateXml, IInv, InstallInv, Steps
  <2>2. CASE UNCHANGED tmp /\ Fail(p)
    BY <1>3, <2>2, EndsHere DEF CreateXml
  <2> QED BY <1>3, <2>1, <2>2 DEF CreateXml
<1>4. CASE WriteXml(p)
  <2>1. CASE tmp' = (IF tmp = None THEN None ELSE path[p]) /\ Goto(p, "register")
    <3>1. p \in Users /\ Config(p) \in loaded
      BY <1>4 DEF WriteXml, IInv, InstallInv
    <3> QED BY <1>1, <1>4, <2>1, <3>1 DEF WriteXml, Steps, Config
  <2>2. CASE UNCHANGED tmp /\ Fail(p)
    BY <1>4, <2>2, EndsHere DEF WriteXml
  <2> QED BY <1>4, <2>1, <2>2 DEF WriteXml
<1>5. CASE Register(p)
  BY <1>5 DEF Register, IInv, InstallInv, Steps, TaskLoadable, Procs, Config
<1>6. CASE Remove(p)
  <2>1. Goto(p, "start") \/ Fail(p)
    BY <1>6 DEF Remove
  <2> QED BY <1>1, <1>2, <1>6, <2>1 DEF Remove, Steps
<1>7. CASE Start(p)
  <2>1. CASE /\ at' = [at EXCEPT ![p] = "off", ![Instance] = "look"]
             /\ path' = [path EXCEPT ![p] = None, ![Instance] = task]
    <3> USE DEF IInv, InstallInv, Steps, TaskLoadable, Procs
    <3>1. at' \in [Procs -> Steps] /\ path' \in [Procs -> Paths \cup {None}]
      BY <2>1
    <3>2. path'[Instance] = task
      BY <2>1
    <3>3. ASSUME NEW q \in Procs, at'[q] \in {"xml", "xml text", "register"}
          PROVE  at'[q] = at[q] /\ path'[q] = path[q]
      BY <2>1, <3>3
    <3>4. \A q \in Procs : at'[q] \in {"xml", "xml text", "register"}
                               => q \in Users /\ Config(q)' \in loaded'
      BY <1>7, <3>3 DEF Start, Config
    <3>5. path'[Instance] \in Absolute => path'[Instance] \in loaded'
      BY <1>7, <3>2 DEF Start, Opens
    <3> QED BY <1>7, <3>1, <3>4, <3>5 DEF Start
  <2>2. CASE End(p)
    BY <1>7, <2>2, EndsHere DEF Start
  <2> QED BY <1>7, <2>1, <2>2 DEF Start
<1>8. CASE Uninstall
  BY <1>8 DEF Uninstall, IInv, InstallInv, Steps, TaskLoadable, Procs, Config
<1> QED BY <1>3, <1>4, <1>5, <1>6, <1>7, <1>8

\* The instance begins with the path of the task.
LEMMA InstanceBegins ==
  ASSUME IInv, Begin(Instance, task), UNCHANGED <<tmp, task, loaded>>
  PROVE  IInv'
<1> USE ServiceAssumption DEF IInv, InstallInv, Steps, TaskLoadable, Config
<1>1. Instance \in Procs
  BY DEF Procs
<1>2. at' = [at EXCEPT ![Instance] = "look"] /\ path' = [path EXCEPT ![Instance] = task]
  BY DEF Begin
<1>3. at' \in [Procs -> Steps]
  BY <1>2
<1>4. path' \in [Procs -> Paths \cup {None}]
  BY <1>2
<1>5. ASSUME NEW p \in Procs, at'[p] \in {"xml", "xml text", "register"}
      PROVE  p \in Users /\ Config(p)' \in loaded'
  <2>1. p # Instance
    BY <1>1, <1>2, <1>5
  <2>2. at'[p] = at[p] /\ path'[p] = path[p]
    BY <1>2, <1>5, <2>1
  <2> QED BY <1>5, <2>2
<1>6. path'[Instance] \in Absolute => path'[Instance] \in loaded'
  BY <1>1, <1>2 DEF Opens
<1> QED BY <1>3, <1>4, <1>5, <1>6

\* What the user and Task Scheduler do: an instance begins with the path of the
\* task, and a file may change, but not what was loaded.
LEMMA UserKeeps ==
  ASSUME IInv, (\E p \in Users : Enter(p) \/ Interrupt(p)) \/ Logoff \/ Logon \/ Retry \/ Edit
  PROVE  IInv'
<1> USE ServiceAssumption DEF IInv, InstallInv, Steps, TaskLoadable, Procs, scheduler, Config
<1>1. ASSUME NEW p \in Users, Enter(p) PROVE IInv'
  <2>1. PICK x \in Paths : Begin(p, x)
    BY <1>1 DEF Enter
  <2> QED BY <1>1, <2>1 DEF Enter, Begin
<1>2. ASSUME NEW p \in Users, Interrupt(p) PROVE IInv'
  BY <1>2 DEF Interrupt, End
<1>3. CASE Logoff
  <2>1. /\ at' \in [Procs -> Steps] /\ path' \in [Procs -> Paths \cup {None}]
        /\ \A p \in Procs : at'[p] = "off" /\ path'[p] = None
    BY <1>3 DEF Logoff
  <2> QED BY <1>3, <2>1 DEF Logoff
<1>4. CASE Logon
  <2>1. CASE task # None /\ retries' = Count /\ Begin(Instance, task)
    BY <1>4, <2>1, InstanceBegins DEF Logon
  <2>2. CASE task = None /\ UNCHANGED <<retries, at, path>>
    BY <1>4, <2>2 DEF Logon
  <2> QED BY <1>4, <2>1, <2>2 DEF Logon
<1>5. CASE Retry
  BY <1>5, InstanceBegins DEF Retry
<1>6. CASE Edit
  BY <1>6 DEF Edit
<1> QED BY <1>1, <1>2, <1>3, <1>4, <1>5, <1>6

\* Every step keeps it.
LEMMA NextIInv == IInv /\ [Next]_vars => IInv'
<1> SUFFICES ASSUME IInv, [Next]_vars PROVE IInv'
  OBVIOUS
<1>1. CASE UNCHANGED vars
  BY <1>1 DEF vars, IInv, InstallInv, TaskLoadable, Config
<1>2. ASSUME NEW p \in Procs, Runs(p) \/ AcceptFails(p) PROVE IInv'
  BY <1>2, LoadKeeps, InstallKeeps DEF Runs
<1>3. CASE (\E p \in Users : Enter(p) \/ Interrupt(p)) \/ Logoff \/ Logon \/ Retry \/ Edit
  BY <1>3, UserKeeps
<1>4. CASE Uninstall
  BY <1>4, InstallKeeps DEF Procs
<1> QED BY <1>1, <1>2, <1>3, <1>4 DEF Next, Step

\* The path of the registered task names a configuration that an install loaded
\* without an error, and an absolute path of the running instance is that of one
\* (main.rs, Install; service.rs, install).
THEOREM TasksLoad == Spec => []TaskLoadable
<1>1. IInv => TaskLoadable
  BY DEF IInv
<1> QED BY InitIInv, NextIInv, <1>1, PTL DEF Spec

-----------------------------------------------------------------------------
(* Whose task it is *)

\* An install that has ntgate-task.xml in hand after a step was in the same place
\* before it, or has created the file in it, or has written its path to it.
LEMMA Moves ==
  ASSUME IInv, Step, NEW p \in Users, InHand(at'[p])
  PROVE  \/ at'[p] = at[p] /\ path'[p] = path[p]
         \/ at'[p] = "xml text" /\ tmp' = "blank"
         \/ /\ at[p] = "xml text" /\ at'[p] = "register" /\ path'[p] = path[p]
            /\ tmp' = IF tmp = None THEN None ELSE path[p]
<1> USE ServiceAssumption DEF InHand, Procs
<1>1. at \in [Procs -> Steps] /\ path \in [Procs -> Paths \cup {None}] /\ p \in Procs
  BY DEF IInv, InstallInv
<1> DEFINE Stays == at'[p] = at[p] /\ path'[p] = path[p]
<1>2. ASSUME NEW q \in Procs, NEW label,
             at' = [at EXCEPT ![q] = label], path' = [path EXCEPT ![q] = path'[q]],
             ~InHand(label) \/ q = Instance
      PROVE  Stays
  BY <1>1, <1>2
<1>3. ASSUME NEW q \in Procs, End(q) \/ Fail(q) PROVE Stays
  BY <1>1, <1>3 DEF End, Fail
<1>4. ASSUME NEW q \in Procs, NEW label, Goto(q, label), ~InHand(label) PROVE Stays
  BY <1>1, <1>4 DEF Goto
<1>5. ASSUME NEW q \in Procs, NEW x, Begin(q, x) PROVE Stays
  BY <1>1, <1>5 DEF Begin
<1>6. ASSUME NEW q \in Procs,
             Look(q) \/ Create(q) \/ Load(q) \/ Bind(q) \/ Remove(q) \/ AcceptFails(q)
      PROVE  Stays
  <2>1. \/ End(q) \/ Fail(q)
        \/ \E label : Goto(q, label) /\ ~InHand(label)
    <3>1. Goto(q, IF file[Config(q)] = "none" THEN "create" ELSE "load")
             => Goto(q, "create") \/ Goto(q, "load")
      BY DEF Goto
    <3>2. ~InHand("create") /\ ~InHand("load") /\ ~InHand("bind") /\ ~InHand("serve")
          /\ ~InHand("xml") /\ ~InHand("start")
      OBVIOUS
    <3> HIDE DEF InHand
    <3> QED BY <1>6, <3>1, <3>2 DEF Look, Create, Load, Bind, Remove, AcceptFails
  <2> QED BY <1>3, <1>4, <2>1
<1>7. ASSUME NEW q \in Procs, CreateXml(q)
      PROVE  Stays \/ (at'[p] = "xml text" /\ tmp' = "blank")
  <2>1. CASE Fail(q)
    BY <1>3, <2>1
  <2>2. CASE tmp' = "blank" /\ Goto(q, "xml text")
    BY <1>1, <2>2 DEF Goto
  <2> QED BY <1>7, <2>1, <2>2 DEF CreateXml
<1>8. ASSUME NEW q \in Procs, WriteXml(q)
      PROVE  \/ Stays
             \/ /\ at[p] = "xml text" /\ at'[p] = "register" /\ path'[p] = path[p]
                /\ tmp' = IF tmp = None THEN None ELSE path[p]
  <2>1. CASE Fail(q)
    BY <1>3, <2>1
  <2>2. CASE tmp' = (IF tmp = None THEN None ELSE path[q]) /\ Goto(q, "register")
    <3>1. CASE q = p
      BY <1>1, <1>8, <2>2, <3>1 DEF Goto, WriteXml
    <3>2. CASE q # p
      BY <1>1, <2>2, <3>2 DEF Goto
    <3> QED BY <3>1, <3>2
  <2> QED BY <1>8, <2>1, <2>2 DEF WriteXml
<1>9. ASSUME NEW q \in Procs, Register(q) PROVE Stays
  BY <1>1, <1>9 DEF Register
<1>10. ASSUME NEW q \in Procs, Start(q) PROVE Stays
  <2>1. CASE End(q)
    BY <1>3, <2>1
  <2>2. CASE /\ at' = [at EXCEPT ![q] = "off", ![Instance] = "look"]
             /\ path' = [path EXCEPT ![q] = None, ![Instance] = task]
    BY <1>1, <2>2
  <2> QED BY <1>10, <2>1, <2>2 DEF Start
<1>11. CASE Uninstall
  BY <1>1, <1>11 DEF Uninstall
<1>12. CASE \E q \in Users : Enter(q) \/ Interrupt(q)
  BY <1>3, <1>5, <1>12 DEF Enter, Interrupt
<1>13. CASE Logoff
  BY <1>1, <1>13 DEF Logoff
<1>14. CASE Logon \/ Retry
  <2>1. Begin(Instance, task) \/ UNCHANGED <<at, path>>
    BY <1>14 DEF Logon, Retry
  <2> QED BY <1>5, <2>1
<1>15. CASE Edit
  BY <1>15 DEF Edit
<1> QED BY <1>6, <1>7, <1>8, <1>9, <1>10, <1>11, <1>12, <1>13, <1>14, <1>15 DEF Step, Runs

\* The file is as the install in hand has left it, if nobody has changed it since.
LEMMA NextOwnInv == IInv /\ OwnInv /\ [Next]_vars => OwnInv'
<1> SUFFICES ASSUME IInv, OwnInv, [Next]_vars PROVE OwnInv'
  OBVIOUS
<1>1. CASE UNCHANGED vars
  BY <1>1 DEF vars, OwnInv
<1>2. CASE Next
  <2> SUFFICES ASSUME NEW p \in Users, p \notin disturbed', InHand(at'[p])
               PROVE  /\ at'[p] = "xml text" => tmp' = "blank"
                      /\ at'[p] = "register" => tmp' = path'[p]
    BY DEF OwnInv, InHand
  <2>1. InHand(at[p]) => p \notin disturbed /\ (at'[p] = at[p] => tmp' = tmp)
    BY <1>2 DEF Next, Disturb
  <2>2. CASE at'[p] = at[p] /\ path'[p] = path[p]
    BY <2>1, <2>2 DEF OwnInv
  <2>3. CASE at'[p] = "xml text" /\ tmp' = "blank"
    BY <2>3
  <2>4. CASE /\ at[p] = "xml text" /\ at'[p] = "register" /\ path'[p] = path[p]
             /\ tmp' = IF tmp = None THEN None ELSE path[p]
    <3>1. tmp = "blank" /\ "blank" # None
      BY <2>1, <2>4, ServiceAssumption DEF OwnInv, InHand
    <3> QED BY <2>4, <3>1
  <2> QED BY <1>2, <2>2, <2>3, <2>4, Moves DEF Next
<1> QED BY <1>1, <1>2

\* Only its own Register takes an install on to the removal of the file.
LEMMA RegistersItself ==
  ASSUME IInv, Step, NEW p \in Users, at[p] = "register", at'[p] = "remove"
  PROVE  \E q \in Procs : Register(q) /\ at'[q] = "remove" /\ q = p
<1> USE ServiceAssumption DEF Procs
<1>1. at \in [Procs -> Steps] /\ p \in Procs
  BY DEF IInv, InstallInv
<1>2. ASSUME NEW q \in Procs, NEW label, at' = [at EXCEPT ![q] = label], label # "remove"
      PROVE  FALSE
  BY <1>1, <1>2
<1>3. ASSUME NEW q \in Procs, Runs(q) \/ AcceptFails(q), ~Register(q) PROVE FALSE
  <2>1. CASE Start(q)
    BY <1>1, <2>1 DEF Start, End
  <2>2. CASE ~Start(q)
    BY <1>2, <1>3, <2>2 DEF Runs, Look, Create, Load, Bind, CreateXml, WriteXml, Remove, AcceptFails,
          Goto, Fail, End
  <2> QED BY <2>1, <2>2
<1>4. ASSUME NEW q \in Procs, Register(q) PROVE q = p
  BY <1>1, <1>4 DEF Register
<1>5. ASSUME NEW q \in Users, Enter(q) \/ Interrupt(q) PROVE FALSE
  BY <1>1, <1>5 DEF Enter, Interrupt, Begin, End
<1>6. CASE Uninstall \/ Logoff \/ Logon \/ Retry \/ Edit
  BY <1>1, <1>6 DEF Uninstall, Logoff, Logon, Retry, Edit, Begin
<1> QED BY <1>3, <1>4, <1>5, <1>6 DEF Step

\* An install registers its own configuration unless another one has changed
\* ntgate-task.xml since it created it (service.rs, install).
THEOREM OwnTaskRegistered == Spec => OwnTask
<1> DEFINE Own == \A p \in Users : at[p] = "register" /\ at'[p] = "remove" /\ p \notin disturbed =>
                      task' = path[p]
<1>1. Init => OwnInv
  BY DEF Init, OwnInv, Procs
<1>2. IInv /\ OwnInv /\ [Next]_vars => [Own]_vars
  <2> SUFFICES ASSUME IInv, OwnInv, Next, NEW p \in Users,
                      at[p] = "register", at'[p] = "remove", p \notin disturbed
               PROVE  task' = path[p]
    OBVIOUS
  <2>1. tmp = path[p]
    BY DEF OwnInv
  <2>2. PICK q \in Procs : Register(q) /\ at'[q] = "remove" /\ q = p
    BY RegistersItself DEF Next
  <2>3. at \in [Procs -> Steps]
    BY DEF IInv, InstallInv
  <2> QED BY <2>1, <2>2, <2>3 DEF Register, Steps
<1> QED BY InitIInv, NextIInv, NextOwnInv, <1>1, <1>2, PTL DEF Spec, OwnTask
=============================================================================
