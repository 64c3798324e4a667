-------------------------------- MODULE Nvmed --------------------------------
(***************************************************************************)
(* The nvmed daemon (src/cmd/nvmed/main.go) composed with the server       *)
(* registry it drives (NvmeServer):                                        *)
(*  - the volume API: one net/http handler goroutine per CreateVolume and  *)
(*    DeleteVolume request, calling Server.AddSubSystem,                   *)
(*    Server.ListSubSystems and Server.RemoveSubSystem;                    *)
(*  - the files a volume leaves in ./data: the image <id>.raw and its      *)
(*    state file <id>.raw.json;                                            *)
(*  - a process restart, after which main's startup loop registers every   *)
(*    volume whose .json parses and whose image opens.                     *)
(* A volume is named by its NQN, nqn.2014-08.com.thirdmartini:uuid:<id>;   *)
(* uuid.New gives every CreateVolume request its own id, so each element   *)
(* of NQNs is the volume of at most one CreateVolume handler.  The         *)
(* subsystems of targets.yaml are left out: none is a volume.              *)
(***************************************************************************)
EXTENDS NvmeServer

CONSTANTS
  Dels,          \* DeleteVolume requests the API receives
  MaxRestarts    \* process restarts

ASSUME MaxRestarts \in Nat

NoVol == "novol"

VARIABLES
  img,        \* img[v]: data/<id>.raw is "absent", "created" (empty) or "sized"
  meta,       \* meta[v]: data/<id>.raw.json is "absent", "torn" or "ok"
  createPc,   \* createPc[v]: CreateVolume's next step, or "none"/"done"
  answer,     \* answer[v]: what the client was told: "none", "created", "failed"
  delPc,      \* delPc[d]: "none", "remove", "assert", "done"
  delVol,     \* delVol[d]: the volume DeleteVolume d matched in the list
  deleted,    \* volumes a DeleteVolume removed from the registry
  skipped,    \* volumes the last startup found on disk but could not open
  restarts

volVars == <<img, meta, createPc, answer, delPc, delVol, deleted, skipped,
             restarts>>
nvmedVars == <<vars, volVars>>

CreateSteps == {"truncate", "json", "open", "register"}

-----------------------------------------------------------------------------

NvmedInit ==
  /\ Init
  /\ img = [v \in NQNs |-> "absent"]
  /\ meta = [v \in NQNs |-> "absent"]
  /\ createPc = [v \in NQNs |-> "none"]
  /\ answer = [v \in NQNs |-> "none"]
  /\ delPc = [d \in Dels |-> "none"]
  /\ delVol = [d \in Dels |-> NoVol]
  /\ deleted = {}
  /\ skipped = {}
  /\ restarts = 0

-----------------------------------------------------------------------------
(* CreateVolume: every failing step answers 400 and returns, leaving the   *)
(* files of the steps before it in ./data.                                 *)

Fail(v) ==
  /\ answer' = [answer EXCEPT ![v] = "failed"]
  /\ createPc' = [createPc EXCEPT ![v] = "done"]

Goto(v, step) == createPc' = [createPc EXCEPT ![v] = step]

\* The request decodes and os.Create(raw) makes the empty image, or fails.
CreateImage(v) ==
  /\ createPc[v] = "none"
  /\ \/ /\ img' = [img EXCEPT ![v] = "created"]
        /\ Goto(v, "truncate")
        /\ UNCHANGED answer
     \/ /\ Fail(v)
        /\ UNCHANGED img
  /\ UNCHANGED <<vars, meta, delPc, delVol, deleted, skipped, restarts>>

\* os.Truncate(raw, Size).
TruncateImage(v) ==
  /\ createPc[v] = "truncate"
  /\ \/ /\ img' = [img EXCEPT ![v] = "sized"]
        /\ Goto(v, "json")
        /\ UNCHANGED answer
     \/ /\ Fail(v)
        /\ UNCHANGED img
  /\ UNCHANGED <<vars, meta, delPc, delVol, deleted, skipped, restarts>>

\* Mutant: the error of os.WriteFile is not checked.
WriteMetaUnchecked(v) ==
  /\ createPc[v] = "json"
  /\ \E m \in {"ok", "absent", "torn"} : meta' = [meta EXCEPT ![v] = m]
  /\ Goto(v, "open")
  /\ UNCHANGED <<vars, img, answer, delPc, delVol, deleted, skipped, restarts>>

\* json.Marshal, then os.WriteFile(raw.json): WriteFile creates and
\* truncates the file before it writes, so a failed write may leave nothing
\* or a file that does not parse.
WriteMeta(v) ==
  /\ createPc[v] = "json"
  /\ \/ /\ meta' = [meta EXCEPT ![v] = "ok"]
        /\ Goto(v, "open")
        /\ UNCHANGED answer
     \/ /\ \E m \in {"absent", "torn"} : meta' = [meta EXCEPT ![v] = m]
        /\ Fail(v)
  /\ UNCHANGED <<vars, img, delPc, delVol, deleted, skipped, restarts>>

\* targets.New("file") opens the image (FILECreateTarget), and Start.
OpenTarget(v) ==
  /\ createPc[v] = "open"
  /\ \/ /\ Goto(v, "register")
        /\ UNCHANGED answer
     \/ Fail(v)
  /\ UNCHANGED <<vars, img, meta, delPc, delVol, deleted, skipped, restarts>>

\* s.AddSubSystem(subsys), then respond with the volume.
Register(v) ==
  /\ createPc[v] = "register"
  /\ AddSubSystem(v)
  /\ answer' = [answer EXCEPT ![v] = "created"]
  /\ Goto(v, "done")
  /\ UNCHANGED <<img, meta, delPc, delVol, deleted, skipped, restarts>>

\* The steps of a CreateVolume handler that has started.
CreateRunning(v) ==
  TruncateImage(v) \/ WriteMeta(v) \/ OpenTarget(v) \/ Register(v)

-----------------------------------------------------------------------------
(* DeleteVolume: find the volume in s.ListSubSystems(), remove it, then    *)
(* assert that subSys.Target is a *targets.FileTarget.  targets.New("file")*)
(* returns a *WorkQueue, so the assertion panics; net/http recovers the    *)
(* handler's panic.  The target is never closed and no file is removed.    *)

\* The request decodes; ListSubSystems copies the registry under the lock
\* and the loop looks for the requested UUID: "does not exist" otherwise.
DeleteList(d) ==
  /\ delPc[d] = "none"
  /\ lock = "free"
  /\ \E v \in NQNs :
       IF v \in subsystems
       THEN /\ delVol' = [delVol EXCEPT ![d] = v]
            /\ delPc' = [delPc EXCEPT ![d] = "remove"]
       ELSE /\ delPc' = [delPc EXCEPT ![d] = "done"]
            /\ UNCHANGED delVol
  /\ UNCHANGED <<vars, img, meta, createPc, answer, deleted, skipped,
                 restarts>>

\* s.RemoveSubSystem(nqn); its error (another request removed it since the
\* list was taken) answers 400.
DeleteRemove(d) ==
  /\ delPc[d] = "remove"
  /\ RemoveSubSystem(delVol[d])
  /\ IF delVol[d] \in subsystems
     THEN /\ deleted' = deleted \cup {delVol[d]}
          /\ delPc' = [delPc EXCEPT ![d] = "assert"]
     ELSE /\ delPc' = [delPc EXCEPT ![d] = "done"]
          /\ UNCHANGED deleted
  /\ UNCHANGED <<img, meta, createPc, answer, delVol, skipped, restarts>>

\* RemoveSubSystem has returned; the type assertion panics.
DeletePanic(d) ==
  /\ delPc[d] = "assert"
  /\ adminPc = "idle"
  /\ delPc' = [delPc EXCEPT ![d] = "done"]
  /\ UNCHANGED <<vars, img, meta, createPc, answer, delVol, deleted, skipped,
                 restarts>>

DeleteRunning(d) == DeleteRemove(d) \/ DeletePanic(d)

-----------------------------------------------------------------------------
(* A restart: the process exits (every goroutine and connection is gone,   *)
(* the files stay) and main runs again.  Nothing is served before the      *)
(* startup loop has finished, so exit and startup are one step.            *)

\* The volumes the startup loop finds: a .json that parses, naming an image
\* that exists.
OnDisk == {v \in NQNs : meta[v] = "ok" /\ img[v] # "absent"}

\* Mutant: the startup does not reload ./data.
RestartNoReload ==
  /\ restarts < MaxRestarts
  /\ restarts' = restarts + 1
  /\ subsystems' = {}
  /\ skipped' = {}
  /\ sessions' = {} /\ lock' = "free" /\ serverPc' = "serving"
  /\ connPc' = [c \in Conns |-> "none"] /\ want' = [c \in Conns |-> NoNqn]
  /\ found' = [c \in Conns |-> NoNqn] /\ sub' = [c \in Conns |-> Init_]
  /\ open' = [c \in Conns |-> FALSE]
  /\ adminPc' = "idle" /\ removing' = NoNqn /\ toVisit' = {}
  /\ closingConn' = NoNqn
  /\ createPc' = [v \in NQNs |-> IF createPc[v] = "none" THEN "none" ELSE "done"]
  /\ delPc' = [d \in Dels |-> IF delPc[d] = "none" THEN "none" ELSE "done"]
  /\ UNCHANGED <<adminOps, img, meta, answer, delVol, deleted>>

\* os.ReadDir("./data"): each volume of OnDisk is registered unless
\* targets.New fails to open its image, and the loop continues.
Restart ==
  /\ restarts < MaxRestarts
  /\ restarts' = restarts + 1
  /\ \E skip \in SUBSET OnDisk :
       /\ subsystems' = OnDisk \ skip
       /\ skipped' = skip
  /\ sessions' = {} /\ lock' = "free" /\ serverPc' = "serving"
  /\ connPc' = [c \in Conns |-> "none"] /\ want' = [c \in Conns |-> NoNqn]
  /\ found' = [c \in Conns |-> NoNqn] /\ sub' = [c \in Conns |-> Init_]
  /\ open' = [c \in Conns |-> FALSE]
  /\ adminPc' = "idle" /\ removing' = NoNqn /\ toVisit' = {}
  /\ closingConn' = NoNqn
  /\ createPc' = [v \in NQNs |-> IF createPc[v] = "none" THEN "none" ELSE "done"]
  /\ delPc' = [d \in Dels |-> IF delPc[d] = "none" THEN "none" ELSE "done"]
  /\ UNCHANGED <<adminOps, img, meta, answer, delVol, deleted>>

-----------------------------------------------------------------------------
(* The specification.                                                      *)

\* Every request has been handled and every connection has ended: the
\* daemon waits in Accept and in the HTTP listener.
Waiting ==
  /\ \A v \in NQNs : createPc[v] = "done"
  /\ \A d \in Dels : delPc[d] = "done"
  /\ adminPc = "idle"
  /\ \A c \in Conns : connPc[c] \in {"none", "done"}
  /\ UNCHANGED nvmedVars

\* What the server does on its own, as in NvmeServer; nvmed never calls
\* Server.Close.
ServerStep ==
  /\ \/ \E c \in Conns :
          Accept(c) \/ Session(c) \/ HostConnect(c) \/ HostDisconnect(c)
     \/ Admin
  /\ UNCHANGED volVars

NvmedNext ==
  \/ ServerStep
  \/ \E v \in NQNs : CreateImage(v) \/ CreateRunning(v)
  \/ \E d \in Dels : DeleteList(d) \/ DeleteRunning(d)
  \/ Restart
  \/ Waiting

\* Server goroutines and started handlers run when not blocked; clients are
\* not obliged to send requests and the process is not obliged to restart.
NvmedFairness ==
  /\ \A c \in Conns : WF_nvmedVars(Session(c) /\ UNCHANGED volVars)
  /\ WF_nvmedVars(Admin /\ UNCHANGED volVars)
  /\ \A v \in NQNs : WF_nvmedVars(CreateRunning(v))
  /\ \A d \in Dels : WF_nvmedVars(DeleteRunning(d))

NvmedSpec == NvmedInit /\ [][NvmedNext]_nvmedVars /\ NvmedFairness

-----------------------------------------------------------------------------
(* Properties.                                                             *)

\* Every variable keeps its type.
NvmedTypeOK ==
  /\ TypeOK
  /\ img \in [NQNs -> {"absent", "created", "sized"}]
  /\ meta \in [NQNs -> {"absent", "torn", "ok"}]
  /\ createPc \in [NQNs -> CreateSteps \cup {"none", "done"}]
  /\ answer \in [NQNs -> {"none", "created", "failed"}]
  /\ delPc \in [Dels -> {"none", "remove", "assert", "done"}]
  /\ deleted \subseteq NQNs /\ skipped \subseteq NQNs
  /\ restarts \in 0..MaxRestarts

\* A registered volume is one the next startup can bring back: its image is
\* sized and its .json parses, whatever failed and whenever the process
\* exited during CreateVolume, and after any number of restarts.
RegisteredIsDurable ==
  \A v \in subsystems : meta[v] = "ok" /\ img[v] = "sized"

\* A volume CreateVolume answered is registered from then on, across
\* restarts, until a DeleteVolume removes it, unless the last startup
\* could not open its image.
AnsweredIsServed ==
  \A v \in NQNs :
    answer[v] = "created" /\ v \notin deleted /\ v \notin skipped
      => v \in subsystems

====
