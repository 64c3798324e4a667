----------------------------- MODULE NvmeServer -----------------------------
(***************************************************************************)
(* The server-wide registry of go-nvme (src/server.go): the subsystem map  *)
(* and the session map, both guarded by Server.Lock, as used by            *)
(*  - one startController goroutine per accepted connection, which         *)
(*    registers its session, serves the connection, and unregisters;       *)
(*  - the Connect handler of each controller, which looks the subsystem up *)
(*    under the lock and then binds it to the controller without the lock;*)
(*  - the management API, which adds subsystems and removes them:          *)
(*    RemoveSubSystem closes, under the lock, every controller bound to    *)
(*    the subsystem and waits for it to finish (Controller.Close), which  *)
(*    never happens if the close cut a capsule in two;                    *)
(*  - Server.Close, which stops accepting and waits for every session.     *)
(* A controller's own traffic is modelled in NvmeController; here a        *)
(* session is reduced to what the registry sees of it.                     *)
(***************************************************************************)
EXTENDS Naturals, FiniteSets

CONSTANTS
  Conns,           \* connections the listener may accept
  NQNs,            \* target subsystem names
  MaxAdminOps,     \* AddSubSystem/RemoveSubSystem calls the API makes
  HostReconnects   \* may a host send Connect again on a bound connection?

ASSUME /\ MaxAdminOps \in Nat
       /\ HostReconnects \in BOOLEAN

Init_ == "init"      \* c.Subsystem = &InitSubsystem{} from startController
NoNqn == "none"      \* GetSubSystem returned nil

VARIABLES
  subsystems,   \* s.SubSystems: the NQNs registered (discovery left out)
  sessions,     \* s.SessionInfo: the connections registered
  lock,         \* Server.Lock: "free", or "admin" while RemoveSubSystem holds it
  connPc,       \* per connection: "none", "register", "serve", "lookup",
                \* "bind", "unregister", "done"
  want,         \* per connection: NQN of the Connect being handled
  found,        \* per connection: what GetSubSystem returned
  sub,          \* per connection: c.Subsystem
  open,         \* per connection: the TCP connection is open
  adminPc,      \* "idle", "scan", "closing"
  adminOps,     \* API calls made
  removing,     \* NQN RemoveSubSystem is removing
  toVisit,      \* sessions the range over s.SessionInfo has not visited yet
  closingConn,  \* session whose Ctrl.Close RemoveSubSystem is waiting on
  serverPc      \* "serving", "closing" (Close waits on s.wg), "closed"

connVars == <<connPc, want, found, sub, open>>
adminVars == <<adminPc, adminOps, removing, toVisit, closingConn>>
vars == <<subsystems, sessions, lock, connVars, adminVars, serverPc>>

-----------------------------------------------------------------------------

Init ==
  /\ subsystems = {}
  /\ sessions = {}
  /\ lock = "free"
  /\ connPc = [c \in Conns |-> "none"]
  /\ want = [c \in Conns |-> NoNqn]
  /\ found = [c \in Conns |-> NoNqn]
  /\ sub = [c \in Conns |-> Init_]
  /\ open = [c \in Conns |-> FALSE]
  /\ adminPc = "idle"
  /\ adminOps = 0
  /\ removing = NoNqn
  /\ toVisit = {}
  /\ closingConn = NoNqn
  /\ serverPc = "serving"

-----------------------------------------------------------------------------
(* Server.Serve and startController.                                       *)

\* Accept returns a connection; startController builds its controller.
Accept(c) ==
  /\ serverPc = "serving"
  /\ connPc[c] = "none"
  /\ connPc' = [connPc EXCEPT ![c] = "register"]
  /\ open' = [open EXCEPT ![c] = TRUE]
  /\ UNCHANGED <<subsystems, sessions, lock, want, found, sub, adminVars,
                 serverPc>>

\* s.RegisterSession(sessionId, &ctrl)
RegisterSession(c) ==
  /\ connPc[c] = "register"
  /\ lock = "free"
  /\ sessions' = sessions \cup {c}
  /\ connPc' = [connPc EXCEPT ![c] = "serve"]
  /\ UNCHANGED <<subsystems, lock, want, found, sub, open, adminVars,
                 serverPc>>

\* The host sends a Connect capsule for NQN n.
HostConnect(c) ==
  /\ connPc[c] = "serve"
  /\ open[c]
  /\ sub[c] = Init_ \/ HostReconnects
  /\ \E n \in NQNs : want' = [want EXCEPT ![c] = n]
  /\ connPc' = [connPc EXCEPT ![c] = "lookup"]
  /\ UNCHANGED <<subsystems, sessions, lock, found, sub, open, adminVars,
                 serverPc>>

\* c.Server.GetSubSystem(c.ConnectedSubNQN)
GetSubSystem(c) ==
  /\ connPc[c] = "lookup"
  /\ lock = "free"
  /\ found' = [found EXCEPT ![c] =
                 IF want[c] \in subsystems THEN want[c] ELSE NoNqn]
  /\ connPc' = [connPc EXCEPT ![c] = "bind"]
  /\ UNCHANGED <<subsystems, sessions, lock, want, sub, open, adminVars,
                 serverPc>>

\* c.Subsystem = subsys, without the lock; nil answers NamespaceNotReady.
BindSubsystem(c) ==
  /\ connPc[c] = "bind"
  /\ sub' = [sub EXCEPT ![c] = IF found[c] = NoNqn THEN @ ELSE found[c]]
  /\ connPc' = [connPc EXCEPT ![c] = "serve"]
  /\ UNCHANGED <<subsystems, sessions, lock, want, found, open, adminVars,
                 serverPc>>

\* The host closes the connection.
HostDisconnect(c) ==
  /\ open[c]
  /\ open' = [open EXCEPT ![c] = FALSE]
  /\ UNCHANGED <<subsystems, sessions, lock, connPc, want, found, sub,
                 adminVars, serverPc>>

\* ctrl.Serve(conn) returns: the read of a PDU header fails on the closed
\* connection, the slots drain and both wg.Done calls have run
\* (Controller.Close returns).
ServeExit(c) ==
  /\ connPc[c] = "serve"
  /\ ~open[c]
  /\ connPc' = [connPc EXCEPT ![c] = "unregister"]
  /\ UNCHANGED <<subsystems, sessions, lock, want, found, sub, open,
                 adminVars, serverPc>>

\* The close lands between a capsule's header and its body: Receive fails
\* and HandleCapsule returns holding its slot, so the deferred range over
\* c.waiting never counts cap(c.waiting) and Serve never returns.  The
\* close may be the host's or Controller.Close's own conn.Close.
ServeHang(c) ==
  /\ connPc[c] = "serve"
  /\ ~open[c]
  /\ connPc' = [connPc EXCEPT ![c] = "hung"]
  /\ UNCHANGED <<subsystems, sessions, lock, want, found, sub, open,
                 adminVars, serverPc>>

\* Mutant: UnRegisterSession deletes from the map without the lock.
UnRegisterSessionNoLock(c) ==
  /\ connPc[c] = "unregister"
  /\ sessions' = sessions \ {c}
  /\ connPc' = [connPc EXCEPT ![c] = "done"]
  /\ UNCHANGED <<subsystems, lock, want, found, sub, open, adminVars,
                 serverPc>>

\* The deferred s.UnRegisterSession(sessionId), then s.wg.Done().
UnRegisterSession(c) ==
  /\ connPc[c] = "unregister"
  /\ lock = "free"
  /\ sessions' = sessions \ {c}
  /\ connPc' = [connPc EXCEPT ![c] = "done"]
  /\ UNCHANGED <<subsystems, lock, want, found, sub, open, adminVars,
                 serverPc>>

\* Server.Close: close(s.quit); s.listen.Close()
ServerClose ==
  /\ serverPc = "serving"
  /\ serverPc' = "closing"
  /\ UNCHANGED <<subsystems, sessions, lock, connVars, adminVars>>

\* s.wg.Wait() returns once every startController goroutine has returned.
ServerClosed ==
  /\ serverPc = "closing"
  /\ \A c \in Conns : connPc[c] \in {"none", "done"}
  /\ serverPc' = "closed"
  /\ UNCHANGED <<subsystems, sessions, lock, connVars, adminVars>>

-----------------------------------------------------------------------------
(* The management API (AddSubSystem, RemoveSubSystem).                     *)

\* s.AddSubSystem(subsys): s.SubSystems[nqn] = subsys under the lock.
AddSubSystem(n) ==
  /\ adminPc = "idle"
  /\ adminOps < MaxAdminOps
  /\ lock = "free"
  /\ subsystems' = subsystems \cup {n}
  /\ adminOps' = adminOps + 1
  /\ UNCHANGED <<sessions, lock, connVars, adminPc, removing, toVisit,
                 closingConn, serverPc>>

\* RemoveSubSystem: take the lock; an unknown NQN returns an error at once,
\* otherwise delete it and range over s.SessionInfo.
RemoveSubSystem(n) ==
  /\ adminPc = "idle"
  /\ adminOps < MaxAdminOps
  /\ lock = "free"
  /\ adminOps' = adminOps + 1
  /\ IF n \in subsystems
     THEN /\ subsystems' = subsystems \ {n}
          /\ lock' = "admin"
          /\ removing' = n
          /\ toVisit' = sessions
          /\ adminPc' = "scan"
     ELSE UNCHANGED <<subsystems, lock, removing, toVisit, adminPc>>
  /\ UNCHANGED <<sessions, connVars, closingConn, serverPc>>

\* One iteration of the range: a session bound to the subsystem is closed,
\* which closes its connection and blocks in c.wg.Wait().
RemoveVisit ==
  /\ adminPc = "scan"
  /\ \E c \in toVisit :
       /\ toVisit' = toVisit \ {c}
       /\ IF sub[c] = removing
          THEN /\ open' = [open EXCEPT ![c] = FALSE]
               /\ closingConn' = c
               /\ adminPc' = "closing"
          ELSE UNCHANGED <<open, closingConn, adminPc>>
  /\ UNCHANGED <<subsystems, sessions, lock, connPc, want, found, sub,
                 adminOps, removing, serverPc>>

\* Controller.Close returns once that controller's Serve has finished.
RemoveCloseDone ==
  /\ adminPc = "closing"
  /\ connPc[closingConn] \in {"unregister", "done"}
  /\ closingConn' = NoNqn
  /\ adminPc' = "scan"
  /\ UNCHANGED <<subsystems, sessions, lock, connVars, adminOps, removing,
                 toVisit, serverPc>>

\* The range ends and the deferred Unlock runs.
RemoveReturn ==
  /\ adminPc = "scan"
  /\ toVisit = {}
  /\ lock' = "free"
  /\ removing' = NoNqn
  /\ adminPc' = "idle"
  /\ UNCHANGED <<subsystems, sessions, connVars, adminOps, toVisit,
                 closingConn, serverPc>>

-----------------------------------------------------------------------------
(* The specification.                                                      *)

\* Every goroutine has returned and the API makes no more calls.
Terminated ==
  /\ serverPc = "closed"
  /\ adminPc = "idle"
  /\ adminOps = MaxAdminOps
  /\ UNCHANGED vars

\* The steps the server itself takes for connection c.
Session(c) ==
  \/ RegisterSession(c) \/ GetSubSystem(c) \/ BindSubsystem(c)
  \/ ServeExit(c) \/ ServeHang(c) \/ UnRegisterSession(c)

Admin == RemoveVisit \/ RemoveCloseDone \/ RemoveReturn

Next ==
  \/ \E c \in Conns :
       Accept(c) \/ Session(c) \/ HostConnect(c) \/ HostDisconnect(c)
  \/ \E n \in NQNs : AddSubSystem(n) \/ RemoveSubSystem(n)
  \/ Admin
  \/ ServerClose \/ ServerClosed
  \/ Terminated

\* Each goroutine runs when it is not blocked.  Hosts and the API caller are
\* not obliged to act: a host may keep its connection open forever.
Fairness ==
  /\ \A c \in Conns : WF_vars(Session(c))
  /\ WF_vars(Admin)
  /\ WF_vars(ServerClosed)

Spec == Init /\ [][Next]_vars /\ Fairness

-----------------------------------------------------------------------------
(* Properties.                                                             *)

\* Every variable keeps its type.
TypeOK ==
  /\ subsystems \subseteq NQNs
  /\ sessions \subseteq Conns
  /\ lock \in {"free", "admin"}
  /\ connPc \in [Conns -> {"none", "register", "serve", "lookup", "bind",
                            "hung", "unregister", "done"}]
  /\ sub \in [Conns -> NQNs \cup {Init_}]
  /\ adminPc \in {"idle", "scan", "closing"}
  /\ adminOps \in 0..MaxAdminOps
  /\ toVisit \subseteq sessions

\* Once RemoveSubSystem has returned, no live session is still bound to a
\* subsystem that is no longer registered: every controller of the removed
\* subsystem was closed.
RemovedIsUnbound ==
  adminPc = "idle" =>
    \A c \in Conns :
      connPc[c] \in {"serve", "lookup", "bind"} /\ sub[c] # Init_
        => sub[c] \in subsystems

====
