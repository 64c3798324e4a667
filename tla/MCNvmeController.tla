------------------------- MODULE MCNvmeController --------------------------
(***************************************************************************)
(* Model-checking instances of NvmeController: the host PDUs each run lets *)
(* the host send.  A capsule is a record with every field any handler      *)
(* reads; fields a command does not use keep their default.                *)
(***************************************************************************)
EXTENDS NvmeController, TLC

Defaults ==
  [op |-> "None", data |-> FALSE, nqn |-> "none", qid |-> 0, qsize |-> 0,
   cntlid |-> 0, sqflowOff |-> FALSE, prop |-> "none", val |-> 0,
   fid |-> "none", page |-> "none", cns |-> "none"]

\* A capsule with operation o, in-capsule data d and the fields in f.
Capsule(o, d, f) == f @@ [Defaults EXCEPT !.op = o, !.data = d]

ICReq == Capsule("ICReq", FALSE, <<>>)
TermReq == Capsule("H2CTermReq", FALSE, <<>>)

\* Connect of queue qid with SQSIZE qs to the target subsystem.
ConnectTarget(qid, qs, flowOff) ==
  Capsule("Connect", TRUE, [nqn |-> "target", qid |-> qid, qsize |-> qs,
                            cntlid |-> AutoCntlid, sqflowOff |-> flowOff])
ConnectUnknown ==
  Capsule("Connect", TRUE, [nqn |-> "unknown", qid |-> 1, cntlid |-> AutoCntlid])

\* PropertySet CC: enable (EN=1) and shutdown notification (SHN=01, EN=1).
SetEnable == Capsule("PropSet", FALSE, [prop |-> "CC", val |-> 1])
SetShutdown == Capsule("PropSet", FALSE, [prop |-> "CC", val |-> 16385])
GetStatus == Capsule("PropGet", FALSE, [prop |-> "CSTS"])
GetUnknownProp == Capsule("PropGet", FALSE, [prop |-> "other"])

IdentifyCtrl == Capsule("Identify", FALSE, [cns |-> "controller"])
LogPage == Capsule("GetLogPage", FALSE, [page |-> "discovery"])
SetNumQueues == Capsule("SetFeatures", FALSE, [fid |-> "NumQueues", val |-> 2])
GetKato == Capsule("GetFeatures", FALSE, [fid |-> "KATO"])
AER == Capsule("AER", FALSE, <<>>)
KeepAlive == Capsule("KeepAlive", FALSE, <<>>)

Read == Capsule("Read", FALSE, <<>>)
ReadWithData == Capsule("Read", TRUE, <<>>)
Write == Capsule("Write", TRUE, <<>>)
WriteR2T == Capsule("Write", FALSE, <<>>)
Flush == Capsule("Flush", FALSE, <<>>)
DSM == Capsule("DSM", FALSE, <<>>)

\* Admin capsules: initialization, the enable handshake, the admin
\* commands, a connect to an unknown subsystem, and one fatal register.
AdminPdus ==
  {ICReq, TermReq, ConnectTarget(0, 1, FALSE), ConnectUnknown, SetEnable,
   SetShutdown, GetStatus, GetUnknownProp, IdentifyCtrl, LogPage,
   SetNumQueues, GetKato, AER, KeepAlive}

\* IO capsules: connect an IO queue (also with SQ flow control disabled),
\* then IO commands, including a write whose data would need an R2T.
IoPdus ==
  {ConnectTarget(1, 1, FALSE), ConnectTarget(1, 1, TRUE), Read, Write,
   WriteR2T, Flush, DSM, TermReq}

\* The session run: the host may send any admin or IO capsule, in any
\* order, on the same connection.
SessionPdus == AdminPdus \cup IoPdus

\* The capsules of a normal session.  Some orders of them (IO before the
\* Connect, a second Connect on an IO queue) still reach tracer.Fatal.
LivenessPdus ==
  {ConnectTarget(0, 1, FALSE), ConnectTarget(1, 1, FALSE), ConnectUnknown,
   SetEnable, GetStatus, IdentifyCtrl, AER, Read, Write, Flush, TermReq}

\* An admin connection that reads controller data (Identify returns a data
\* PDU before its response).
IdentifyPdus == {ConnectTarget(0, 1, FALSE), IdentifyCtrl}

\* Only keep-alives: SQHD advances with every capsule.
KeepAlivePdus == {KeepAlive}

\* An IO queue connect to a subsystem the server does not have, then IO.
UnknownThenIoPdus == {ConnectUnknown, Flush}

\* An IO queue where the host sends a Read carrying in-capsule data.
ReadWithDataPdus == {ConnectTarget(1, 1, FALSE), ReadWithData}

====
