--------------------------- MODULE ControlProofs ---------------------------
(***************************************************************************)
(* Proofs about Control, for any configurations and logs, wherever the     *)
(* process is started and wherever it ends.                                *)
(***************************************************************************)
EXTENDS Control, SequenceTheorems, TLAPS

-----------------------------------------------------------------------------
(* What is true between any two steps *)

\* The locals of the requests, and what a new process begins with.
Steps ==
  /\ pc \in {"scfgWrites", "scfgReads"} => asked \in Configs /\ acked.is = "missing"
  /\ pc = "scfgReads" => touched /\ reread
  /\ pc = "header" => logFile \in LogNames /\ csv[logFile] = <<>> /\ logFile \notin headless
  /\ pc = "down" => conf = Defaults /\ logFile = None /\ logAsked = None

\* c comes from one configuration that was submitted, or from none.
Submitted(c) ==
  \E d \in Configs \cup {Defaults} :
    /\ c.type = d.type /\ c.mask = d.mask
    /\ c.com = d.com \/ (SameDir /\ c.com = None)
Origins ==
  /\ Submitted(conf)
  /\ file["app"].is = "whole" => Submitted(file["app"].conf)
  /\ pc = "saveWrites" /\ SameDir => Submitted(asked)

\* Until an scfg, the worker that begins finds what Restart read.
SameKeys(c, d) == c.type = d.type /\ c.com = d.com /\ c.mask = d.mask
Beginning ==
  ~touched /\ wanted.is = "whole" =>
    /\ worker \in {"creating", "opening"} => SameKeys(conf, wanted.conf)
    /\ worker \in {"opening", "open"} => port.type = wanted.conf.type
    /\ worker = "open" /\ port.type = "CAN_USB_M" =>
         port.com = wanted.conf.com /\ port.mask = wanted.conf.mask

\* Packets go to logs that have a header or never will.
Headed ==
  logFile # None /\ pc # "header" => csv[logFile] # <<>> \/ logFile \in headless

ControlInductive ==
  /\ TypeOK /\ Steps /\ Origins /\ Beginning
  /\ LogAsAsked /\ Headed /\ HeaderFirst

-----------------------------------------------------------------------------
LEMMA ConfigTypes ==
  /\ Defaults \in Config /\ NoKeys \in Config /\ Configs \subseteq Config
  /\ \A what \in {"missing", "empty", "part"} : Unusable(what) \in File
  /\ \A c \in Config : Whole(c) \in File /\ Saved(c) \in Config
  /\ Cwd \in Dirs /\ "app" \in Dirs
BY ConfigsAssumption, BoundsAssumption
   DEF Config, Defaults, NoKeys, Types, Unusable, Whole, File, Saved, Cwd, Dirs

LEMMA ReadTypes == ASSUME TypeOK PROVE AfterRead(conf) \in Config
BY DEF TypeOK, AfterRead, File, Dirs

LEMMA InitInductive == Init => ControlInductive
<1>. SUFFICES ASSUME Init PROVE ControlInductive
  OBVIOUS
<1>1. file \in [Dirs -> File] /\ (file["app"].is = "whole" => file["app"].conf \in Configs)
  <2>1. PICK f \in {Unusable("missing")} \cup {Whole(c) : c \in Configs} :
          file = [d \in Dirs |-> IF d = "app" THEN f ELSE Unusable("missing")]
    BY DEF Init
  <2>2. f \in File /\ (f.is = "whole" => f.conf \in Configs)
    BY ConfigTypes DEF Unusable, Whole
  <2>. QED
    BY <2>1, <2>2, ConfigTypes DEF Dirs
<1>2. TypeOK
  <2>1. /\ csv \in [LogNames -> Seq({"header", "packet"})]
        /\ \A n \in LogNames : Len(csv[n]) <= MaxLines
    BY BoundsAssumption DEF Init
  <2>2. acked \in File /\ wanted \in File /\ conf \in Config /\ asked \in Config /\ port \in Config
    BY ConfigTypes DEF Init
  <2>. QED
    BY <1>1, <2>1, <2>2 DEF Init, TypeOK
<1>3. Steps /\ LogAsAsked /\ Headed
  BY DEF Init, Steps, LogAsAsked, Headed
<1>4. Submitted(Defaults) /\ \A c \in Configs : Submitted(c)
  BY DEF Submitted
<1>5. Origins
  BY <1>1, <1>4 DEF Init, Origins
<1>6. Beginning
  BY DEF Init, Beginning, Unusable
<1>7. HeaderFirst
  BY DEF Init, HeaderFirst
<1>. QED
  BY <1>2, <1>3, <1>5, <1>6, <1>7 DEF ControlInductive

-----------------------------------------------------------------------------
(* Type correctness *)
LEMMA TypeKept == ASSUME TypeOK, Steps, Next PROVE TypeOK'
<1>. USE DEF TypeOK
<1>1. CASE Start
  BY <1>1, ReadTypes, ConfigTypes DEF Start, Restart, logVars, Config, Dirs
<1>2. CASE Crash
  BY <1>2, ConfigTypes DEF Crash, Steps, confVars, logVars
<1>3. CASE Creates \/ Opens
  <2>1. port' \in Config
    <3>1. CASE Creates
      BY <3>1 DEF Creates, Config
    <3>2. CASE Opens
      <4>1. PICK c, m \in Config :
              port' = IF port.type = "CAN_HAT" THEN port
                      ELSE [port EXCEPT !.com = c.com, !.mask = m.mask]
        BY <3>2 DEF Opens
      <4>. QED
        BY <4>1 DEF Config
    <3>. QED
      BY <1>3, <3>1, <3>2
  <2>2. worker' \in {"none", "creating", "opening", "open", "failed"}
    BY <1>3 DEF Creates, Opens
  <2>3. UNCHANGED <<reqVars, confVars, logVars, wanted, acked, touched, reread>>
    BY <1>3 DEF Creates, Opens
  <2>. QED
    BY <2>1, <2>2, <2>3 DEF reqVars, confVars, logVars
<1>4. CASE Report
  <2>1. logFile \in LogNames /\ csv[logFile] \in Seq({"header", "packet"})
    BY <1>4 DEF Report
  <2>2. /\ Append(csv[logFile], "packet") \in Seq({"header", "packet"})
        /\ Len(Append(csv[logFile], "packet")) = Len(csv[logFile]) + 1
    BY <2>1
  <2>3. /\ csv' \in [LogNames -> Seq({"header", "packet"})]
        /\ \A n \in LogNames : Len(csv'[n]) <= MaxLines
    BY <1>4, <2>1, <2>2, BoundsAssumption DEF Report
  <2>. QED
    BY <1>4, <2>3 DEF Report, reqVars, confVars, workVars
<1>5. CASE Op \/ Cp
  BY <1>5, ConfigTypes DEF Op, Cp, reqVars, confVars, logVars, workVars
<1>6. CASE OpRestarts
  BY <1>6, ReadTypes, ConfigTypes DEF OpRestarts, Restart, logVars, Dirs
<1>7. CASE Scfg \/ ScfgWrites \/ ScfgReads
  BY <1>7, ReadTypes, ConfigTypes, ConfigsAssumption
     DEF Scfg, ScfgWrites, ScfgReads, logVars, workVars, Dirs
<1>8. CASE Logm
  <2>1. conf' \in Config
    BY <1>8 DEF Logm, LogmCloses, LogmOpens, Closed, Config
  <2>. QED
    BY <1>8, <2>1 DEF Logm, LogmCloses, LogmOpens, workVars
<1>9. CASE Header
  <2>1. logFile \in LogNames /\ csv[logFile] = <<>>
    BY <1>9 DEF Header, Steps
  <2>2. /\ csv' \in [LogNames -> Seq({"header", "packet"})]
        /\ \A n \in LogNames : Len(csv'[n]) <= MaxLines
    BY <1>9, <2>1, BoundsAssumption DEF Header
  <2>3. conf' \in Config
    BY <1>9, <2>1 DEF Header, Config
  <2>. QED
    BY <1>9, <2>2, <2>3 DEF Header, workVars
<1>10. CASE Save
  BY <1>10, ConfigTypes DEF Save, SaveOpens, SaveFails, SaveWrites, confVars, logVars, workVars
<1>. QED
  BY <1>1, <1>2, <1>3, <1>4, <1>5, <1>6, <1>7, <1>8, <1>9, <1>10 DEF Next, Request

-----------------------------------------------------------------------------
(* The parts of the invariant, one after the other *)

\* What a worker does changes nothing that the requests rely on.
LEMMA WorkerLeaves ==
  ASSUME Creates \/ Opens
  PROVE  UNCHANGED <<reqVars, confVars, logVars, wanted, acked, touched, reread>>
BY DEF Creates, Opens

LEMMA StepsKept == ASSUME TypeOK, Steps, Next PROVE Steps'
<1>. USE DEF Steps
<1>1. CASE Start \/ OpRestarts
  BY <1>1 DEF Start, OpRestarts, Restart, logVars
<1>2. CASE Crash
  BY <1>2 DEF Crash
<1>3. CASE Creates \/ Opens
  BY <1>3, WorkerLeaves DEF reqVars, confVars, logVars
<1>4. CASE Report \/ Op \/ Cp
  BY <1>4 DEF Report, Op, Cp, reqVars, confVars, logVars, workVars
<1>5. CASE Scfg \/ ScfgWrites \/ ScfgReads
  BY <1>5 DEF Scfg, ScfgWrites, ScfgReads, logVars, workVars, Unusable
<1>6. CASE Logm
  BY <1>6 DEF Logm, LogmCloses, LogmOpens, workVars
<1>7. CASE Header
  BY <1>7 DEF Header, workVars
<1>8. CASE Save
  BY <1>8 DEF Save, SaveOpens, SaveFails, SaveWrites, confVars, logVars, workVars
<1>. QED
  BY <1>1, <1>2, <1>3, <1>4, <1>5, <1>6, <1>7, <1>8 DEF Next, Request

LEMMA ReadSubmitted == ASSUME Origins PROVE Submitted(AfterRead(conf))
BY DEF Origins, AfterRead

\* Only an scfg, and a save beside the program, give the file something new.
LEMMA OriginsKept == ASSUME TypeOK, Steps, Origins, Next PROVE Origins'
<1>1. \A c \in Configs \cup {Defaults} : Submitted(c)
  BY DEF Submitted
<1>2. CASE Start \/ OpRestarts
  BY <1>2, ReadSubmitted DEF Start, OpRestarts, Restart, logVars, Origins
<1>3. CASE Crash
  <2>1. conf' = Defaults /\ pc' = "down"
    BY <1>3 DEF Crash
  <2>2. file'["app"].is = "whole" => file'["app"] = file["app"]
    BY <1>3, ConfigTypes DEF Crash, Unusable, TypeOK
  <2>. QED
    BY <1>1, <2>1, <2>2 DEF Origins, Submitted
<1>4. CASE Creates \/ Opens
  BY <1>4, WorkerLeaves DEF reqVars, confVars, Origins, Submitted
<1>5. CASE Report \/ Op \/ Cp
  BY <1>5 DEF Report, Op, Cp, reqVars, confVars, Origins, Submitted
<1>6. CASE Scfg
  BY <1>6, ConfigTypes DEF Scfg, Origins, Submitted, Unusable, TypeOK
<1>7. CASE ScfgWrites
  BY <1>1, <1>7, ConfigTypes DEF ScfgWrites, Steps, Origins, Submitted, Whole, TypeOK
<1>8. CASE ScfgReads
  BY <1>8, ReadSubmitted DEF ScfgReads, Origins, Submitted
<1>9. CASE Logm \/ Header
  <2>1. /\ conf'.type = conf.type /\ conf'.mask = conf.mask /\ conf'.com = conf.com
        /\ pc' \in {"save", "header"} /\ UNCHANGED file
    BY <1>9 DEF Logm, LogmCloses, LogmOpens, Closed, Header, TypeOK, Config
  <2>. QED
    BY <2>1 DEF Origins, Submitted
<1>10. CASE SaveOpens
  <2>1. SameDir => Submitted(Saved(conf))
    BY DEF Origins, Submitted, Saved, TypeOK, Config
  <2>2. file'["app"].is = "whole" => file'["app"] = file["app"]
    BY <1>10, ConfigTypes DEF SaveOpens, Unusable, TypeOK
  <2>. QED
    BY <1>10, <2>1, <2>2 DEF SaveOpens, Origins, Submitted
<1>11. CASE SaveFails
  BY <1>11 DEF SaveFails, confVars, Origins, Submitted
<1>12. CASE SaveWrites
  <2>1. SameDir => file'["app"] = Whole(asked)
    BY <1>12, BoundsAssumption DEF SaveWrites, Cwd, TypeOK, Dirs
  <2>2. ~SameDir => file'["app"] = file["app"]
    BY <1>12, BoundsAssumption DEF SaveWrites, Cwd, TypeOK, Dirs
  <2>. QED
    BY <1>12, <2>1, <2>2 DEF SaveWrites, Origins, Submitted, Whole
<1>. QED
  BY <1>2, <1>3, <1>4, <1>5, <1>6, <1>7, <1>8, <1>9, <1>10, <1>11, <1>12
     DEF Next, Request, Save

LEMMA BeginningKept == ASSUME TypeOK, Steps, Beginning, Next PROVE Beginning'
<1>. USE DEF Beginning, SameKeys
<1>1. CASE Start \/ OpRestarts
  BY <1>1 DEF Start, OpRestarts, Restart, AfterRead
<1>2. CASE Crash
  BY <1>2 DEF Crash
<1>3. CASE Creates
  BY <1>3 DEF Creates, reqVars, confVars, logVars, TypeOK, Config
<1>4. CASE Opens
  <2>1. CASE pc = "scfgReads"
    BY <1>4, <2>1 DEF Opens, Steps
  <2>2. CASE pc # "scfgReads"
    <3>1. port' = IF port.type = "CAN_HAT" THEN port
                  ELSE [port EXCEPT !.com = conf.com, !.mask = conf.mask]
      BY <1>4, <2>2 DEF Opens
    <3>2. /\ port'.type = port.type
          /\ port.type = "CAN_USB_M" => port'.com = conf.com /\ port'.mask = conf.mask
      BY <3>1 DEF TypeOK, Config
    <3>. QED
      BY <1>4, <3>2 DEF Opens, reqVars, confVars, logVars
  <2>. QED
    BY <2>1, <2>2
<1>5. CASE Report \/ Op \/ Cp
  BY <1>5 DEF Report, Op, Cp, reqVars, confVars, workVars
<1>6. CASE Scfg \/ ScfgWrites \/ ScfgReads
  BY <1>6 DEF Scfg, ScfgWrites, ScfgReads, Steps, workVars
<1>7. CASE Logm \/ Header
  <2>1. /\ conf'.type = conf.type /\ conf'.mask = conf.mask /\ conf'.com = conf.com
        /\ UNCHANGED <<workVars, touched>>
    BY <1>7 DEF Logm, LogmCloses, LogmOpens, Closed, Header, TypeOK, Config
  <2>. QED
    BY <2>1 DEF workVars
<1>8. CASE Save
  BY <1>8 DEF Save, SaveOpens, SaveFails, SaveWrites, confVars, workVars
<1>. QED
  BY <1>1, <1>2, <1>3, <1>4, <1>5, <1>6, <1>7, <1>8 DEF Next, Request

LEMMA LogKept == ASSUME TypeOK, Steps, LogAsAsked, Next PROVE LogAsAsked'
<1>. USE DEF LogAsAsked
<1>1. CASE Start
  BY <1>1 DEF Start, Restart, Steps, Defaults
<1>2. CASE OpRestarts
  BY <1>2 DEF OpRestarts, Restart, logVars
<1>3. CASE Crash
  BY <1>3 DEF Crash
<1>4. CASE Creates \/ Opens
  BY <1>4, WorkerLeaves DEF reqVars, confVars, logVars
<1>5. CASE Report \/ Op \/ Cp
  BY <1>5 DEF Report, Op, Cp, reqVars, confVars, logVars
<1>6. CASE Scfg \/ ScfgWrites \/ ScfgReads
  BY <1>6 DEF Scfg, ScfgWrites, ScfgReads, Steps, logVars
<1>7. CASE Logm
  BY <1>7, ConfigsAssumption DEF Logm, LogmCloses, LogmOpens, TypeOK, Config
<1>8. CASE Header
  BY <1>8 DEF Header, TypeOK, Config
<1>9. CASE Save
  BY <1>9 DEF Save, SaveOpens, SaveFails, SaveWrites, confVars, logVars
<1>. QED
  BY <1>1, <1>2, <1>3, <1>4, <1>5, <1>6, <1>7, <1>8, <1>9 DEF Next, Request

\* A log is written by Report and Header only, and loses its header by Crash only.
LEMMA HeadKept ==
  ASSUME TypeOK, Steps, LogAsAsked, Headed, HeaderFirst, Next
  PROVE  Headed' /\ HeaderFirst'
<1>1. CASE Start
  <2>1. logFile' = None /\ UNCHANGED <<csv, headless>>
    BY <1>1 DEF Start, Steps, Defaults
  <2>. QED
    BY <2>1 DEF Headed, HeaderFirst
<1>2. CASE Crash
  <2>1. logFile' = None /\ UNCHANGED csv
    BY <1>2 DEF Crash
  <2>2. \A n \in LogNames : csv[n] # <<>> => (n \in headless' <=> n \in headless)
    BY <1>2 DEF Crash, Steps
  <2>3. \A n \in LogNames : \A k \in DOMAIN csv[n] : csv[n] # <<>>
    OBVIOUS
  <2>. QED
    BY <2>1, <2>2, <2>3 DEF Headed, HeaderFirst
<1>3. CASE Report
  <2>1. logFile \in LogNames /\ csv[logFile] \in Seq({"header", "packet"})
    BY <1>3 DEF Report, TypeOK
  <2>2. csv[logFile] # <<>> \/ logFile \in headless
    BY <1>3 DEF Report, Headed
  <2>3. /\ csv' = [csv EXCEPT ![logFile] = Append(@, "packet")]
        /\ UNCHANGED <<logFile, headless>>
    BY <1>3 DEF Report
  <2>4. csv'[logFile] # <<>>
    BY <2>1, <2>3 DEF TypeOK
  <2>5. ASSUME NEW n \in LogNames, NEW k \in DOMAIN csv'[n]
        PROVE  csv'[n][k] = "header" <=> k = 1 /\ n \notin headless
    <3>1. CASE n # logFile \/ k # Len(csv[logFile]) + 1
      <4>1. k \in DOMAIN csv[n] /\ csv'[n][k] = csv[n][k]
        BY <2>1, <2>3, <2>5, <3>1 DEF TypeOK
      <4>. QED
        BY <4>1 DEF HeaderFirst
    <3>2. CASE n = logFile /\ k = Len(csv[logFile]) + 1
      <4>1. csv'[n][k] = "packet"
        BY <2>1, <2>3, <3>2 DEF TypeOK
      <4>2. csv[logFile] # <<>> => k # 1
        BY <2>1, <3>2
      <4>. QED
        BY <2>2, <3>2, <4>1, <4>2
    <3>. QED
      BY <3>1, <3>2
  <2>. QED
    BY <2>3, <2>4, <2>5 DEF Headed, HeaderFirst
<1>4. CASE Header
  <2>1. logFile \in LogNames /\ csv[logFile] = <<>> /\ logFile \notin headless
    BY <1>4 DEF Header, Steps
  <2>2. csv' = [csv EXCEPT ![logFile] = <<"header">>] /\ UNCHANGED <<logFile, headless>>
    BY <1>4, <2>1 DEF Header
  <2>. QED
    BY <2>1, <2>2 DEF Headed, HeaderFirst, TypeOK
<1>5. CASE Logm
  <2>1. UNCHANGED <<csv, headless>>
    BY <1>5 DEF Logm, LogmCloses, LogmOpens
  <2>2. Headed'
    BY <1>5, <2>1 DEF Logm, LogmCloses, LogmOpens, Headed
  <2>. QED
    BY <2>1, <2>2 DEF HeaderFirst
<1>6. CASE ~(Start \/ Crash \/ Report \/ Header \/ Logm)
  <2>1. /\ UNCHANGED <<csv, headless, logFile>>
        /\ pc = "header" => pc' = "header"
    <3>1. CASE Creates \/ Opens
      BY <3>1, WorkerLeaves DEF reqVars, logVars
    <3>2. CASE Request
      BY <3>2 DEF Request, Op, OpRestarts, Cp, Scfg, ScfgWrites, ScfgReads, reqVars, logVars
    <3>3. CASE Save
      BY <3>3 DEF Save, SaveOpens, SaveFails, SaveWrites, logVars
    <3>. QED
      BY <1>6, <3>1, <3>2, <3>3 DEF Next
  <2>. QED
    BY <2>1 DEF Headed, HeaderFirst
<1>. QED
  BY <1>1, <1>2, <1>3, <1>4, <1>5, <1>6

LEMMA NextInductive == ControlInductive /\ Next => ControlInductive'
BY TypeKept, StepsKept, OriginsKept, BeginningKept, LogKept, HeadKept
   DEF ControlInductive

LEMMA StutterInductive == ControlInductive /\ UNCHANGED vars => ControlInductive'
BY DEF ControlInductive, TypeOK, Steps, Origins, Submitted, Beginning, SameKeys,
       LogAsAsked, Headed, HeaderFirst,
       vars, reqVars, confVars, logVars, workVars

-----------------------------------------------------------------------------
(* Theorems *)

\* The invariant of requests, file, worker and logs, and with it type correctness.
THEOREM ControlInvariant == Spec => []ControlInductive
<1>1. ControlInductive /\ [Next]_vars => ControlInductive'
  BY NextInductive, StutterInductive
<1>. QED
  BY InitInductive, <1>1, PTL DEF Spec

\* Conf::Read never puts a configuration together from two, and never takes one
\* that was written in part, wherever scfg and Save were interrupted.
THEOREM ConfigurationWhole == Spec => []ConfWhole
<1>1. ControlInductive => ConfWhole
  BY DEF ControlInductive, Origins, Submitted, ConfWhole
<1>. QED
  BY ControlInvariant, <1>1, PTL

\* ThreadProc opens the port on the file that Restart read, unless an scfg came
\* before it had.
THEOREM PortOpensOnFile == Spec => []OpenedOnFile
<1>1. ControlInductive => OpenedOnFile
  BY DEF ControlInductive, Beginning, OpenedOnFile
<1>. QED
  BY ControlInvariant, <1>1, PTL

\* An open log is the one asked for last, by logm or by the configuration of the
\* start, and MsgLogFn names it unless the configuration was reread since.
THEOREM LogOnlyAsAsked == Spec => []LogAsAsked
<1>1. ControlInductive => LogAsAsked
  BY DEF ControlInductive
<1>. QED
  BY ControlInvariant, <1>1, PTL

\* The header of a log is its first line and no other.
THEOREM HeadersFirst == Spec => []HeaderFirst
<1>1. ControlInductive => HeaderFirst
  BY DEF ControlInductive
<1>. QED
  BY ControlInvariant, <1>1, PTL
=============================================================================
