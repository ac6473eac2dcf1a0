------------------------------ MODULE Control ------------------------------
(***************************************************************************)
(* The requests of the UI clients that keep state (ServerApp::             *)
(* ProcessControlPacket), the configuration with its file (App/            *)
(* server_conf.cpp) and the message log (App/msg_log_file.cpp).  The main  *)
(* thread handles one request at a time; the process may end between any   *)
(* two operations on a file, and starts again.  The worker thread is in    *)
(* Transporter; here it is what it reads of the configuration, while the   *)
(* main thread may be changing it.                                         *)
(***************************************************************************)
EXTENDS Integers, Sequences

CONSTANTS Coms, Masks,\* values of the keys that Save drops (COM, COMSettings,
                      \* CANBitrate, ...) and of those that it keeps
          Configs,    \* configurations that scfg is given
          LogNames,   \* names that logm is given
          SameDir,    \* is the process started in the directory of the program?
          MaxLines    \* bound: lines of a message log

None == "none"    \* an empty string, or a key that is absent
Types == {"CAN_HAT", "CAN_USB_M", "other"}

Config == [type : Types, com : Coms \cup {None}, mask : Masks \cup {None},
           fn : LogNames \cup {None}]

ASSUME ConfigsAssumption == Configs \subseteq Config /\ None \notin LogNames
ASSUME BoundsAssumption == SameDir \in BOOLEAN /\ MaxLines \in Nat \ {0}

VARIABLES pc,        \* the step of a request, "idle", or "down"
          asked,     \* the configuration that is being written
          conf,      \* Conf::Port and Conf::MsgLogFn
          file,      \* protos_server.conf in the two directories
          logFile,   \* name of the open LogFile
          csv,       \* the log files, by name
          worker,    \* the worker thread
          port,      \* what it created and opened the port with
          acked,     \* history: the file that scfg acknowledged last
          wanted,    \*   the file that the last Restart read,
          touched,   \*   and whether the configuration was read since;
          logAsked,  \*   the log that the last logm asked for, or the configuration
                     \*   at the start of the process if there was none,
          reread,    \*   and whether the configuration was read since;
          headless   \*   logs whose creator died before their header

reqVars == <<pc, asked>>
confVars == <<conf, file>>
logVars == <<logFile, csv, logAsked, headless>>
workVars == <<worker, port, wanted>>
vars == <<reqVars, confVars, logVars, workVars, acked, touched, reread>>

(* Definitions named <Definition>_<Fault> are seeded faults, as in Transporter. *)

-----------------------------------------------------------------------------
(* The configuration and its file *)

Defaults == [type |-> "CAN_HAT", com |-> None, mask |-> None, fn |-> None]
NoKeys == [Defaults EXCEPT !.type = "other"]

\* A file that was opened for writing is "empty", then holds "part" of the text.
Unusable(what) == [is |-> what, conf |-> NoKeys]
Whole(c) == [is |-> "whole", conf |-> c]

File == [is : {"missing", "empty", "part", "whole"}, conf : Config]
Dirs == {"app", "cwd"}
Cwd == IF SameDir THEN "app" ELSE "cwd"

\* Conf::Read of the file beside the program: what it cannot read or parse
\* leaves everything as it was.
AfterRead_TakesPart(c) == IF file["app"].is \in {"part", "whole"} THEN file["app"].conf ELSE c
AfterRead(c) == IF file["app"].is = "whole" THEN file["app"].conf ELSE c

\* Conf::Save writes the other keys of the configuration.
Saved(c) == [c EXCEPT !.com = None]

-----------------------------------------------------------------------------
Init ==
  /\ pc = "down" /\ asked = NoKeys /\ conf = Defaults
  /\ \E f \in {Unusable("missing")} \cup {Whole(c) : c \in Configs} :
       file = [d \in Dirs |-> IF d = "app" THEN f ELSE Unusable("missing")]
  /\ logFile = None /\ csv = [n \in LogNames |-> <<>>]
  /\ worker = "none" /\ port = NoKeys
  /\ acked = Unusable("missing") /\ wanted = Unusable("missing")
  /\ touched = FALSE /\ logAsked = None /\ reread = FALSE /\ headless = {}

\* The end of the process. The bytes of a write may have reached the file in part.
Crash ==
  /\ pc # "down" /\ pc' = "down" /\ asked' = NoKeys
  /\ file' \in (IF pc = "scfgWrites" THEN {file, [file EXCEPT !["app"] = Unusable("part")]}
                ELSE IF pc = "saveWrites" THEN {file, [file EXCEPT ![Cwd] = Unusable("part")]}
                ELSE {file})
  /\ headless' = IF pc = "header" THEN headless \cup {logFile} ELSE headless
  /\ conf' = Defaults /\ logFile' = None /\ logAsked' = None
  /\ worker' = "none" /\ port' = NoKeys /\ UNCHANGED <<csv, acked, wanted, touched, reread>>

(* Restart: the worker is gone, the file is read, a new worker begins. *)
Restart_NoRead ==
  /\ worker \notin {"creating", "opening"} /\ worker' = "creating" /\ port' = NoKeys
  /\ wanted' = file["app"] /\ touched' = FALSE /\ reread' = TRUE /\ UNCHANGED conf

Restart ==
  /\ worker \notin {"creating", "opening"} /\ worker' = "creating" /\ port' = NoKeys
  /\ conf' = AfterRead(conf)
  /\ wanted' = file["app"] /\ touched' = FALSE /\ reread' = TRUE

\* The name of the log is tested before the file is read for the first time: a
\* log that the file names stays closed.
Start ==
  /\ pc = "down" /\ pc' = "idle" /\ logFile' = conf.fn /\ Restart
  /\ logAsked' = AfterRead(conf).fn
  /\ UNCHANGED <<asked, file, csv, headless, acked>>

-----------------------------------------------------------------------------
(* The worker *)

Creates ==
  /\ worker = "creating"
  /\ worker' = IF conf.type = "other" THEN "failed" ELSE "opening"
  /\ port' = [port EXCEPT !.type = conf.type]
  /\ UNCHANGED <<reqVars, confVars, logVars, wanted, acked, touched, reread>>

\* The CAN-HAT takes no parameters. While Conf::Read runs, a parameter may be
\* the old or the new one.
Opens ==
  /\ worker = "opening" /\ worker' \in {"open", "failed"}
  /\ LET now == IF pc = "scfgReads" THEN {conf, asked} ELSE {conf} IN
       \E c, m \in now :
         port' = IF port.type = "CAN_HAT" THEN port
                 ELSE [port EXCEPT !.com = c.com, !.mask = m.mask]
  /\ UNCHANGED <<reqVars, confVars, logVars, wanted, acked, touched, reread>>

\* OnPacket, for a packet of an open port.
Report ==
  /\ pc = "idle" /\ worker = "open" /\ logFile # None /\ Len(csv[logFile]) < MaxLines
  /\ csv' = [csv EXCEPT ![logFile] = Append(@, "packet")]
  /\ UNCHANGED <<reqVars, confVars, logFile, logAsked, headless, workVars, acked, touched, reread>>

-----------------------------------------------------------------------------
(* Requests *)

\* op, unless the port is started; Restart waits in Stop for the worker.
Op ==
  /\ pc = "idle" /\ worker # "open" /\ pc' = "op"
  /\ UNCHANGED <<asked, confVars, logVars, workVars, acked, touched, reread>>
OpRestarts ==
  /\ pc = "op" /\ pc' = "idle" /\ Restart
  /\ UNCHANGED <<asked, file, logVars, acked>>

Cp ==
  /\ pc = "idle" /\ worker \notin {"creating", "opening"}
  /\ worker' = "none" /\ port' = NoKeys
  /\ UNCHANGED <<reqVars, confVars, logVars, wanted, acked, touched, reread>>

Scfg ==
  /\ pc = "idle" /\ pc' = "scfgWrites" /\ asked' \in Configs
  /\ file' = [file EXCEPT !["app"] = Unusable("empty")] /\ acked' = Unusable("missing")
  /\ UNCHANGED <<conf, logVars, workVars, touched, reread>>
ScfgWrites ==
  /\ pc = "scfgWrites" /\ pc' = "scfgReads" /\ touched' = TRUE /\ reread' = TRUE
  /\ file' = [file EXCEPT !["app"] = Whole(asked)]
  /\ UNCHANGED <<asked, conf, logVars, workVars, acked>>
ScfgReads ==
  /\ pc = "scfgReads" /\ pc' = "idle" /\ asked' = NoKeys
  /\ conf' = AfterRead(conf) /\ acked' = file["app"]
  /\ UNCHANGED <<file, logVars, workVars, touched, reread>>

\* logm: the old log is closed, and the new one is opened if it can be.
Closed == [conf EXCEPT !.fn = IF logFile = None THEN @ ELSE None]
LogmCloses ==
  /\ pc = "idle" /\ pc' = "save" /\ logAsked' \in LogNames \cup {None}
  /\ logFile' = None /\ conf' = Closed
  /\ UNCHANGED <<asked, file, csv, headless, workVars, acked, touched, reread>>
LogmOpens_Header(n) ==
  /\ pc = "idle" /\ logAsked' = n /\ logFile' = n
  /\ pc' = "header" /\ conf' = Closed
  /\ UNCHANGED <<asked, file, csv, headless, workVars, acked, touched, reread>>
LogmOpens_KeepsOld(n) ==
  /\ pc = "idle" /\ logAsked' = n /\ logFile' = IF logFile = None THEN n ELSE logFile
  /\ pc' = "save" /\ conf' = [conf EXCEPT !.fn = n] /\ reread' = FALSE
  /\ UNCHANGED <<asked, file, csv, headless, workVars, acked, touched>>
\* A file that does not exist is created, and gets a header.
LogmOpens(n) ==
  /\ pc = "idle" /\ logAsked' = n /\ logFile' = n
  /\ IF csv[n] = <<>> /\ n \notin headless
       THEN pc' = "header" /\ conf' = Closed /\ UNCHANGED reread
       ELSE pc' = "save" /\ conf' = [conf EXCEPT !.fn = n] /\ reread' = FALSE
  /\ UNCHANGED <<asked, file, csv, headless, workVars, acked, touched>>
Header ==
  /\ pc = "header" /\ pc' = "save" /\ csv' = [csv EXCEPT ![logFile] = Append(@, "header")]
  /\ conf' = [conf EXCEPT !.fn = logFile] /\ reread' = FALSE
  /\ UNCHANGED <<asked, file, logFile, logAsked, headless, workVars, acked, touched>>

SaveOpens ==
  /\ pc = "save" /\ pc' = "saveWrites" /\ asked' = Saved(conf)
  /\ file' = [file EXCEPT ![Cwd] = Unusable("empty")]
  /\ UNCHANGED <<conf, logVars, workVars, acked, touched, reread>>
\* The answer says nothing of a file that could not be opened.
SaveFails ==
  /\ pc = "save" /\ pc' = "idle"
  /\ UNCHANGED <<asked, confVars, logVars, workVars, acked, touched, reread>>
SaveWrites ==
  /\ pc = "saveWrites" /\ pc' = "idle" /\ asked' = NoKeys
  /\ file' = [file EXCEPT ![Cwd] = Whole(asked)]
  /\ UNCHANGED <<conf, logVars, workVars, acked, touched, reread>>

Logm == LogmCloses \/ \E n \in LogNames : LogmOpens(n)
Request == Op \/ OpRestarts \/ Cp \/ Scfg \/ ScfgWrites \/ ScfgReads
Save == SaveOpens \/ SaveFails \/ SaveWrites
Next ==
  \/ Start \/ Crash \/ Creates \/ Opens \/ Report
  \/ Request \/ Logm \/ Header \/ Save
Spec == Init /\ [][Next]_vars

-----------------------------------------------------------------------------
\* The configuration is never put together from two, and never one that was
\* written in part: it is the default or one that was submitted, whatever
\* crashed in between. Only the log name changes on its own, and only where
\* the process is started beside the program can Save's file lose keys.
ConfWhole ==
  \E c \in Configs \cup {Defaults} :
    /\ conf.type = c.type /\ conf.mask = c.mask
    /\ conf.com = c.com \/ (SameDir /\ conf.com = None)

\* A port that opens after a Restart runs on the file that the Restart read,
\* type and parameters, unless an scfg came before the worker had read them.
OpenedOnFile ==
  worker = "open" /\ ~touched /\ wanted.is = "whole" =>
    /\ port.type = wanted.conf.type
    /\ port.type = "CAN_USB_M" =>
         port.com = wanted.conf.com /\ port.mask = wanted.conf.mask

\* Between requests, what "get config" (server_app.cpp:207) reads of the file holds
\* every key but the log's name as the last scfg was acknowledged with. It fails where
\* the process runs in the directory of the program: Save drops keys from that file.
ConfigKept ==
  pc = "idle" /\ acked.is = "whole" =>
    file["app"] = [acked EXCEPT !.conf.fn = file["app"].conf.fn]

\* An open log is the one that was asked for last, by logm or by the configuration
\* that the process started with: a logm that moves the log leaves none behind. And
\* unless the configuration was reread since, which replaces MsgLogFn and not the
\* log, MsgLogFn names it: it is what "hi" answers. A log that is asked for may
\* stay closed.
LogAsAsked ==
  /\ logFile \in {None, logAsked}
  /\ logFile # None /\ ~reread /\ pc # "header" => conf.fn = logFile

\* The header of a log is its first line and no other, however often the log is
\* closed and opened again; it is missing only from logs whose creator died.
HeaderFirst ==
  \A n \in LogNames : \A k \in DOMAIN csv[n] :
    csv[n][k] = "header" <=> k = 1 /\ n \notin headless

\* Type correctness; only an empty log gets a header.
TypeOK ==
  /\ pc \in {"down", "idle", "op", "scfgWrites", "scfgReads", "header", "save", "saveWrites"}
  /\ conf \in Config /\ asked \in Config /\ port \in Config /\ file \in [Dirs -> File]
  /\ acked \in File /\ wanted \in File
  /\ logFile \in LogNames \cup {None} /\ logAsked \in LogNames \cup {None}
  /\ csv \in [LogNames -> Seq({"header", "packet"})]
  /\ \A n \in LogNames : Len(csv[n]) <= MaxLines
  /\ worker \in {"none", "creating", "opening", "open", "failed"}
  /\ touched \in BOOLEAN /\ reread \in BOOLEAN /\ headless \subseteq LogNames
=============================================================================
